------------------------- MODULE DeviceLifecycleProofs -------------------------
(***************************************************************************)
(* What holds of the life of the devices for every number of devices,      *)
(* every hierarchy and whatever they depend on, register or throw: the     *)
(* devices are started as DeviceStart promises, and each operation calls   *)
(* the hooks of each device once, in order and on devices that are there.  *)
(*                                                                         *)
(* What an operation calls, done and left, is one word, known in full when *)
(* the operation begins.  The words are put together from parts, so the    *)
(* first lemmas are about words; then those of a reset, which is recursive *)
(* over the hierarchy; then the words of all operations; then the          *)
(* invariant, which has the lists of callbacks that the words come from.   *)
(***************************************************************************)
EXTENDS DeviceLifecycle, ExtremeLemmas

---------------------------------------------------------------------------------
(* The start of the devices, for any number of them and any relation of    *)
(* dependency between them.                                                *)

(* The devices that the pass has come by and that are still not started.   *)
Passed(n)  == {d \in Devices : d < n /\ d \notin started}

(* B is what had been started when the pass began: what the pass has       *)
(* failed to start needs something outside B.                              *)
PassBegan(B) ==
  /\ B \subseteq started
  /\ last_failed_starts \in {-1, Cardinality(Devices \ B)}
  /\ \A d \in Passed(next) : ~(needs[d] \subseteq B)

(* The failures are counted, and so were those of the pass before.         *)
Counted ==
  /\ next > 0 => /\ failed_starts = Cardinality(Passed(next))
                 /\ last_failed_starts # 0
                 /\ \E B \in SUBSET Devices : PassBegan(B)
  /\ next = 0 => last_failed_starts \in {-1, Cardinality(Devices \ started)}

(* Nothing that is left can be started.                                    *)
Stuck == \A d \in Devices \ started : ~(needs[d] \subseteq started)

Ended ==
  /\ outcome = "started" => started = Devices
  /\ outcome = "circular" => Stuck /\ started # Devices

(* started is in every closed set.                                         *)
Minimal == \A S \in SUBSET Devices : Closed(S) => started \subseteq S

IInv == TypeOK /\ Counted /\ Ended /\ Minimal

(* There are N devices.                                                    *)
LEMMA DevicesFinite == IsFiniteSet(Devices) /\ Cardinality(Devices) = N
<1>1. N \in Nat
  BY DeviceStartAssumption
<1>2. 1 .. N = 1..N /\ IsFiniteSet(1 .. N)
  BY <1>1, FS_Interval
<1>3. Cardinality(1 .. N) = IF 1 > N THEN 0 ELSE N - 1 + 1
  BY <1>1, FS_Interval
<1> QED
  BY <1>1, <1>2, <1>3 DEF Devices

(* A set of devices can be counted.                                        *)
LEMMA SubsetCount ==
  ASSUME NEW S \in SUBSET Devices
  PROVE  IsFiniteSet(S) /\ Cardinality(S) \in 0 .. N
<1>1. IsFiniteSet(S) /\ Cardinality(S) <= Cardinality(Devices)
  BY DevicesFinite, FS_Subset
<1> QED
  BY <1>1, DevicesFinite, FS_CardinalityType, DeviceStartAssumption

(* At the end of a pass without progress nothing that is left can start.   *)
LEMMA NoProgressIsStuck ==
  ASSUME IInv, next = N + 1, failed_starts = last_failed_starts
  PROVE  Stuck /\ started # Devices
<1>1. N \in Nat /\ started \subseteq Devices /\ needs \in [Devices -> SUBSET Devices]
  BY DeviceStartAssumption DEF IInv, TypeOK
<1>2. Passed(N + 1) = Devices \ started
  BY <1>1 DEF Passed, Devices
<1>3. PICK B \in SUBSET Devices : PassBegan(B)
  BY <1>1 DEF IInv, Counted
<1>4. failed_starts = Cardinality(Devices \ started) /\ failed_starts # 0
  <2>1. next > 0
    BY <1>1
  <2>2. failed_starts = Cardinality(Passed(next)) /\ last_failed_starts # 0
    BY <2>1 DEF IInv, Counted
  <2> QED
    BY <1>2, <2>2
<1>5. Cardinality(Devices \ started) \in Nat /\ IsFiniteSet(Devices \ B)
  BY <1>1, <1>3, SubsetCount
<1>6. Cardinality(Devices \ started) = Cardinality(Devices \ B)
  BY <1>3, <1>4, <1>5 DEF PassBegan
<1>7. Devices \ started \subseteq Devices \ B
  BY <1>3 DEF PassBegan
<1>8. Devices \ started = Devices \ B
  BY <1>5, <1>6, <1>7, FS_Subset
<1>9. B = started
  BY <1>1, <1>3, <1>8 DEF PassBegan
<1>10. Stuck
  BY <1>2, <1>3, <1>9 DEF PassBegan, Stuck
<1>11. started # Devices
  BY <1>4, FS_EmptySet
<1> QED
  BY <1>10, <1>11

(* A pass without failure has started everything.                          *)
LEMMA NoFailureIsAll ==
  ASSUME IInv, next = 0, last_failed_starts = 0
  PROVE  started = Devices
<1>1. Cardinality(Devices \ started) = 0 /\ started \subseteq Devices
  BY DEF IInv, Counted, TypeOK
<1>2. Devices \ started = {}
  BY <1>1, SubsetCount, FS_EmptySet
<1> QED
  BY <1>1, <1>2

---------------------------------------------------------------------------------
(* No device is started at first, and nothing has been counted.            *)
LEMMA IInvInit == Init => IInv
<1> SUFFICES ASSUME Init PROVE IInv
  OBVIOUS
<1>1. N \in Nat
  BY DeviceStartAssumption
<1>2. TypeOK
  BY <1>1 DEF Init, TypeOK, Devices
<1> QED
  BY <1>2 DEF IInv, Init, Counted, Ended, Minimal

(* Every step keeps the types.                                             *)
LEMMA TypeOKStep ==
  ASSUME IInv, [Next]_vars
  PROVE  TypeOK'
<1>1. /\ N \in Nat /\ TypeOK
  BY DeviceStartAssumption DEF IInv
<1>2. CASE Skip
  BY <1>1, <1>2 DEF Skip, TypeOK, Devices
<1>3. CASE Start
  BY <1>1, <1>3 DEF Start, TypeOK, Devices
<1>4. CASE Reschedule
  <2>1. next \in 1 .. N /\ next \notin Passed(next) /\ Passed(next) \cup {next} \subseteq Devices
    BY <1>1, <1>4 DEF Reschedule, Devices, Passed
  <2>2. Cardinality(Passed(next) \cup {next}) = Cardinality(Passed(next)) + 1
    BY <2>1, SubsetCount, FS_AddElement DEF Passed
  <2>3. failed_starts = Cardinality(Passed(next))
    BY <2>1, <1>1 DEF IInv, Counted
  <2>4. failed_starts' \in 0 .. N
    BY <1>4, <2>1, <2>2, <2>3, SubsetCount DEF Reschedule
  <2> QED
    BY <1>1, <1>4, <2>1, <2>4 DEF Reschedule, TypeOK
<1>5. CASE Error \/ Circular \/ AllStarted
  BY <1>1, <1>5 DEF Error, Circular, AllStarted, TypeOK
<1>6. CASE BeginPass \/ EndPass
  BY <1>1, <1>6 DEF BeginPass, EndPass, TypeOK
<1>7. CASE UNCHANGED vars
  BY <1>1, <1>7 DEF vars, TypeOK
<1> QED
  BY <1>2, <1>3, <1>4, <1>5, <1>6, <1>7 DEF Next

(* Every step keeps the counts of a pass true to the devices.              *)
LEMMA CountedStep ==
  ASSUME IInv, [Next]_vars
  PROVE  Counted'
<1>1. /\ N \in Nat /\ next \in 0 .. (N + 1) /\ started \subseteq Devices
      /\ failed_starts \in 0 .. N /\ Counted
  BY DeviceStartAssumption DEF IInv, TypeOK
<1>2. CASE Skip \/ Start
  <2>1. /\ next \in Devices /\ next' = next + 1 /\ next \in started'
        /\ started' = started \cup {next}
        /\ UNCHANGED <<needs, failed_starts, last_failed_starts>>
    BY <1>1, <1>2 DEF Skip, Start
  <2>2. next > 0 /\ next' > 0 /\ next' # 0
    BY <1>1, <2>1 DEF Devices
  <2>3. (Passed(next))' = Passed(next)
    BY <1>1, <2>1 DEF Passed, Devices
  <2>4. PICK B \in SUBSET Devices : PassBegan(B)
    BY <1>1, <2>2 DEF Counted
  <2>5. PassBegan(B)'
    BY <2>1, <2>3, <2>4 DEF PassBegan
  <2> QED
    BY <1>1, <2>1, <2>2, <2>3, <2>5 DEF Counted
<1>3. CASE Reschedule
  <2>1. /\ next \in Devices \ started /\ ~(needs[next] \subseteq started) /\ next' = next + 1
        /\ failed_starts' = failed_starts + 1
        /\ UNCHANGED <<needs, started, last_failed_starts>>
    BY <1>3 DEF Reschedule
  <2>2. next > 0 /\ next' > 0 /\ next' # 0
    BY <1>1, <2>1 DEF Devices
  <2>3. (Passed(next))' = Passed(next) \cup {next} /\ next \notin Passed(next)
    BY <1>1, <2>1 DEF Passed, Devices
  <2>4. Passed(next) \in SUBSET Devices
    BY DEF Passed
  <2>5. Cardinality(Passed(next) \cup {next}) = Cardinality(Passed(next)) + 1
    BY <2>3, <2>4, SubsetCount, FS_AddElement
  <2>6. failed_starts' = (Cardinality(Passed(next)))'
    BY <1>1, <2>1, <2>2, <2>3, <2>5 DEF Counted
  <2>7. PICK B \in SUBSET Devices : PassBegan(B)
    BY <1>1, <2>2 DEF Counted
  <2>8. PassBegan(B)'
    BY <2>1, <2>3, <2>7 DEF PassBegan
  <2> QED
    BY <1>1, <2>1, <2>2, <2>6, <2>8 DEF Counted
<1>4. CASE BeginPass
  <2>1. (Passed(next))' = {}
    BY <1>4 DEF BeginPass, Passed, Devices
  <2>2. PassBegan(started)'
    BY <1>1, <1>4, <2>1 DEF BeginPass, PassBegan, Counted
  <2>3. failed_starts' = (Cardinality(Passed(next)))'
    BY <1>4, <2>1, FS_EmptySet DEF BeginPass
  <2> QED
    BY <1>1, <1>4, <2>2, <2>3 DEF BeginPass, Counted
<1>5. CASE EndPass
  <2>1. Passed(N + 1) = Devices \ started
    BY <1>1 DEF Passed, Devices
  <2> QED
    BY <1>1, <1>5, <2>1 DEF EndPass, Counted
<1>6. CASE Error \/ Circular \/ AllStarted \/ UNCHANGED vars
  <2>1. UNCHANGED <<needs, started, next, failed_starts, last_failed_starts>>
    BY <1>6 DEF Error, Circular, AllStarted, vars
  <2> QED
    BY <1>1, <2>1 DEF Counted, PassBegan, Passed
<1> QED
  BY <1>2, <1>3, <1>4, <1>5, <1>6 DEF Next

(* Every step keeps how the start may have ended.                          *)
LEMMA EndedStep ==
  ASSUME IInv, [Next]_vars
  PROVE  Ended'
<1>1. CASE Circular
  BY <1>1, NoProgressIsStuck DEF Circular, Ended, Stuck
<1>2. CASE AllStarted
  BY <1>2, NoFailureIsAll DEF AllStarted, Ended
<1>3. CASE Skip \/ Start \/ Reschedule \/ Error \/ BeginPass \/ EndPass
  BY <1>3 DEF Skip, Start, Reschedule, Error, BeginPass, EndPass, Ended
<1>4. CASE UNCHANGED vars
  BY <1>4 DEF IInv, Ended, Stuck, vars
<1> QED
  BY <1>1, <1>2, <1>3, <1>4 DEF Next

(* Every step starts only devices that every closed set has.               *)
LEMMA MinimalStep ==
  ASSUME IInv, [Next]_vars
  PROVE  Minimal'
<1>1. needs' = needs
  BY DEF Next, Skip, Start, Reschedule, Error, BeginPass, EndPass, Circular, AllStarted, vars
<1>2. SUFFICES ASSUME NEW S \in SUBSET Devices, Closed(S)
               PROVE  started' \subseteq S
  BY <1>1 DEF Minimal, Closed
<1>3. started \subseteq S
  BY <1>2 DEF IInv, Minimal
<1>4. CASE Start
  BY <1>2, <1>3, <1>4 DEF Start, Closed
<1>5. CASE ~Start
  BY <1>3, <1>5
    DEF Next, Skip, Reschedule, Error, BeginPass, EndPass, Circular, AllStarted, vars
<1> QED
  BY <1>4, <1>5

(* The invariant holds throughout.                                         *)
LEMMA IInvAlways == Spec => []IInv
<1>1. Init => IInv
  BY IInvInit
<1>2. IInv /\ [Next]_vars => IInv'
  BY TypeOKStep, CountedStep, EndedStep, MinimalStep DEF IInv
<1> QED
  BY <1>1, <1>2, PTL DEF Spec

---------------------------------------------------------------------------------
(* Type correctness; in particular the failures of a pass never outnumber  *)
(* the devices.                                                            *)
THEOREM TypeCorrect == Spec => []TypeOK
<1>1. IInv => TypeOK
  BY DEF IInv
<1> QED
  BY <1>1, IInvAlways, PTL

(* start_all_devices starts every device that any order can start, and     *)
(* only those, before it raises "Circular dependency in device startup!".  *)
THEOREM StartsExactly == Spec => []StartsWhatCanBe
<1>1. ASSUME IInv PROVE StartsWhatCanBe
  <2>1. started \subseteq Devices /\ Minimal /\ Ended
    BY <1>1 DEF IInv, TypeOK
  <2>2. started \subseteq Startable
    BY <2>1 DEF Minimal, Startable
  <2>3. ASSUME outcome = "circular" PROVE started = Startable /\ Startable # Devices
    <3>1. Stuck /\ started # Devices
      BY <2>1, <2>3 DEF Ended
    <3>2. Closed(started)
      BY <3>1 DEF Stuck, Closed
    <3>3. Startable \subseteq started
      BY <2>1, <3>2 DEF Startable
    <3> QED
      BY <2>2, <3>1, <3>3
  <2> QED
    BY <2>1, <2>2, <2>3 DEF StartsWhatCanBe, Ended
<1> QED
  BY <1>1, IInvAlways, PTL

(* The passes implement the order of starting they stand for: every step   *)
(* of the loop is a step of StartOrder or leaves its variables alone.      *)
THEOREM PassesKeepPromise == Spec => KeepsPromise
<1>1. Init => Promise!Init
  BY DEF Init, Promise!Init
<1>2. ASSUME IInv, [Next]_vars
      PROVE  [Promise!Next]_<<needs, started, outcome>>
  <2>1. CASE Start
    <3>1. Promise!Ready(next) /\ next \in Devices
      BY <2>1 DEF Start, Promise!Ready
    <3> QED
      BY <2>1, <3>1 DEF Start, Promise!Start, Promise!Next
  <2>2. CASE Circular
    <3>1. Stuck /\ started # Devices
      BY <1>2, <2>2, NoProgressIsStuck DEF Circular
    <3>2. \A d \in Devices : ~Promise!Ready(d)
      BY <3>1 DEF Stuck, Promise!Ready
    <3> QED
      BY <2>2, <3>1, <3>2 DEF Circular, Promise!GiveUp, Promise!Next
  <2>3. CASE AllStarted
    BY <1>2, <2>3, NoFailureIsAll DEF AllStarted, Promise!AllStarted, Promise!Next
  <2>4. CASE Error
    BY <2>4 DEF Error, Promise!Fail, Promise!Next
  <2>5. CASE Skip \/ Reschedule \/ BeginPass \/ EndPass \/ UNCHANGED vars
    BY <2>5 DEF Skip, Reschedule, BeginPass, EndPass, vars
  <2> QED
    BY <1>2, <2>1, <2>2, <2>3, <2>4, <2>5 DEF Next
<1> QED
  BY <1>1, <1>2, IInvAlways, PTL DEF Spec, Promise!Spec, KeepsPromise

---------------------------------------------------------------------------------
(* The operations on started devices.                                      *)

(* The hooks, and a callback that a device registered.  What an operation  *)
(* calls is a word of these on devices.                                    *)
Hooks ==
  {"interface_config_complete", "device_config_complete", "findit", "device_resolve_objects",
   "interface_pre_save", "device_pre_save", "interface_post_load", "device_post_load",
   "interface_pre_stop", "device_stop", "interface_post_stop",
   "interface_pre_reset", "device_reset", "device_reset_after_children", "interface_post_reset",
   "nvram_load", "nvram_save", "own"}

Callbacks == 0 .. (N + 1)
Calls == Callbacks \X Hooks
Words == Seq(Calls)
Lists == Seq(Callbacks)

(* The elements of a sequence, and the calls of a callback.                *)
LEMMA Elements ==
  ASSUME NEW S, NEW list \in Seq(S)
  PROVE  /\ Len(list) \in Nat /\ DOMAIN list = 1 .. Len(list)
         /\ \A i \in 1 .. Len(list) : list[i] \in S
OBVIOUS

(* The own callback of a device, of the machine or of the banks is a call. *)
LEMMA OwnIsCall ==
  ASSUME NEW d \in Callbacks PROVE <<d, "own">> \in Calls
BY DEF Calls, Hooks

Holds(w, x)      == \E i \in DOMAIN w : w[i] = x
OnceIn(w, x)     == \E i \in DOMAIN w : w[i] = x /\ \A j \in DOMAIN w : w[j] = x => j = i
Ordered(w, x, y) == \A i, j \in DOMAIN w : w[i] = x /\ w[j] = y => i < j

(* Two words one after the other.                                          *)
LEMMA JoinedIs ==
  ASSUME NEW u \in Words, NEW v \in Words
  PROVE  /\ u \o v \in Words /\ Len(u) \in Nat /\ Len(v) \in Nat
         /\ DOMAIN u = 1 .. Len(u) /\ DOMAIN v = 1 .. Len(v)
         /\ DOMAIN (u \o v) = 1 .. (Len(u) + Len(v))
         /\ \A i \in 1 .. Len(u) : (u \o v)[i] = u[i]
         /\ \A j \in 1 .. Len(v) : (u \o v)[Len(u) + j] = v[j]
         /\ \A i \in DOMAIN (u \o v) :
              i \in 1 .. Len(u) \/ \E j \in 1 .. Len(v) : i = Len(u) + j
<1>1. /\ u \o v \in Words /\ Len(u) \in Nat /\ Len(v) \in Nat
      /\ DOMAIN u = 1 .. Len(u) /\ DOMAIN v = 1 .. Len(v)
      /\ DOMAIN (u \o v) = 1 .. (Len(u) + Len(v))
      /\ \A i \in 1 .. Len(u) : (u \o v)[i] = u[i]
  BY DEF Words
<1>2. \A j \in 1 .. Len(v) : (u \o v)[Len(u) + j] = v[j]
  BY DEF Words
<1>3. ASSUME NEW i \in 1 .. (Len(u) + Len(v)), i \notin 1 .. Len(u)
      PROVE  \E j \in 1 .. Len(v) : i = Len(u) + j
  <2>1. i - Len(u) \in 1 .. Len(v) /\ i = Len(u) + (i - Len(u))
    BY <1>1, <1>3
  <2>2. QED BY <2>1
<1>4. QED BY <1>1, <1>2, <1>3

(* What they hold, once or in an order.                                    *)
LEMMA JoinedHolds ==
  ASSUME NEW u \in Words, NEW v \in Words, NEW x
  PROVE  Holds(u \o v, x) <=> Holds(u, x) \/ Holds(v, x)
<1> DEFINE w == u \o v
<1>1. /\ Len(u) \in Nat /\ Len(v) \in Nat
      /\ DOMAIN u = 1 .. Len(u) /\ DOMAIN v = 1 .. Len(v)
      /\ DOMAIN w = 1 .. (Len(u) + Len(v))
      /\ \A i \in 1 .. Len(u) : w[i] = u[i]
      /\ \A j \in 1 .. Len(v) : w[Len(u) + j] = v[j]
      /\ \A i \in DOMAIN w : i \in 1 .. Len(u) \/ \E j \in 1 .. Len(v) : i = Len(u) + j
  BY JoinedIs
<1> HIDE DEF w
<1>2. ASSUME Holds(u, x) PROVE Holds(w, x)
  BY <1>1, <1>2 DEF Holds
<1>3. ASSUME Holds(v, x) PROVE Holds(w, x)
  <2>1. PICK j \in 1 .. Len(v) : v[j] = x
    BY <1>1, <1>3 DEF Holds
  <2>2. Len(u) + j \in DOMAIN w /\ w[Len(u) + j] = x
    BY <1>1, <2>1
  <2>3. QED BY <2>2 DEF Holds
<1>4. ASSUME Holds(w, x) PROVE Holds(u, x) \/ Holds(v, x)
  <2>1. PICK i \in DOMAIN w : w[i] = x
    BY <1>4 DEF Holds
  <2>2. CASE i \in 1 .. Len(u)
    BY <1>1, <2>1, <2>2 DEF Holds
  <2>3. CASE \E j \in 1 .. Len(v) : i = Len(u) + j
    BY <1>1, <2>1, <2>3 DEF Holds
  <2>4. QED BY <1>1, <2>2, <2>3
<1>5. QED BY <1>2, <1>3, <1>4 DEF w

(* What one of two words holds once and the other does not, both together  *)
(* hold once.                                                              *)
LEMMA JoinedOnce ==
  ASSUME NEW u \in Words, NEW v \in Words, NEW x,
         \/ OnceIn(u, x) /\ ~Holds(v, x)
         \/ OnceIn(v, x) /\ ~Holds(u, x)
  PROVE  OnceIn(u \o v, x)
<1> DEFINE w == u \o v
<1>1. /\ Len(u) \in Nat /\ Len(v) \in Nat
      /\ DOMAIN u = 1 .. Len(u) /\ DOMAIN v = 1 .. Len(v)
      /\ DOMAIN w = 1 .. (Len(u) + Len(v))
      /\ \A i \in 1 .. Len(u) : w[i] = u[i]
      /\ \A j \in 1 .. Len(v) : w[Len(u) + j] = v[j]
      /\ \A i \in DOMAIN w : i \in 1 .. Len(u) \/ \E j \in 1 .. Len(v) : i = Len(u) + j
  BY JoinedIs
<1> HIDE DEF w
<1>2. CASE OnceIn(u, x) /\ ~Holds(v, x)
  <2>1. PICK i \in 1 .. Len(u) : u[i] = x /\ \A j \in 1 .. Len(u) : u[j] = x => j = i
    BY <1>1, <1>2 DEF OnceIn
  <2>2. i \in DOMAIN w /\ w[i] = x
    BY <1>1, <2>1
  <2>3. ASSUME NEW j \in DOMAIN w, w[j] = x PROVE j = i
    <3>1. CASE j \in 1 .. Len(u)
      BY <1>1, <2>1, <2>3, <3>1
    <3>2. ASSUME NEW k \in 1 .. Len(v), j = Len(u) + k PROVE FALSE
      BY <1>1, <1>2, <2>3, <3>2 DEF Holds
    <3>3. QED BY <1>1, <3>1, <3>2
  <2>4. \A j \in DOMAIN w : w[j] = x => j = i
    BY <2>3
  <2>5. OnceIn(w, x)
    BY <2>2, <2>4, ZenonT(20) DEF OnceIn
  <2>6. QED BY <2>5 DEF w
<1>3. CASE OnceIn(v, x) /\ ~Holds(u, x)
  <2>1. PICK i \in 1 .. Len(v) : v[i] = x /\ \A j \in 1 .. Len(v) : v[j] = x => j = i
    BY <1>1, <1>3 DEF OnceIn
  <2>2. Len(u) + i \in DOMAIN w /\ w[Len(u) + i] = x
    BY <1>1, <2>1
  <2>3. ASSUME NEW j \in DOMAIN w, w[j] = x PROVE j = Len(u) + i
    <3>1. CASE j \in 1 .. Len(u)
      BY <1>1, <1>3, <2>3, <3>1 DEF Holds
    <3>2. ASSUME NEW k \in 1 .. Len(v), j = Len(u) + k PROVE k = i
      BY <1>1, <2>1, <2>3, <3>2
    <3>3. QED BY <1>1, <3>1, <3>2
  <2>4. \A j \in DOMAIN w : w[j] = x => j = Len(u) + i
    BY <2>3
  <2>5. OnceIn(w, x)
    BY <2>2, <2>4, ZenonT(20) DEF OnceIn
  <2>6. QED BY <2>5 DEF w
<1>4. QED BY <1>2, <1>3 DEF w

(* What is in order in each of two words is so in both together, unless    *)
(* the second holds the former call and the first the latter.              *)
LEMMA JoinedOrdered ==
  ASSUME NEW u \in Words, NEW v \in Words, NEW x, NEW y,
         Ordered(u, x, y), Ordered(v, x, y), ~Holds(u, y) \/ ~Holds(v, x)
  PROVE  Ordered(u \o v, x, y)
<1> DEFINE w == u \o v
<1>1. /\ Len(u) \in Nat /\ Len(v) \in Nat
      /\ DOMAIN u = 1 .. Len(u) /\ DOMAIN v = 1 .. Len(v)
      /\ DOMAIN w = 1 .. (Len(u) + Len(v))
      /\ \A i \in 1 .. Len(u) : w[i] = u[i]
      /\ \A j \in 1 .. Len(v) : w[Len(u) + j] = v[j]
      /\ \A i \in DOMAIN w : i \in 1 .. Len(u) \/ \E j \in 1 .. Len(v) : i = Len(u) + j
  BY JoinedIs
<1> HIDE DEF w
<1>2. ASSUME NEW i \in DOMAIN w, NEW j \in DOMAIN w, w[i] = x, w[j] = y
      PROVE  i < j
  <2>1. CASE i \in 1 .. Len(u) /\ j \in 1 .. Len(u)
    BY <1>1, <1>2, <2>1 DEF Ordered
  <2>2. ASSUME i \in 1 .. Len(u), NEW k \in 1 .. Len(v), j = Len(u) + k PROVE i < j
    BY <1>1, <2>2
  <2>3. ASSUME j \in 1 .. Len(u), NEW k \in 1 .. Len(v), i = Len(u) + k PROVE FALSE
    BY <1>1, <1>2, <2>3 DEF Holds
  <2>4. ASSUME NEW k \in 1 .. Len(v), i = Len(u) + k, NEW l \in 1 .. Len(v), j = Len(u) + l
        PROVE  i < j
    <3>1. v[k] = x /\ v[l] = y
      BY <1>1, <1>2, <2>4
    <3>2. k < l
      BY <1>1, <3>1 DEF Ordered
    <3>3. QED BY <1>1, <2>4, <3>2
  <2>5. QED BY <1>1, <2>1, <2>2, <2>3, <2>4
<1>3. QED BY <1>2 DEF w, Ordered

(* Words one after the other: what FlattenSeq goes through.                *)
LEMMA FlattenPasses ==
  ASSUME NEW ss \in Seq(Words)
  PROVE  \E g \in [0 .. Len(ss) -> Words] :
           /\ g[0] = <<>> /\ \A k \in 1 .. Len(ss) : g[k] = g[k - 1] \o ss[k]
           /\ FlattenSeq(ss) = g[Len(ss)]
<1> DEFINE n == Len(ss)
           Steps(g, m) == g[0] = <<>> /\ \A k \in 1 .. m : g[k] = g[k - 1] \o ss[k]
           P == {m \in 0 .. n : \E g \in [0 .. m -> Words] : Steps(g, m)}
<1>1. n \in Nat /\ \A k \in 1 .. n : ss[k] \in Words
  OBVIOUS
<1>2. n \in P
  <2>1. 0 \in P
    <3> DEFINE h == [k \in 0 .. 0 |-> <<>>]
    <3>1. h \in [0 .. 0 -> Words]
      BY DEF Words
    <3>2. Steps(h, 0)
      OBVIOUS
    <3> HIDE DEF h, Steps
    <3>3. QED BY <1>1, <3>1, <3>2
  <2>2. ASSUME NEW j \in 0 .. (n - 1), j \in P PROVE j + 1 \in P
    <3>1. PICK g \in [0 .. j -> Words] : Steps(g, j)
      BY <2>2
    <3> DEFINE v == g[j] \o ss[j + 1]
               h == [k \in 0 .. (j + 1) |-> IF k = j + 1 THEN v ELSE g[k]]
    <3>2. j \in Nat /\ j + 1 \in 1 .. n
      BY <1>1
    <3>3. v \in Words
      BY <1>1, <3>2 DEF Words
    <3> HIDE DEF v
    <3>4. h \in [0 .. (j + 1) -> Words]
      BY <3>2, <3>3
    <3>5. h[0] = <<>>
      BY <3>1, <3>2
    <3>6. ASSUME NEW k \in 1 .. (j + 1) PROVE h[k] = h[k - 1] \o ss[k]
      <4>1. CASE k = j + 1
        <5>1. h[k] = v /\ h[k - 1] = g[j]
          BY <3>2, <4>1
        <5>2. QED BY <4>1, <5>1 DEF v
      <4>2. CASE k \in 1 .. j
        <5>1. k \in 0 .. (j + 1) /\ k - 1 \in 0 .. (j + 1) /\ k # j + 1 /\ k - 1 # j + 1
          BY <3>2, <4>2
        <5>2. h[k] = g[k] /\ h[k - 1] = g[k - 1]
          BY <5>1
        <5>3. g[k] = g[k - 1] \o ss[k]
          BY <3>1, <4>2
        <5>4. QED BY <5>2, <5>3
      <4>3. QED BY <3>2, <4>1, <4>2
    <3> HIDE DEF h
    <3>7. Steps(h, j + 1)
      BY <3>5, <3>6
    <3> HIDE DEF Steps
    <3>8. j + 1 \in 0 .. n
      BY <3>2
    <3>9. QED BY <3>4, <3>7, <3>8
  <2> HIDE DEF P
  <2>3. QED BY <1>1, <2>1, <2>2, LoopInduction
<1>3. PICK g \in [0 .. n -> Words] : Steps(g, n)
  BY <1>2
<1>4. FlattenSeq(ss) = g[n]
  <2>1. CASE n = 0
    <3>1. FlattenSeq(ss) = ss /\ ss = <<>>
      BY <2>1 DEF FlattenSeq
    <3>2. QED BY <1>3, <2>1, <3>1
  <2>2. CASE n # 0
    <3> DEFINE E(f, i) == IF i = 1 THEN ss[i] ELSE f[i - 1] \o ss[i]
               Solves(f) == f = [i \in 1 .. n |-> E(f, i)]
               flatten == CHOOSE f : Solves(f)
               f0 == [i \in 1 .. n |-> g[i]]
    <3>1. \A i \in 1 .. n : f0[i] = E(f0, i)
      <4>1. ASSUME NEW i \in 1 .. n, i = 1 PROVE f0[i] = E(f0, i)
        <5>1. g[1] = g[0] \o ss[1] /\ g[0] = <<>> /\ ss[1] \in Words
          BY <1>1, <1>3, <4>1
        <5>2. g[1] = ss[1]
          BY <5>1 DEF Words
        <5>3. QED BY <4>1, <5>2
      <4>2. ASSUME NEW i \in 1 .. n, i # 1 PROVE f0[i] = E(f0, i)
        <5>1. i - 1 \in 1 .. n /\ g[i] = g[i - 1] \o ss[i]
          BY <1>1, <1>3, <4>2
        <5>2. QED BY <4>2, <5>1
      <4>3. QED BY <4>1, <4>2
    <3>2. Solves(f0)
      <4> DEFINE R == [i \in 1 .. n |-> E(f0, i)]
      <4>1. f0 = R
        BY <3>1
      <4>2. QED BY <4>1
    <3>3. Solves(flatten)
      <4> HIDE DEF Solves
      <4>1. QED BY <3>2
    <3>4. FlattenSeq(ss) = flatten[n]
      BY <2>2 DEF FlattenSeq
    <3>5. \A i \in 1 .. n : flatten[i] = E(flatten, i)
      <4> HIDE DEF flatten
      <4>1. flatten = [i \in 1 .. n |-> E(flatten, i)]
        BY <3>3
      <4> HIDE DEF E
      <4>2. QED BY <4>1
    <3> HIDE DEF flatten
    <3> DEFINE Q == {j \in 0 .. (n - 1) : flatten[j + 1] = g[j + 1]}
    <3>6. n - 1 \in Q
      <4>1. 0 \in Q
        <5>1. flatten[1] = ss[1]
          BY <1>1, <2>2, <3>5
        <5>2. g[1] = g[0] \o ss[1] /\ g[0] = <<>> /\ ss[1] \in Words
          BY <1>1, <1>3, <2>2
        <5>3. g[1] = ss[1]
          BY <5>2 DEF Words
        <5>4. QED BY <1>1, <2>2, <5>1, <5>3
      <4>2. ASSUME NEW j \in 0 .. ((n - 1) - 1), j \in Q PROVE j + 1 \in Q
        <5>1. j \in Nat /\ j + 2 \in 1 .. n /\ j + 2 # 1 /\ (j + 1) + 1 = j + 2 /\ (j + 2) - 1 = j + 1
              /\ j + 1 \in 0 .. (n - 1)
          BY <1>1
        <5>2. flatten[j + 2] = flatten[j + 1] \o ss[j + 2]
          BY <3>5, <5>1
        <5>3. g[j + 2] = g[j + 1] \o ss[j + 2]
          BY <1>3, <5>1
        <5>4. flatten[j + 1] = g[j + 1]
          BY <4>2
        <5>5. QED BY <5>1, <5>2, <5>3, <5>4
      <4>3. n - 1 \in Nat
        BY <1>1, <2>2
      <4> HIDE DEF Q
      <4>4. QED BY <4>1, <4>2, <4>3, LoopInduction
    <3>7. (n - 1) + 1 = n
      BY <1>1
    <3>8. QED BY <3>4, <3>6, <3>7
  <2>3. QED BY <2>1, <2>2
<1>5. QED BY <1>3, <1>4

(* A property of the words so far, one word after the other.               *)
LEMMA FlattenHolds ==
  ASSUME NEW ss \in Seq(Words), NEW x
  PROVE  /\ FlattenSeq(ss) \in Words
         /\ Holds(FlattenSeq(ss), x) <=> \E k \in 1 .. Len(ss) : Holds(ss[k], x)
<1> DEFINE n == Len(ss)
<1>1. n \in Nat /\ \A k \in 1 .. n : ss[k] \in Words
  OBVIOUS
<1>2. PICK g \in [0 .. n -> Words] :
        /\ g[0] = <<>> /\ \A k \in 1 .. n : g[k] = g[k - 1] \o ss[k]
        /\ FlattenSeq(ss) = g[n]
  BY FlattenPasses
<1> DEFINE P == {m \in 0 .. n : Holds(g[m], x) <=> \E k \in 1 .. m : Holds(ss[k], x)}
<1> HIDE DEF n
<1>3. 0 \in P
  <2>1. ~Holds(<<>>, x)
    BY DEF Holds
  <2>2. QED BY <1>1, <1>2, <2>1
<1>4. ASSUME NEW j \in 0 .. (n - 1), j \in P PROVE j + 1 \in P
  <2>1. j \in Nat /\ j + 1 \in 1 .. n /\ j \in 0 .. n /\ (j + 1) - 1 = j
    BY <1>1
  <2>2. g[j + 1] = g[j] \o ss[j + 1] /\ g[j] \in Words /\ ss[j + 1] \in Words
    BY <1>1, <1>2, <2>1
  <2>3. Holds(g[j + 1], x) <=> Holds(g[j], x) \/ Holds(ss[j + 1], x)
    BY <2>2, JoinedHolds
  <2>4. \A k \in 1 .. (j + 1) : k \in 1 .. j \/ k = j + 1
    BY <2>1
  <2>5. Holds(g[j], x) <=> \E k \in 1 .. j : Holds(ss[k], x)
    BY <1>4
  <2>6. Holds(g[j + 1], x) <=> \E k \in 1 .. (j + 1) : Holds(ss[k], x)
    BY <2>1, <2>3, <2>4, <2>5
  <2>7. QED BY <2>1, <2>6
<1>5. n \in P
  <2> HIDE DEF P
  <2>1. QED BY <1>1, <1>3, <1>4, LoopInduction
<1>6. QED BY <1>1, <1>2, <1>5 DEF n

(* What one word of a sequence holds once and no other does, the joined    *)
(* word holds once.                                                        *)
LEMMA FlattenOnce ==
  ASSUME NEW ss \in Seq(Words), NEW x, NEW l \in 1 .. Len(ss), OnceIn(ss[l], x),
         \A k \in 1 .. Len(ss) : k # l => ~Holds(ss[k], x)
  PROVE  OnceIn(FlattenSeq(ss), x)
<1> DEFINE n == Len(ss)
<1>1. n \in Nat /\ \A k \in 1 .. n : ss[k] \in Words
  OBVIOUS
<1>2. PICK g \in [0 .. n -> Words] :
        /\ g[0] = <<>> /\ \A k \in 1 .. n : g[k] = g[k - 1] \o ss[k]
        /\ FlattenSeq(ss) = g[n]
  BY FlattenPasses
<1> DEFINE P == {m \in 0 .. n : IF m < l THEN ~Holds(g[m], x) ELSE OnceIn(g[m], x)}
<1>0. l \in 1 .. n
  OBVIOUS
<1> HIDE DEF n
<1>3. 0 \in P
  <2>1. ~Holds(<<>>, x)
    BY DEF Holds
  <2>2. QED BY <1>0, <1>1, <1>2, <2>1
<1>4. ASSUME NEW j \in 0 .. (n - 1), j \in P PROVE j + 1 \in P
  <2>1. j \in Nat /\ j + 1 \in 1 .. n /\ j \in 0 .. n /\ j + 1 \in 0 .. n /\ (j + 1) - 1 = j
    BY <1>1
  <2>2. g[j + 1] = g[j] \o ss[j + 1] /\ g[j] \in Words /\ ss[j + 1] \in Words
    BY <1>1, <1>2, <2>1
  <2>3. CASE j + 1 < l
    <3>1. ~Holds(g[j], x) /\ ~Holds(ss[j + 1], x)
      BY <1>0, <1>1, <1>4, <2>1, <2>3 DEF n
    <3>2. ~Holds(g[j + 1], x)
      BY <2>2, <3>1, JoinedHolds
    <3>3. QED BY <2>1, <2>3, <3>2
  <2>4. CASE j + 1 = l
    <3>1. ~Holds(g[j], x) /\ OnceIn(ss[j + 1], x)
      BY <1>0, <1>4, <2>1, <2>4
    <3>2. OnceIn(g[j + 1], x)
      BY <2>2, <3>1, JoinedOnce
    <3>3. QED BY <1>0, <2>1, <2>4, <3>2
  <2>5. CASE j + 1 > l
    <3>1. OnceIn(g[j], x) /\ ~Holds(ss[j + 1], x)
      BY <1>0, <1>1, <1>4, <2>1, <2>5 DEF n
    <3>2. OnceIn(g[j + 1], x)
      BY <2>2, <3>1, JoinedOnce
    <3>3. QED BY <1>0, <2>1, <2>5, <3>2
  <2>6. QED BY <1>0, <2>1, <2>3, <2>4, <2>5
<1>5. n \in P
  <2> HIDE DEF P
  <2>1. QED BY <1>1, <1>3, <1>4, LoopInduction
<1>6. QED BY <1>0, <1>1, <1>2, <1>5

(* What is in order in each word, and across two words, is so in the       *)
(* joined word.                                                            *)
LEMMA FlattenOrdered ==
  ASSUME NEW ss \in Seq(Words), NEW x, NEW y,
         \A k \in 1 .. Len(ss) : Ordered(ss[k], x, y),
         \A k, l \in 1 .. Len(ss) : k < l => ~(Holds(ss[k], y) /\ Holds(ss[l], x))
  PROVE  Ordered(FlattenSeq(ss), x, y)
<1> DEFINE n == Len(ss)
<1>1. n \in Nat /\ \A k \in 1 .. n : ss[k] \in Words
  OBVIOUS
<1>2. PICK g \in [0 .. n -> Words] :
        /\ g[0] = <<>> /\ \A k \in 1 .. n : g[k] = g[k - 1] \o ss[k]
        /\ FlattenSeq(ss) = g[n]
  BY FlattenPasses
<1> DEFINE P == {m \in 0 .. n :
                   /\ Ordered(g[m], x, y)
                   /\ Holds(g[m], y) => \E k \in 1 .. m : Holds(ss[k], y)}
<1>3. 0 \in P
  <2>1. ~Holds(<<>>, y) /\ Ordered(<<>>, x, y)
    BY DEF Holds, Ordered
  <2>2. QED BY <1>1, <1>2, <2>1
<1>4. ASSUME NEW j \in 0 .. (n - 1), j \in P PROVE j + 1 \in P
  <2>1. j \in Nat /\ j + 1 \in 1 .. n /\ j \in 0 .. n /\ j + 1 \in 0 .. n /\ (j + 1) - 1 = j
    BY <1>1
  <2>2. g[j + 1] = g[j] \o ss[j + 1] /\ g[j] \in Words /\ ss[j + 1] \in Words
    BY <1>1, <1>2, <2>1
  <2>3. Ordered(g[j], x, y) /\ (Holds(g[j], y) => \E k \in 1 .. j : Holds(ss[k], y))
    BY <1>4
  <2>4. Ordered(ss[j + 1], x, y)
    BY <2>1
  <2>5. ~Holds(g[j], y) \/ ~Holds(ss[j + 1], x)
    <3>1. SUFFICES ASSUME Holds(g[j], y), Holds(ss[j + 1], x) PROVE FALSE
      OBVIOUS
    <3>2. PICK k \in 1 .. j : Holds(ss[k], y)
      BY <2>3, <3>1
    <3>3. k \in 1 .. n /\ k < j + 1
      BY <1>1, <2>1
    <3>4. QED BY <2>1, <3>1, <3>2, <3>3
  <2>6. Ordered(g[j + 1], x, y)
    BY <2>2, <2>3, <2>4, <2>5, JoinedOrdered
  <2>7. ASSUME Holds(g[j + 1], y) PROVE \E k \in 1 .. (j + 1) : Holds(ss[k], y)
    <3>1. Holds(g[j], y) \/ Holds(ss[j + 1], y)
      BY <2>2, <2>7, JoinedHolds
    <3>2. j + 1 \in 1 .. (j + 1) /\ \A k \in 1 .. j : k \in 1 .. (j + 1)
      BY <2>1
    <3>3. QED BY <2>3, <3>1, <3>2
  <2>8. QED BY <2>1, <2>6, <2>7
<1>5. n \in P
  <2> HIDE DEF P, n
  <2>1. QED BY <1>1, <1>3, <1>4, LoopInduction
<1>6. QED BY <1>2, <1>5

(* One call.                                                               *)
LEMMA SingleIs ==
  ASSUME NEW x \in Calls
  PROVE  /\ <<x>> \in Words /\ Len(<<x>>) = 1 /\ <<x>>[1] = x /\ OnceIn(<<x>>, x)
         /\ \A y : Holds(<<x>>, y) => y = x
         /\ \A y, z : y # z => Ordered(<<x>>, y, z)
<1>1. <<x>> \in Words /\ DOMAIN <<x>> = 1 .. 1 /\ <<x>>[1] = x /\ Len(<<x>>) = 1
  BY DEF Words
<1>2. \A i \in DOMAIN <<x>> : i = 1
  BY <1>1
<1>3. 1 \in DOMAIN <<x>>
  BY <1>1
<1>4. QED BY <1>1, <1>2, <1>3 DEF Holds, OnceIn, Ordered

(* The same hooks on one device after the other.                           *)
Distinct(hooks) == hooks \in Seq(Hooks) /\ \A i, j \in DOMAIN hooks : hooks[i] = hooks[j] => i = j

(* Hooks called on all devices: each hook of each device once, one device  *)
(* after the other and the hooks of a device in the order given.           *)
LEMMA ForAllIs ==
  ASSUME NEW hooks, Distinct(hooks)
  PROVE  /\ ForAll(hooks) \in Words
         /\ \A x : Holds(ForAll(hooks), x) => \E d \in Devices, i \in DOMAIN hooks : x = <<d, hooks[i]>>
         /\ \A d \in Devices, i \in DOMAIN hooks : OnceIn(ForAll(hooks), <<d, hooks[i]>>)
         /\ \A d, e \in Devices, i, j \in DOMAIN hooks :
              d < e \/ (d = e /\ i < j) =>
                Ordered(ForAll(hooks), <<d, hooks[i]>>, <<e, hooks[j]>>)
<1> DEFINE Block(d) == [i \in DOMAIN hooks |-> <<d, hooks[i]>>]
           ss == [d \in Devices |-> Block(d)]
<1>1. N \in Nat /\ Devices = 1 .. N
  BY DeviceStartAssumption DEF Devices
<1>2. hooks \in Seq(Hooks) /\ DOMAIN hooks = 1 .. Len(hooks) /\ Len(hooks) \in Nat
      /\ \A i, j \in DOMAIN hooks : hooks[i] = hooks[j] => i = j
  BY DEF Distinct
<1>3. ASSUME NEW d \in Devices
      PROVE  Block(d) \in Words /\ DOMAIN Block(d) = DOMAIN hooks
  <2>1. \A i \in DOMAIN hooks : <<d, hooks[i]>> \in Calls
    BY <1>1, <1>2 DEF Calls, Callbacks
  <2>2. QED BY <1>2, <2>1 DEF Words
<1>4. ss \in Seq(Words) /\ Len(ss) = N /\ \A d \in Devices : ss[d] = Block(d)
  BY <1>1, <1>3
<1>5. ForAll(hooks) = FlattenSeq(ss)
  BY DEF ForAll
<1>6. ASSUME NEW d \in Devices, NEW x, Holds(ss[d], x)
      PROVE  \E i \in DOMAIN hooks : x = <<d, hooks[i]>>
  BY <1>4, <1>6 DEF Holds
<1>7. ASSUME NEW d \in Devices, NEW i \in DOMAIN hooks PROVE OnceIn(ss[d], <<d, hooks[i]>>)
  <2>1. DOMAIN ss[d] = DOMAIN hooks /\ \A j \in DOMAIN hooks : ss[d][j] = <<d, hooks[j]>>
    BY <1>4
  <2>2. \A j \in DOMAIN ss[d] : ss[d][j] = <<d, hooks[i]>> => j = i
    BY <1>2, <2>1
  <2>3. QED BY <2>1, <2>2 DEF OnceIn
<1>8. ASSUME NEW k \in Devices, NEW d \in Devices, NEW e \in Devices,
             NEW i \in DOMAIN hooks, NEW j \in DOMAIN hooks, d < e \/ (d = e /\ i < j)
      PROVE  Ordered(ss[k], <<d, hooks[i]>>, <<e, hooks[j]>>)
  <2>1. DOMAIN ss[k] = DOMAIN hooks /\ \A l \in DOMAIN hooks : ss[k][l] = <<k, hooks[l]>>
    BY <1>4
  <2>2. ASSUME NEW a \in DOMAIN ss[k], NEW b \in DOMAIN ss[k],
               ss[k][a] = <<d, hooks[i]>>, ss[k][b] = <<e, hooks[j]>>
        PROVE  a < b
    <3>1. k = d /\ k = e /\ hooks[a] = hooks[i] /\ hooks[b] = hooks[j]
      BY <2>1, <2>2
    <3>2. a = i /\ b = j
      BY <1>2, <2>1, <3>1
    <3>3. QED BY <1>1, <1>8, <3>1, <3>2
  <2>3. QED BY <2>2 DEF Ordered
<1> HIDE DEF ss
<1>9. ForAll(hooks) \in Words
  BY <1>4, <1>5, FlattenHolds
<1>10. ASSUME NEW x, Holds(ForAll(hooks), x)
       PROVE  \E d \in Devices, i \in DOMAIN hooks : x = <<d, hooks[i]>>
  <2>1. PICK d \in 1 .. Len(ss) : Holds(ss[d], x)
    BY <1>4, <1>5, <1>10, FlattenHolds
  <2>2. d \in Devices
    BY <1>1, <1>4
  <2>3. QED BY <1>6, <2>1, <2>2
<1>11. ASSUME NEW d \in Devices, NEW i \in DOMAIN hooks
       PROVE  OnceIn(ForAll(hooks), <<d, hooks[i]>>)
  <2>1. d \in 1 .. Len(ss) /\ OnceIn(ss[d], <<d, hooks[i]>>)
    BY <1>1, <1>4, <1>7
  <2>2. ASSUME NEW k \in 1 .. Len(ss), k # d, Holds(ss[k], <<d, hooks[i]>>) PROVE FALSE
    <3>1. k \in Devices
      BY <1>1, <1>4
    <3>2. PICK j \in DOMAIN hooks : <<d, hooks[i]>> = <<k, hooks[j]>>
      BY <1>6, <2>2, <3>1
    <3>3. QED BY <2>2, <3>2
  <2>3. QED BY <1>4, <1>5, <2>1, <2>2, FlattenOnce
<1>12. ASSUME NEW d \in Devices, NEW e \in Devices,
              NEW i \in DOMAIN hooks, NEW j \in DOMAIN hooks, d < e \/ (d = e /\ i < j)
       PROVE  Ordered(ForAll(hooks), <<d, hooks[i]>>, <<e, hooks[j]>>)
  <2>1. \A k \in 1 .. Len(ss) : Ordered(ss[k], <<d, hooks[i]>>, <<e, hooks[j]>>)
    BY <1>1, <1>4, <1>8, <1>12
  <2>2. ASSUME NEW k \in 1 .. Len(ss), NEW l \in 1 .. Len(ss), k < l,
               Holds(ss[k], <<e, hooks[j]>>), Holds(ss[l], <<d, hooks[i]>>)
        PROVE  FALSE
    <3>1. k \in Devices /\ l \in Devices
      BY <1>1, <1>4
    <3>2. k = e
      BY <1>6, <2>2, <3>1
    <3>3. l = d
      BY <1>6, <2>2, <3>1
    <3>4. QED BY <1>1, <1>12, <2>2, <3>2, <3>3
  <2>3. QED BY <1>4, <1>5, <2>1, <2>2, FlattenOrdered
<1>13. QED BY <1>9, <1>10, <1>11, <1>12

(* Callbacks, among them the one for all devices, at position p.           *)
OneForAll(list, p) ==
  /\ list \in Lists /\ p \in DOMAIN list /\ list[p] = AllDevices
  /\ \A i \in DOMAIN list : i # p => list[i] # AllDevices

NoneOwn(all) == all \in Words /\ \A i \in DOMAIN all : all[i][2] # "own"

(* A list of callbacks with the machine's at place p, where the machine    *)
(* calls the hooks of all: these stay once and in order, before the        *)
(* devices' own callbacks when p is the first place and after them when it *)
(* is the last.                                                            *)
LEMMA CallEachIs ==
  ASSUME NEW list, NEW p, NEW all, OneForAll(list, p), NoneOwn(all)
  PROVE  /\ CallEach(list, all) \in Words
         /\ \A x : Holds(CallEach(list, all), x) =>
              Holds(all, x) \/ \E i \in DOMAIN list : i # p /\ x = <<list[i], "own">>
         /\ \A x : OnceIn(all, x) => OnceIn(CallEach(list, all), x)
         /\ \A x, y : Ordered(all, x, y) /\ Holds(all, x) /\ Holds(all, y) =>
              Ordered(CallEach(list, all), x, y)
         /\ p = 1 => \A x, d : Holds(all, x) => Ordered(CallEach(list, all), x, <<d, "own">>)
         /\ p = Len(list) =>
              \A x, d : Holds(all, x) => Ordered(CallEach(list, all), <<d, "own">>, x)
         /\ \A i \in DOMAIN list : i # p /\ (\A j \in DOMAIN list : list[j] = list[i] => j = i) =>
              /\ OnceIn(CallEach(list, all), <<list[i], "own">>)
              /\ i = 1 => \A d : d # list[i] =>
                   Ordered(CallEach(list, all), <<list[i], "own">>, <<d, "own">>)
<1> DEFINE Block(i) == IF list[i] = AllDevices THEN all ELSE << <<list[i], "own">> >>
           ss == [i \in DOMAIN list |-> Block(i)]
           n  == Len(list)
           w  == FlattenSeq(ss)
<1>1. /\ n \in Nat /\ DOMAIN list = 1 .. n /\ p \in 1 .. n /\ list[p] = AllDevices
      /\ \A i \in 1 .. n : i # p => list[i] # AllDevices
      /\ \A i \in 1 .. n : list[i] \in Callbacks
  <2>1. list \in Lists /\ p \in DOMAIN list /\ list[p] = AllDevices
        /\ \A i \in DOMAIN list : i # p => list[i] # AllDevices
    BY DEF OneForAll
  <2>2. Len(list) \in Nat /\ DOMAIN list = 1 .. Len(list)
        /\ \A i \in 1 .. Len(list) : list[i] \in Callbacks
    BY <2>1, Elements DEF Lists
  <2>3. QED BY <2>1, <2>2
<1> HIDE DEF n
<1>2. all \in Words /\ \A x : Holds(all, x) => x[2] # "own"
  BY DEF NoneOwn, Holds
<1>3. ASSUME NEW i \in 1 .. n PROVE <<list[i], "own">> \in Calls
  <2>1. list[i] \in Callbacks
    BY <1>1
  <2>2. QED BY <2>1, OwnIsCall
<1>4. ASSUME NEW i \in 1 .. n PROVE Block(i) \in Words
  BY <1>1, <1>2, <1>3, SingleIs
<1>5. ss \in Seq(Words) /\ Len(ss) = n /\ \A i \in 1 .. n : ss[i] = Block(i)
  <2>1. DOMAIN ss = 1 .. n /\ \A i \in 1 .. n : ss[i] = Block(i)
    BY <1>1
  <2>2. \A i \in 1 .. n : ss[i] \in Words
    BY <1>4, <2>1
  <2>3. ss = [i \in 1 .. n |-> ss[i]]
    BY <1>1
  <2> HIDE DEF ss
  <2>4. ss \in [1 .. n -> Words]
    BY <2>2, <2>3
  <2>5. ss \in Seq(Words) /\ Len(ss) = n
    BY <1>1, <2>4
  <2>6. QED BY <2>1, <2>5
<1>6. CallEach(list, all) = w
  BY DEF CallEach
<1>7. ss[p] = all /\ \A i \in 1 .. n : i # p => ss[i] = << <<list[i], "own">> >>
  BY <1>1, <1>5
<1> HIDE DEF ss
<1>8. \A i \in 1 .. n : i # p => \A x : Holds(ss[i], x) => x = <<list[i], "own">>
  BY <1>3, <1>7, SingleIs
<1>9. w \in Words
  BY <1>5, FlattenHolds
<1>10. ASSUME NEW x, Holds(w, x)
       PROVE  Holds(all, x) \/ \E i \in DOMAIN list : i # p /\ x = <<list[i], "own">>
  <2>1. PICK i \in 1 .. n : Holds(ss[i], x)
    BY <1>5, <1>10, FlattenHolds
  <2>2. QED BY <1>1, <1>7, <1>8, <2>1
<1>11. ASSUME NEW x, OnceIn(all, x) PROVE OnceIn(w, x)
  <2>1. Holds(all, x)
    BY <1>11 DEF OnceIn, Holds
  <2>2. \A k \in 1 .. n : k # p => ~Holds(ss[k], x)
    BY <1>2, <1>8, <2>1
  <2>3. QED BY <1>1, <1>5, <1>7, <1>11, <2>2, FlattenOnce
<1>12. ASSUME NEW x, NEW y, Ordered(all, x, y), Holds(all, x), Holds(all, y) PROVE Ordered(w, x, y)
  <2>1. \A k \in 1 .. n : k # p => ~Holds(ss[k], x) /\ ~Holds(ss[k], y)
    BY <1>2, <1>8, <1>12
  <2>2. \A k \in 1 .. n : Ordered(ss[k], x, y)
    BY <1>7, <1>12, <2>1 DEF Ordered, Holds
  <2>3. \A k, l \in 1 .. n : k < l => ~(Holds(ss[k], y) /\ Holds(ss[l], x))
    BY <1>1, <2>1
  <2>4. QED BY <1>5, <2>2, <2>3, FlattenOrdered
<1>13. ASSUME NEW x, NEW d, Holds(all, x)
       PROVE  /\ \A k \in 1 .. n : /\ Holds(ss[k], x) => k = p
                                   /\ Holds(ss[k], <<d, "own">>) => k # p
                                   /\ Ordered(ss[k], x, <<d, "own">>)
                                   /\ Ordered(ss[k], <<d, "own">>, x)
  <2>1. \A k \in 1 .. n : Holds(ss[k], x) => k = p
    BY <1>2, <1>8, <1>13
  <2>2. \A k \in 1 .. n : Holds(ss[k], <<d, "own">>) => k # p
    BY <1>2, <1>7
  <2>3. QED BY <2>1, <2>2 DEF Ordered, Holds
<1>14. ASSUME p = 1, NEW x, NEW d, Holds(all, x) PROVE Ordered(w, x, <<d, "own">>)
  <2> DEFINE y == <<d, "own">>
  <2>1. \A k \in 1 .. n : Ordered(ss[k], x, y)
    BY <1>13, <1>14
  <2>2. \A k, l \in 1 .. n : k < l => ~(Holds(ss[k], y) /\ Holds(ss[l], x))
    BY <1>13, <1>14
  <2> HIDE DEF y
  <2>3. Ordered(w, x, y)
    BY <1>5, <2>1, <2>2, FlattenOrdered
  <2>4. QED BY <2>3 DEF y
<1>15. ASSUME p = n, NEW x, NEW d, Holds(all, x) PROVE Ordered(w, <<d, "own">>, x)
  <2> DEFINE y == <<d, "own">>
  <2>1. \A k \in 1 .. n : Ordered(ss[k], y, x)
    BY <1>13, <1>15
  <2>2. \A k, l \in 1 .. n : k < l => ~(Holds(ss[k], x) /\ Holds(ss[l], y))
    <3>1. \A k, l \in 1 .. n : Holds(ss[k], x) => k = n
      BY <1>13, <1>15
    <3>2. \A k, l \in 1 .. n : k < l => k # n
      BY <1>1
    <3>3. QED BY <3>1, <3>2
  <2> HIDE DEF y
  <2>3. Ordered(w, y, x)
    BY <1>5, <2>1, <2>2, FlattenOrdered
  <2>4. QED BY <2>3 DEF y
<1>16. ASSUME NEW i \in DOMAIN list, i # p, \A j \in DOMAIN list : list[j] = list[i] => j = i
       PROVE  /\ OnceIn(w, <<list[i], "own">>)
              /\ i = 1 => \A d : d # list[i] => Ordered(w, <<list[i], "own">>, <<d, "own">>)
  <2> DEFINE x == <<list[i], "own">>
  <2>1. i \in 1 .. n /\ OnceIn(ss[i], x)
    BY <1>1, <1>3, <1>7, <1>16, SingleIs
  <2>2. ASSUME NEW k \in 1 .. n, k # i PROVE ~Holds(ss[k], x)
    <3>1. CASE k = p
      BY <1>2, <1>7, <3>1
    <3>2. CASE k # p
      <4>1. SUFFICES ASSUME Holds(ss[k], x) PROVE FALSE
        OBVIOUS
      <4>2. x = <<list[k], "own">>
        BY <1>8, <3>2, <4>1
      <4>3. list[k] = list[i]
        BY <4>2
      <4>4. QED BY <1>1, <1>16, <2>2, <4>3
    <3>3. QED BY <3>1, <3>2
  <2>3. OnceIn(w, x)
    <3> HIDE DEF x
    <3>1. QED BY <1>5, <2>1, <2>2, FlattenOnce
  <2>4. ASSUME i = 1, NEW d, d # list[i] PROVE Ordered(w, x, <<d, "own">>)
    <3> DEFINE y == <<d, "own">>
    <3>1. \A k \in 1 .. n : Holds(ss[k], x) => k = 1
      BY <2>2, <2>4
    <3>2. ~Holds(ss[1], y)
      <4>1. ss[1] = <<x>> /\ x \in Calls /\ y # x
        BY <1>3, <1>7, <1>16, <2>1, <2>4
      <4>2. QED BY <4>1, SingleIs
    <3> HIDE DEF x, y
    <3>3. \A k \in 1 .. n : Ordered(ss[k], x, y)
      BY <3>1, <3>2 DEF Ordered, Holds
    <3>4. \A k, l \in 1 .. n : k < l => ~(Holds(ss[k], y) /\ Holds(ss[l], x))
      BY <3>1
    <3>5. Ordered(w, x, y)
      BY <1>5, <3>3, <3>4, FlattenOrdered
    <3>6. QED BY <3>5 DEF y
  <2>5. QED BY <2>3, <2>4
<1> HIDE DEF w
<1>17. QED BY <1>6, <1>9, <1>10, <1>11, <1>12, <1>14, <1>15, <1>16 DEF n

(* When all devices come last, the callbacks before are one call each.     *)
LEMMA CallEachEnds ==
  ASSUME NEW list, NEW all, OneForAll(list, Len(list)), NoneOwn(all)
  PROVE  /\ \A i \in 1 .. (Len(list) - 1) : CallEach(list, all)[i] = <<list[i], "own">>
         /\ \A i \in DOMAIN CallEach(list, all) :
              CallEach(list, all)[i][2] = "own" => i < Len(list)
<1> DEFINE Block(i) == IF list[i] = AllDevices THEN all ELSE << <<list[i], "own">> >>
           ss == [i \in DOMAIN list |-> Block(i)]
           n  == Len(list)
<1>1. /\ n \in Nat /\ DOMAIN list = 1 .. n /\ n \in 1 .. n /\ list[n] = AllDevices
      /\ \A i \in 1 .. n : i # n => list[i] # AllDevices
      /\ \A i \in 1 .. n : list[i] \in Callbacks
  <2>1. list \in Lists /\ n \in DOMAIN list /\ list[n] = AllDevices
        /\ \A i \in DOMAIN list : i # n => list[i] # AllDevices
    BY DEF OneForAll
  <2>2. Len(list) \in Nat /\ DOMAIN list = 1 .. Len(list)
        /\ \A i \in 1 .. Len(list) : list[i] \in Callbacks
    BY <2>1, Elements DEF Lists
  <2>3. QED BY <2>1, <2>2
<1> HIDE DEF n
<1>2. all \in Words /\ \A i \in DOMAIN all : all[i][2] # "own"
  BY DEF NoneOwn
<1>3. ASSUME NEW i \in 1 .. n PROVE <<list[i], "own">> \in Calls
  <2>1. list[i] \in Callbacks
    BY <1>1
  <2>2. QED BY <2>1, OwnIsCall
<1>4. ASSUME NEW i \in 1 .. n PROVE Block(i) \in Words
  BY <1>1, <1>2, <1>3, SingleIs
<1>5. ss \in Seq(Words) /\ Len(ss) = n /\ \A i \in 1 .. n : ss[i] = Block(i)
  <2>1. DOMAIN ss = 1 .. n /\ \A i \in 1 .. n : ss[i] = Block(i)
    BY <1>1
  <2>2. \A i \in 1 .. n : ss[i] \in Words
    BY <1>4, <2>1
  <2>3. ss = [i \in 1 .. n |-> ss[i]]
    BY <1>1
  <2> HIDE DEF ss
  <2>4. ss \in [1 .. n -> Words]
    BY <2>2, <2>3
  <2>5. ss \in Seq(Words) /\ Len(ss) = n
    BY <1>1, <2>4
  <2>6. QED BY <2>1, <2>5
<1>6. CallEach(list, all) = FlattenSeq(ss)
  BY DEF CallEach
<1>7. ss[n] = all /\ \A i \in 1 .. n : i # n => ss[i] = << <<list[i], "own">> >>
  BY <1>1, <1>5
<1> HIDE DEF ss
<1>8. PICK g \in [0 .. n -> Words] :
        /\ g[0] = <<>> /\ \A k \in 1 .. n : g[k] = g[k - 1] \o ss[k]
        /\ FlattenSeq(ss) = g[n]
  BY <1>5, FlattenPasses
<1> DEFINE Good(k) == Len(g[k]) = k /\ \A i \in 1 .. k : g[k][i] = <<list[i], "own">>
           P == {k \in 0 .. (n - 1) : Good(k)}
<1>9. 0 \in P
  BY <1>1, <1>8
<1>10. ASSUME NEW j \in 0 .. ((n - 1) - 1), j \in P PROVE j + 1 \in P
  <2>1. j \in Nat /\ j + 1 \in 1 .. n /\ j + 1 # n /\ j \in 0 .. n /\ j + 1 \in 0 .. n
        /\ (j + 1) - 1 = j /\ j + 1 \in 0 .. (n - 1)
    BY <1>1
  <2> DEFINE x == <<list[j + 1], "own">>
  <2>2. g[j + 1] = g[j] \o <<x>> /\ g[j] \in Words /\ x \in Calls /\ g[j + 1] \in Words
    BY <1>3, <1>7, <1>8, <2>1
  <2>3. <<x>> \in Words /\ Len(<<x>>) = 1 /\ <<x>>[1] = x
    BY <2>2, SingleIs
  <2>4. Good(j)
    BY <1>10
  <2> DEFINE u == g[j]
             v == g[j] \o <<x>>
             y == <<x>>
  <2>5. u \in Words /\ y \in Words /\ v = u \o y /\ Len(u) = j /\ Len(y) = 1 /\ y[1] = x
    BY <2>2, <2>3, <2>4
  <2> HIDE DEF u, v, y
  <2>6. /\ \A i \in 1 .. Len(u) : v[i] = u[i]
        /\ \A i \in 1 .. Len(y) : v[Len(u) + i] = y[i]
        /\ DOMAIN v = 1 .. (Len(u) + Len(y))
    BY <2>5, JoinedIs
  <2>7. v = g[j + 1] /\ u = g[j]
    BY <2>2 DEF v, u
  <2>8. Len(g[j + 1]) = j + 1
    BY <2>1, <2>2, <2>5, <2>6, <2>7 DEF Words
  <2>9. g[j + 1][j + 1] = x
    BY <2>1, <2>5, <2>6, <2>7
  <2>10. \A i \in 1 .. j : g[j + 1][i] = <<list[i], "own">>
    BY <2>4, <2>5, <2>6, <2>7
  <2>11. Good(j + 1)
    <3>1. \A i \in 1 .. (j + 1) : i \in 1 .. j \/ i = j + 1
      BY <2>1
    <3>2. QED BY <2>8, <2>9, <2>10, <3>1
  <2> HIDE DEF Good
  <2>12. QED BY <2>1, <2>11
<1>11. Good(n - 1)
  <2>1. n - 1 \in Nat
    BY <1>1
  <2> HIDE DEF P
  <2>2. n - 1 \in P
    BY <1>9, <1>10, <2>1, LoopInduction
  <2>3. QED BY <2>2 DEF P
<1> DEFINE u == g[n - 1]
           w == g[n]
<1>12. u \in Words /\ w = u \o all /\ Len(u) = n - 1 /\ n - 1 \in Nat
       /\ \A i \in 1 .. (n - 1) : u[i] = <<list[i], "own">>
  <2>1. n - 1 \in Nat /\ n - 1 \in 0 .. n /\ n \in 1 .. n
    BY <1>1
  <2>2. u \in Words
    BY <1>8, <2>1
  <2>3. w = u \o all
    BY <1>7, <1>8, <2>1
  <2>4. Len(u) = n - 1 /\ \A i \in 1 .. (n - 1) : u[i] = <<list[i], "own">>
    BY <1>11
  <2>5. QED BY <2>1, <2>2, <2>3, <2>4
<1> HIDE DEF u, w
<1>13. /\ \A i \in 1 .. Len(u) : w[i] = u[i]
       /\ \A i \in 1 .. Len(all) : w[Len(u) + i] = all[i]
       /\ DOMAIN all = 1 .. Len(all)
       /\ \A i \in DOMAIN w : i \in 1 .. Len(u) \/ \E j \in 1 .. Len(all) : i = Len(u) + j
  BY <1>2, <1>12, JoinedIs
<1>14. \A i \in 1 .. (n - 1) : w[i] = <<list[i], "own">>
  BY <1>12, <1>13
<1>15. ASSUME NEW i \in DOMAIN w, w[i][2] = "own" PROVE i < n
  <2>1. CASE i \in 1 .. Len(u)
    BY <1>1, <1>12, <2>1
  <2>2. ASSUME NEW j \in 1 .. Len(all), i = Len(u) + j PROVE FALSE
    BY <1>2, <1>13, <1>15, <2>2
  <2>3. QED BY <1>13, <2>1, <2>2
<1>16. CallEach(list, all) = w
  BY <1>6, <1>8 DEF w
<1>17. QED BY <1>14, <1>15, <1>16 DEF n

---------------------------------------------------------------------------------
(* The hooks of a reset: those of a device before and after those of its   *)
(* subdevices.                                                             *)
ResetHooks ==
  {"interface_pre_reset", "device_reset", "device_reset_after_children", "interface_post_reset"}

Opening(d) == << <<d, "interface_pre_reset">>, <<d, "device_reset">> >>
Closing(d) == << <<d, "device_reset_after_children">>, <<d, "interface_post_reset">> >>

(* What a device is called before its subdevices are reset.                *)
LEMMA OpeningIs ==
  ASSUME NEW d \in Devices
  PROVE  /\ Opening(d) \in Words
         /\ \A x : Holds(Opening(d), x) <=>
                    x \in {<<d, "interface_pre_reset">>, <<d, "device_reset">>}
         /\ \A x : Holds(Opening(d), x) => OnceIn(Opening(d), x)
         /\ Ordered(Opening(d), <<d, "interface_pre_reset">>, <<d, "device_reset">>)
<1>1. DeviceStartAssumption /\ Devices \subseteq Callbacks
  BY DeviceStartAssumption DEF Devices, Callbacks
<1>2. <<d, "interface_pre_reset">> \in Calls /\ <<d, "device_reset">> \in Calls
  BY <1>1 DEF Calls, Hooks
<1>3. /\ Opening(d) \in Words /\ DOMAIN Opening(d) = 1 .. 2
      /\ Opening(d)[1] = <<d, "interface_pre_reset">> /\ Opening(d)[2] = <<d, "device_reset">>
  BY <1>2 DEF Opening, Words
<1>4. \A i \in DOMAIN Opening(d) : i = 1 \/ i = 2
  BY <1>3
<1>5. 1 \in DOMAIN Opening(d) /\ 2 \in DOMAIN Opening(d)
  BY <1>3
<1>6. Opening(d)[1] # Opening(d)[2]
  BY <1>3
<1>7. \A x : Holds(Opening(d), x) <=> x \in {<<d, "interface_pre_reset">>, <<d, "device_reset">>}
  BY <1>3, <1>4, <1>5 DEF Holds
<1>8. \A x : Holds(Opening(d), x) => OnceIn(Opening(d), x)
  BY <1>4, <1>6 DEF Holds, OnceIn
<1>9. Ordered(Opening(d), <<d, "interface_pre_reset">>, <<d, "device_reset">>)
  BY <1>3, <1>4, <1>6 DEF Ordered
<1>10. QED BY <1>3, <1>7, <1>8, <1>9

(* What it is called after they are.                                       *)
LEMMA ClosingIs ==
  ASSUME NEW d \in Devices
  PROVE  /\ Closing(d) \in Words
         /\ \A x : Holds(Closing(d), x) <=>
                    x \in {<<d, "device_reset_after_children">>, <<d, "interface_post_reset">>}
         /\ \A x : Holds(Closing(d), x) => OnceIn(Closing(d), x)
         /\ Ordered(Closing(d), <<d, "device_reset_after_children">>, <<d, "interface_post_reset">>)
<1>1. DeviceStartAssumption /\ Devices \subseteq Callbacks
  BY DeviceStartAssumption DEF Devices, Callbacks
<1>2. <<d, "interface_post_reset">> \in Calls /\ <<d, "device_reset_after_children">> \in Calls
  BY <1>1 DEF Calls, Hooks
<1>3. /\ Closing(d) \in Words /\ DOMAIN Closing(d) = 1 .. 2
      /\ Closing(d)[1] = <<d, "device_reset_after_children">> /\ Closing(d)[2] = <<d, "interface_post_reset">>
  BY <1>2 DEF Closing, Words
<1>4. \A i \in DOMAIN Closing(d) : i = 1 \/ i = 2
  BY <1>3
<1>5. 1 \in DOMAIN Closing(d) /\ 2 \in DOMAIN Closing(d)
  BY <1>3
<1>6. Closing(d)[1] # Closing(d)[2]
  BY <1>3
<1>7. \A x : Holds(Closing(d), x) <=> x \in {<<d, "device_reset_after_children">>, <<d, "interface_post_reset">>}
  BY <1>3, <1>4, <1>5 DEF Holds
<1>8. \A x : Holds(Closing(d), x) => OnceIn(Closing(d), x)
  BY <1>4, <1>6 DEF Holds, OnceIn
<1>9. Ordered(Closing(d), <<d, "device_reset_after_children">>, <<d, "interface_post_reset">>)
  BY <1>3, <1>4, <1>6 DEF Ordered
<1>10. QED BY <1>3, <1>7, <1>8, <1>9

(* What reset calls on a device and on all below it, from what it calls on *)
(* its subdevices.                                                         *)
Kids(f, d)   == [c \in Devices |-> IF owner[c] = d THEN f[c] ELSE <<>>]
Around(f, d) == Opening(d) \o FlattenSeq(Kids(f, d)) \o Closing(d)

(* The words of the subdevices of d, and the word of d around them.        *)
LEMMA KidsAre ==
  ASSUME NEW f \in [Devices -> Words], NEW d \in Devices
  PROVE  /\ Kids(f, d) \in Seq(Words) /\ Len(Kids(f, d)) = N
         /\ FlattenSeq(Kids(f, d)) \in Words
         /\ Around(f, d) \in Words
<1>1. N \in Nat /\ Devices = 1 .. N
  BY DeviceStartAssumption DEF Devices
<1>2. \A c \in Devices : f[c] \in Words
  OBVIOUS
<1>3. <<>> \in Words
  BY DEF Words
<1>4. Kids(f, d) \in [1 .. N -> Words]
  BY <1>1, <1>2, <1>3 DEF Kids
<1>5. Kids(f, d) \in Seq(Words) /\ Len(Kids(f, d)) = N
  BY <1>1, <1>4
<1>6. FlattenSeq(Kids(f, d)) \in Words
  BY <1>5, FlattenHolds
<1>7. Opening(d) \o FlattenSeq(Kids(f, d)) \in Words
  BY <1>6, OpeningIs, JoinedIs
<1>8. Around(f, d) \in Words
  BY <1>7, ClosingIs, JoinedIs DEF Around
<1>9. QED BY <1>5, <1>6, <1>8

(* Subdevices have higher numbers: the recursion ends.                     *)
LEMMA ResetUnfolds ==
  ASSUME owner \in Trees
  PROVE  \E r \in [Devices -> Words] :
           (\A d \in Devices : r[d] = Around(r, d)) /\ reset = r[1]
<1>1. N \in Nat /\ Devices = 1 .. N
  BY DeviceStartAssumption DEF Devices
<1>2. \A c \in Devices : owner[c] \in 0 .. N /\ owner[c] < c
  BY DEF Trees
<1> DEFINE Fits(f, m) == \A d \in Devices : d > m => f[d] = Around(f, d)
           P == {k \in 0 .. N : \E f \in [Devices -> Words] : Fits(f, N - k)}
<1>3. 0 \in P
  <2> DEFINE f == [d \in Devices |-> <<>>]
  <2>1. f \in [Devices -> Words]
    BY DEF Words
  <2>2. Fits(f, N - 0)
    BY <1>1
  <2> HIDE DEF f, Fits
  <2>3. QED BY <1>1, <2>1, <2>2
<1>4. ASSUME NEW j \in 0 .. (N - 1), j \in P PROVE j + 1 \in P
  <2>1. PICK f \in [Devices -> Words] : Fits(f, N - j)
    BY <1>4
  <2> DEFINE m == N - j
             v == Around(f, m)
             h == [d \in Devices |-> IF d = m THEN v ELSE f[d]]
  <2>2. m \in Devices /\ m \in Nat /\ N - (j + 1) = m - 1
    BY <1>1
  <2>3. v \in Words
    BY <2>2, KidsAre
  <2> HIDE DEF v, m
  <2>4. h \in [Devices -> Words]
    BY <2>3
  <2>5. ASSUME NEW d \in Devices, d > m - 1 PROVE h[d] = Around(h, d)
    <3>1. \A c \in Devices : owner[c] = d => c # m
      BY <1>1, <1>2, <2>2, <2>5
    <3>2. Kids(h, d) = Kids(f, d)
      BY <3>1 DEF Kids
    <3>3. Around(h, d) = Around(f, d)
      BY <3>2 DEF Around
    <3>4. CASE d = m
      BY <3>3, <3>4 DEF v
    <3>5. CASE d # m
      <4>1. d > m
        BY <1>1, <2>2, <2>5, <3>5
      <4>2. f[d] = Around(f, d)
        BY <2>1, <4>1 DEF m
      <4>3. QED BY <3>3, <3>5, <4>2
    <3>6. QED BY <3>4, <3>5
  <2> HIDE DEF h
  <2>6. Fits(h, N - (j + 1))
    BY <2>2, <2>5
  <2> HIDE DEF Fits
  <2>7. j + 1 \in 0 .. N
    BY <1>1
  <2>8. QED BY <2>4, <2>6, <2>7
<1>5. N \in P
  <2> HIDE DEF P
  <2>1. QED BY <1>1, <1>3, <1>4, LoopInduction
<1>6. PICK f \in [Devices -> Words] : Fits(f, N - N)
  BY <1>5
<1> DEFINE Solves(r) == r = [d \in Devices |-> Around(r, d)]
           r0 == CHOOSE r : Solves(r)
<1>7. \A d \in Devices : f[d] = Around(f, d)
  BY <1>1, <1>6
<1>8. Solves(f)
  <2> DEFINE R == [d \in Devices |-> Around(f, d)]
  <2>1. f = R
    BY <1>7
  <2>2. QED BY <2>1
<1>9. Solves(r0)
  <2> HIDE DEF Solves
  <2>1. QED BY <1>8
<1>10. reset = r0[1]
  BY DEF reset, Around, Opening, Closing, Kids
<1> HIDE DEF r0
<1>11. \A d \in Devices : r0[d] = Around(r0, d)
  <2>1. r0 = [d \in Devices |-> Around(r0, d)]
    BY <1>9
  <2>2. QED BY <2>1
<1>12. r0 \in [Devices -> Words]
  <2> DEFINE Q == {k \in 0 .. N : \A d \in Devices : d > N - k => r0[d] \in Words}
  <2>1. 0 \in Q
    BY <1>1
  <2>2. ASSUME NEW j \in 0 .. (N - 1), j \in Q PROVE j + 1 \in Q
    <3> DEFINE m == N - j
               h == [d \in Devices |-> IF d > m THEN r0[d] ELSE <<>>]
    <3>1. m \in Devices /\ m \in Nat /\ N - (j + 1) = m - 1 /\ j + 1 \in 0 .. N
      BY <1>1
    <3>2. \A d \in Devices : d > m => r0[d] \in Words
      BY <2>2
    <3>3. <<>> \in Words
      BY DEF Words
    <3> HIDE DEF m
    <3>4. h \in [Devices -> Words]
      BY <3>2, <3>3
    <3>5. \A c \in Devices : owner[c] = m => c > m
      BY <1>1, <1>2, <3>1
    <3>6. Kids(h, m) = Kids(r0, m)
      BY <3>5 DEF Kids
    <3>7. Around(h, m) = Around(r0, m)
      BY <3>6 DEF Around
    <3> HIDE DEF h
    <3>8. Around(h, m) \in Words
      BY <3>1, <3>4, KidsAre
    <3>9. r0[m] \in Words
      BY <1>11, <3>1, <3>7, <3>8
    <3>10. \A d \in Devices : d > m - 1 => d = m \/ d > m
      BY <1>1, <3>1
    <3>11. QED BY <3>1, <3>2, <3>9, <3>10
  <2>3. N \in Q
    <3> HIDE DEF Q
    <3>1. QED BY <1>1, <2>1, <2>2, LoopInduction
  <2>4. \A d \in Devices : r0[d] \in Words
    BY <1>1, <2>3
  <2>5. DOMAIN r0 = Devices /\ r0 = [d \in Devices |-> r0[d]]
    <3>1. r0 = [d \in Devices |-> Around(r0, d)]
      BY <1>9
    <3> DEFINE X(d) == Around(r0, d)
    <3>2. r0 = [d \in Devices |-> X(d)]
      BY <3>1
    <3> HIDE DEF X
    <3>3. QED BY <3>2
  <2>6. QED BY <2>4, <2>5
<1>13. QED BY <1>10, <1>11, <1>12

IsReset(r) == r \in [Devices -> Words] /\ \A d \in Devices : r[d] = Around(r, d)

(* An induction over the devices from the last to the first.               *)
LEMMA Upwards ==
  ASSUME NEW S, \A d \in Devices : (\A c \in Devices : c > d => c \in S) => d \in S
  PROVE  \A d \in Devices : d \in S
<1>1. N \in Nat /\ Devices = 1 .. N
  BY DeviceStartAssumption DEF Devices
<1> DEFINE P == {k \in 0 .. N : \A d \in Devices : d > N - k => d \in S}
<1>2. 0 \in P
  BY <1>1
<1>3. ASSUME NEW j \in 0 .. (N - 1), j \in P PROVE j + 1 \in P
  <2>1. N - j \in Devices /\ j + 1 \in 0 .. N
    BY <1>1
  <2>2. \A d \in Devices : d > N - j => d \in S
    BY <1>3
  <2>3. N - j \in S
    BY <2>1, <2>2
  <2>4. \A d \in Devices : d > N - (j + 1) => d = N - j \/ d > N - j
    BY <1>1
  <2>5. QED BY <2>1, <2>2, <2>3, <2>4
<1>4. N \in P
  <2> HIDE DEF P
  <2>1. QED BY <1>1, <1>2, <1>3, LoopInduction
<1>5. QED BY <1>1, <1>4

(* What is called on a device, and on what is below it.                    *)
LEMMA ResetHolds ==
  ASSUME NEW r, IsReset(r), NEW d \in Devices, NEW x
  PROVE  Holds(r[d], x) <=> \/ Holds(Opening(d), x) \/ Holds(Closing(d), x)
                            \/ \E c \in Devices : owner[c] = d /\ Holds(r[c], x)
<1>1. N \in Nat /\ Devices = 1 .. N
  BY DeviceStartAssumption DEF Devices
<1>2. r \in [Devices -> Words] /\ r[d] = Around(r, d)
  BY DEF IsReset
<1> DEFINE F == FlattenSeq(Kids(r, d))
<1>3. Kids(r, d) \in Seq(Words) /\ Len(Kids(r, d)) = N /\ F \in Words
  BY <1>2, KidsAre
<1>4. Opening(d) \in Words /\ Closing(d) \in Words
  BY OpeningIs, ClosingIs
<1>5. Holds(F, x) <=> \E c \in 1 .. N : Holds(Kids(r, d)[c], x)
  BY <1>3, FlattenHolds
<1>6. \A c \in Devices : Holds(Kids(r, d)[c], x) <=> owner[c] = d /\ Holds(r[c], x)
  <2>1. ~Holds(<<>>, x)
    BY DEF Holds
  <2>2. QED BY <2>1 DEF Kids
<1> HIDE DEF F
<1>7. Opening(d) \o F \in Words
  BY <1>3, <1>4, JoinedIs
<1>8. Holds(Opening(d) \o F, x) <=> Holds(Opening(d), x) \/ Holds(F, x)
  BY <1>3, <1>4, JoinedHolds
<1>9. Holds((Opening(d) \o F) \o Closing(d), x) <=> Holds(Opening(d) \o F, x) \/ Holds(Closing(d), x)
  BY <1>4, <1>7, JoinedHolds
<1>10. r[d] = (Opening(d) \o F) \o Closing(d)
  BY <1>2 DEF Around, F
<1>11. QED BY <1>1, <1>5, <1>6, <1>8, <1>9, <1>10

(* A device and all below it.                                              *)
Below(r, d) == {e \in Devices : Holds(r[d], <<e, "device_reset">>)}

(* Below a device are the device itself and all below its subdevices;      *)
(* these alone are called in its reset, with the hooks of a reset.         *)
LEMMA BelowIs ==
  ASSUME owner \in Trees, NEW r, IsReset(r)
  PROVE  /\ \A d, e \in Devices :
              /\ e \in Below(r, d) <=>
                   e = d \/ \E c \in Devices : owner[c] = d /\ e \in Below(r, c)
              /\ e \in Below(r, d) => e >= d
         /\ \A d \in Devices : \A x :
              Holds(r[d], x) <=> \E e \in Below(r, d), h \in ResetHooks : x = <<e, h>>
<1>1. N \in Nat /\ Devices = 1 .. N
  BY DeviceStartAssumption DEF Devices
<1>2. \A c \in Devices : owner[c] \in 0 .. N /\ owner[c] < c
  BY DEF Trees
<1>3. \A d \in Devices : \A x :
        Holds(Opening(d), x) \/ Holds(Closing(d), x) <=> \E h \in ResetHooks : x = <<d, h>>
  BY OpeningIs, ClosingIs DEF ResetHooks
<1>4. \A d \in Devices : \A x :
        Holds(r[d], x) <=> \/ \E h \in ResetHooks : x = <<d, h>>
                           \/ \E c \in Devices : owner[c] = d /\ Holds(r[c], x)
  BY <1>3, ResetHolds
<1>5. "device_reset" \in ResetHooks
  BY DEF ResetHooks
<1>6. ASSUME NEW d \in Devices, NEW e \in Devices
      PROVE  e \in Below(r, d) <=>
               e = d \/ \E c \in Devices : owner[c] = d /\ e \in Below(r, c)
  <2> DEFINE x == <<e, "device_reset">>
  <2>1. (\E h \in ResetHooks : x = <<d, h>>) <=> e = d
    BY <1>5
  <2> HIDE DEF x
  <2>2. Holds(r[d], x) <=> e = d \/ \E c \in Devices : owner[c] = d /\ Holds(r[c], x)
    BY <1>4, <2>1
  <2>3. \A c \in Devices : e \in Below(r, c) <=> Holds(r[c], x)
    BY DEF Below, x
  <2>4. QED BY <2>2, <2>3
<1> DEFINE All(d) == /\ \A e \in Devices : e \in Below(r, d) => e >= d
                     /\ \A x : Holds(r[d], x) => \E e \in Below(r, d), h \in ResetHooks : x = <<e, h>>
                     /\ \A e \in Below(r, d), h \in ResetHooks : Holds(r[d], <<e, h>>)
           S == {d \in Devices : All(d)}
<1>7. ASSUME NEW d \in Devices, \A c \in Devices : c > d => c \in S PROVE d \in S
  <2>1. \A c \in Devices : owner[c] = d => c > d /\ All(c)
    BY <1>1, <1>2, <1>7
  <2>2. \A e \in Devices : e \in Below(r, d) => e >= d
    BY <1>1, <1>6, <2>1
  <2>3. ASSUME NEW x, Holds(r[d], x) PROVE \E e \in Below(r, d), h \in ResetHooks : x = <<e, h>>
    <3>1. CASE \E h \in ResetHooks : x = <<d, h>>
      <4>1. d \in Below(r, d)
        BY <1>6
      <4>2. QED BY <3>1, <4>1
    <3>2. ASSUME NEW c \in Devices, owner[c] = d, Holds(r[c], x)
          PROVE  \E e \in Below(r, d), h \in ResetHooks : x = <<e, h>>
      <4>1. PICK e \in Below(r, c), h \in ResetHooks : x = <<e, h>>
        BY <2>1, <3>2
      <4>2. e \in Devices
        BY DEF Below
      <4>3. e \in Below(r, d)
        BY <1>6, <3>2, <4>2
      <4>4. QED BY <4>1, <4>3
    <3>3. QED BY <1>4, <2>3, <3>1, <3>2
  <2>4. ASSUME NEW e \in Below(r, d), NEW h \in ResetHooks PROVE Holds(r[d], <<e, h>>)
    <3>1. e \in Devices
      BY DEF Below
    <3>2. CASE e = d
      BY <1>4, <3>2
    <3>3. ASSUME NEW c \in Devices, owner[c] = d, e \in Below(r, c) PROVE Holds(r[d], <<e, h>>)
      <4>1. Holds(r[c], <<e, h>>)
        BY <2>1, <3>3
      <4>2. QED BY <1>4, <3>3, <4>1
    <3>4. QED BY <1>6, <3>1, <3>2, <3>3
  <2>5. QED BY <2>2, <2>3, <2>4
<1>8. \A d \in Devices : d \in S
  <2> HIDE DEF S
  <2>1. QED BY <1>7, Upwards
<1>9. \A d \in Devices : All(d)
  BY <1>8
<1>10. \A d \in Devices : \A x :
         Holds(r[d], x) <=> \E e \in Below(r, d), h \in ResetHooks : x = <<e, h>>
  BY <1>9
<1>11. QED BY <1>6, <1>9, <1>10

(* What is below a device is so with its owner, or is the device; and what *)
(* is owned by what is below a device is below it.                         *)
LEMMA BelowClosed ==
  ASSUME owner \in Trees, NEW r, IsReset(r)
  PROVE  \A d, e \in Devices :
           /\ e \in Below(r, d) /\ e # d => owner[e] \in Below(r, d)
           /\ owner[e] \in Below(r, d) => e \in Below(r, d)
<1>1. N \in Nat /\ Devices = 1 .. N
  BY DeviceStartAssumption DEF Devices
<1>2. \A c \in Devices : owner[c] \in 0 .. N /\ owner[c] < c
  BY DEF Trees
<1>3. \A d, e \in Devices :
        e \in Below(r, d) <=> e = d \/ \E c \in Devices : owner[c] = d /\ e \in Below(r, c)
  BY BelowIs
<1> DEFINE Up(d)   == \A e \in Devices : e \in Below(r, d) /\ e # d => owner[e] \in Below(r, d)
           Down(d) == \A e \in Devices : owner[e] \in Below(r, d) => e \in Below(r, d)
           S == {d \in Devices : Up(d) /\ Down(d)}
<1>4. ASSUME NEW d \in Devices, \A c \in Devices : c > d => c \in S PROVE d \in S
  <2>1. \A c \in Devices : owner[c] = d => Up(c) /\ Down(c)
    BY <1>1, <1>2, <1>4
  <2>2. d \in Below(r, d)
    BY <1>3
  <2>3. ASSUME NEW e \in Devices, e \in Below(r, d), e # d PROVE owner[e] \in Below(r, d)
    <3>1. PICK c \in Devices : owner[c] = d /\ e \in Below(r, c)
      BY <1>3, <2>3
    <3>2. CASE e = c
      BY <2>2, <3>1, <3>2
    <3>3. CASE e # c
      <4>1. owner[e] \in Below(r, c)
        BY <2>1, <3>1, <3>3
      <4>2. owner[e] \in Devices
        BY <4>1 DEF Below
      <4>3. QED BY <1>3, <3>1, <4>1, <4>2
    <3>4. QED BY <3>2, <3>3
  <2>4. ASSUME NEW e \in Devices, owner[e] \in Below(r, d) PROVE e \in Below(r, d)
    <3>1. owner[e] \in Devices
      BY <2>4 DEF Below
    <3>2. CASE owner[e] = d
      <4>1. e \in Below(r, e)
        BY <1>3
      <4>2. QED BY <1>3, <3>2, <4>1
    <3>3. ASSUME NEW c \in Devices, owner[c] = d, owner[e] \in Below(r, c)
          PROVE  e \in Below(r, d)
      <4>1. e \in Below(r, c)
        BY <2>1, <3>3
      <4>2. QED BY <1>3, <3>3, <4>1
    <3>4. QED BY <1>3, <2>4, <3>1, <3>2, <3>3
  <2>5. QED BY <2>3, <2>4
<1>5. \A d \in Devices : d \in S
  <2> HIDE DEF S
  <2>1. QED BY <1>4, Upwards
<1>6. QED BY <1>5

(* Nothing is below two subdevices of one device: the least such would be  *)
(* one of them, as its owner would be another one.                         *)
LEMMA BelowApart ==
  ASSUME owner \in Trees, NEW r, IsReset(r), NEW a \in Devices, NEW b \in Devices,
         owner[a] = owner[b], NEW e \in Devices, e \in Below(r, a), e \in Below(r, b)
  PROVE  a = b
<1>1. N \in Nat /\ Devices = 1 .. N
  BY DeviceStartAssumption DEF Devices
<1>2. \A c \in Devices : owner[c] \in 0 .. N /\ owner[c] < c
  BY DEF Trees
<1>3. SUFFICES ASSUME a # b PROVE FALSE
  OBVIOUS
<1> DEFINE Both == {x \in Devices : x \in Below(r, a) /\ x \in Below(r, b)}
<1>4. PICK x \in Both : \A y \in Both : x <= y
  <2>1. Both \in SUBSET Nat /\ Both # {}
    BY <1>1
  <2> HIDE DEF Both
  <2>2. QED BY <2>1, LeastExists
<1>5. CASE x = a
  <2>1. owner[a] \in Below(r, b)
    BY <1>3, <1>4, <1>5, BelowClosed
  <2>2. owner[a] \in Devices
    BY <2>1 DEF Below
  <2>3. owner[a] >= b
    BY <2>1, <2>2, BelowIs
  <2>4. QED BY <1>1, <1>2, <2>2, <2>3
<1>6. CASE x = b
  <2>1. owner[b] \in Below(r, a)
    BY <1>3, <1>4, <1>6, BelowClosed
  <2>2. owner[b] \in Devices
    BY <2>1 DEF Below
  <2>3. owner[b] >= a
    BY <2>1, <2>2, BelowIs
  <2>4. QED BY <1>1, <1>2, <2>2, <2>3
<1>7. CASE x # a /\ x # b
  <2>1. owner[x] \in Below(r, a) /\ owner[x] \in Below(r, b)
    BY <1>4, <1>7, BelowClosed
  <2>2. owner[x] \in Both
    BY <2>1 DEF Below
  <2>3. x \in Devices /\ x <= owner[x]
    BY <1>4, <2>2
  <2>4. QED BY <1>1, <1>2, <2>3
<1>8. QED BY <1>5, <1>6, <1>7

(* All devices are below the root: the least that is not has an owner.     *)
LEMMA AllBelowRoot ==
  ASSUME owner \in Trees, NEW r, IsReset(r)
  PROVE  1 \in Devices /\ \A e \in Devices : e \in Below(r, 1)
<1>1. N \in Nat /\ Devices = 1 .. N /\ 1 \in Devices
  BY DeviceStartAssumption, DeviceLifecycleAssumption DEF Devices
<1>2. \A c \in Devices : owner[c] \in 0 .. N /\ owner[c] < c /\ (owner[c] = 0 => c = 1)
  BY DEF Trees
<1> DEFINE Out == {e \in Devices : e \notin Below(r, 1)}
<1>3. SUFFICES ASSUME Out # {} PROVE FALSE
  BY <1>1
<1>4. PICK x \in Out : \A y \in Out : x <= y
  <2>1. Out \in SUBSET Nat
    BY <1>1
  <2> HIDE DEF Out
  <2>2. QED BY <1>3, <2>1, LeastExists
<1>5. x # 1
  BY <1>1, <1>4, BelowIs
<1>6. owner[x] \in Devices
  BY <1>1, <1>2, <1>4, <1>5
<1>7. owner[x] \in Below(r, 1)
  <2>1. owner[x] < x /\ x \in Int /\ owner[x] \in Int
    BY <1>1, <1>2, <1>4
  <2>2. owner[x] \notin Out
    BY <1>4, <2>1
  <2>3. QED BY <1>6, <2>2
<1>8. x \in Below(r, 1)
  BY <1>1, <1>4, <1>7, BelowClosed
<1>9. QED BY <1>4, <1>8

(* The parts of what is called on a device and on what is below it.        *)
LEMMA ResetParts ==
  ASSUME owner \in Trees, NEW r, IsReset(r), NEW d \in Devices
  PROVE  /\ Opening(d) \in Words /\ Closing(d) \in Words /\ FlattenSeq(Kids(r, d)) \in Words
         /\ Opening(d) \o FlattenSeq(Kids(r, d)) \in Words
         /\ r[d] = (Opening(d) \o FlattenSeq(Kids(r, d))) \o Closing(d)
         /\ Kids(r, d) \in Seq(Words) /\ Len(Kids(r, d)) = N
         /\ \A c \in Devices : \A x :
              Holds(Kids(r, d)[c], x) =>
                owner[c] = d /\ c > d /\ Kids(r, d)[c] = r[c]
                /\ \E e \in Below(r, c), h \in ResetHooks : x = <<e, h>>
         /\ \A x : Holds(FlattenSeq(Kids(r, d)), x) =>
                     \E e \in Devices, h \in ResetHooks : x = <<e, h>> /\ e > d
<1>1. N \in Nat /\ Devices = 1 .. N
  BY DeviceStartAssumption DEF Devices
<1>2. \A c \in Devices : owner[c] \in 0 .. N /\ owner[c] < c
  BY DEF Trees
<1>3. r \in [Devices -> Words] /\ r[d] = Around(r, d)
  BY DEF IsReset
<1>4. Opening(d) \in Words /\ Closing(d) \in Words
  BY OpeningIs, ClosingIs
<1>5. /\ Kids(r, d) \in Seq(Words) /\ Len(Kids(r, d)) = N /\ FlattenSeq(Kids(r, d)) \in Words
  BY <1>3, KidsAre
<1>6. Opening(d) \o FlattenSeq(Kids(r, d)) \in Words
  BY <1>4, <1>5, JoinedIs
<1>7. ASSUME NEW c \in Devices, NEW x, Holds(Kids(r, d)[c], x)
      PROVE  /\ owner[c] = d /\ c > d /\ Kids(r, d)[c] = r[c]
             /\ \E e \in Below(r, c), h \in ResetHooks : x = <<e, h>>
  <2>1. ~Holds(<<>>, x)
    BY DEF Holds
  <2>2. owner[c] = d
    BY <1>7, <2>1 DEF Kids
  <2>3. Kids(r, d)[c] = r[c]
    BY <2>2 DEF Kids
  <2>4. c > d
    BY <1>1, <1>2, <2>2
  <2>5. Holds(r[c], x)
    BY <1>7, <2>3
  <2>6. QED BY <2>2, <2>3, <2>4, <2>5, BelowIs
<1>8. ASSUME NEW x, Holds(FlattenSeq(Kids(r, d)), x)
      PROVE  \E e \in Devices, h \in ResetHooks : x = <<e, h>> /\ e > d
  <2>1. PICK c \in 1 .. N : Holds(Kids(r, d)[c], x)
    BY <1>5, <1>8, FlattenHolds
  <2>2. c \in Devices /\ c > d /\ \E e \in Below(r, c), h \in ResetHooks : x = <<e, h>>
    BY <1>1, <1>7, <2>1
  <2>3. PICK e \in Below(r, c), h \in ResetHooks : x = <<e, h>>
    BY <2>2
  <2>4. e \in Devices /\ e >= c
    BY <2>2, BelowIs DEF Below
  <2>5. e > d
    BY <1>1, <2>2, <2>4
  <2>6. QED BY <2>3, <2>4, <2>5
<1>9. r[d] = (Opening(d) \o FlattenSeq(Kids(r, d))) \o Closing(d)
  BY <1>3 DEF Around
<1>10. QED BY <1>4, <1>5, <1>6, <1>7, <1>8, <1>9

(* Each hook of each device once.                                          *)
LEMMA ResetOnce ==
  ASSUME owner \in Trees, NEW r, IsReset(r), NEW h \in ResetHooks
  PROVE  \A d \in Devices : \A e \in Below(r, d) : OnceIn(r[d], <<e, h>>)
<1>1. N \in Nat /\ Devices = 1 .. N
  BY DeviceStartAssumption DEF Devices
<1>2. \A c \in Devices : owner[c] \in 0 .. N /\ owner[c] < c
  BY DEF Trees
<1> DEFINE S == {d \in Devices : \A e \in Below(r, d) : OnceIn(r[d], <<e, h>>)}
<1>3. ASSUME NEW d \in Devices, \A c \in Devices : c > d => c \in S PROVE d \in S
  <2> DEFINE U == Opening(d)
             F == FlattenSeq(Kids(r, d))
             V == Closing(d)
  <2>1. /\ U \in Words /\ V \in Words /\ F \in Words /\ U \o F \in Words
        /\ r[d] = (U \o F) \o V
        /\ Kids(r, d) \in Seq(Words) /\ Len(Kids(r, d)) = N
    BY ResetParts
  <2>2. /\ \A c \in Devices : \A x :
             Holds(Kids(r, d)[c], x) =>
               /\ owner[c] = d /\ c > d /\ Kids(r, d)[c] = r[c]
               /\ \E e \in Below(r, c), g \in ResetHooks : x = <<e, g>>
        /\ \A x : Holds(F, x) => \E e \in Devices, g \in ResetHooks : x = <<e, g>> /\ e > d
    BY ResetParts
  <2>3. /\ \A x : Holds(U, x) <=> x \in {<<d, "interface_pre_reset">>, <<d, "device_reset">>}
        /\ \A x : Holds(U, x) => OnceIn(U, x)
    BY OpeningIs
  <2>4. /\ \A x : Holds(V, x) <=>
             x \in {<<d, "device_reset_after_children">>, <<d, "interface_post_reset">>}
        /\ \A x : Holds(V, x) => OnceIn(V, x)
    BY ClosingIs
  <2> HIDE DEF U, F, V
  <2>5. ASSUME NEW e \in Below(r, d) PROVE OnceIn(r[d], <<e, h>>)
    <3> DEFINE x == <<e, h>>
    <3>1. e \in Devices
      BY DEF Below
    <3>2. CASE e = d
      <4>1. ~Holds(F, x)
        BY <1>1, <2>2, <3>2
      <4>2. Holds(U, x) \/ Holds(V, x)
        BY <2>3, <2>4, <3>2 DEF ResetHooks
      <4>3. ~(Holds(U, x) /\ Holds(V, x))
        BY <2>3, <2>4
      <4> HIDE DEF x
      <4>4. CASE Holds(U, x)
        <5>1. OnceIn(U \o F, x)
          BY <2>1, <2>3, <4>1, <4>4, JoinedOnce
        <5>2. OnceIn((U \o F) \o V, x)
          BY <2>1, <4>3, <4>4, <5>1, JoinedOnce
        <5>3. QED BY <2>1, <5>2 DEF x
      <4>5. CASE Holds(V, x)
        <5>1. ~Holds(U \o F, x)
          BY <2>1, <4>1, <4>3, <4>5, JoinedHolds
        <5>2. OnceIn((U \o F) \o V, x)
          BY <2>1, <2>4, <4>5, <5>1, JoinedOnce
        <5>3. QED BY <2>1, <5>2 DEF x
      <4>6. QED BY <4>2, <4>4, <4>5
    <3>3. CASE e # d
      <4>1. PICK c \in Devices : owner[c] = d /\ e \in Below(r, c)
        BY <3>1, <3>3, BelowIs
      <4>2. c \in 1 .. N /\ Kids(r, d)[c] = r[c] /\ c > d
        BY <1>1, <1>2, <4>1 DEF Kids
      <4>3. OnceIn(r[c], x)
        BY <1>3, <4>1, <4>2
      <4>4. ASSUME NEW k \in 1 .. N, k # c, Holds(Kids(r, d)[k], x) PROVE FALSE
        <5>1. k \in Devices /\ owner[k] = d
          BY <1>1, <2>2, <4>4
        <5>2. PICK a \in Below(r, k), g \in ResetHooks : x = <<a, g>>
          BY <2>2, <4>4, <5>1
        <5>3. e \in Below(r, k)
          BY <5>2
        <5>4. QED BY <3>1, <4>1, <4>4, <5>1, <5>3, BelowApart
      <4>5. ~Holds(U, x) /\ ~Holds(V, x)
        BY <2>3, <2>4, <3>3
      <4> HIDE DEF x
      <4>6. OnceIn(F, x)
        BY <2>1, <4>2, <4>3, <4>4, FlattenOnce DEF F
      <4>7. OnceIn(U \o F, x)
        BY <2>1, <4>5, <4>6, JoinedOnce
      <4>8. OnceIn((U \o F) \o V, x)
        BY <2>1, <4>5, <4>7, JoinedOnce
      <4>9. QED BY <2>1, <4>8 DEF x
    <3>4. QED BY <3>2, <3>3
  <2>6. QED BY <2>5
<1>4. \A d \in Devices : d \in S
  <2> HIDE DEF S
  <2>1. QED BY <1>3, Upwards
<1>5. QED BY <1>4

(* Two hooks of one device, or one of a device and one of a subdevice: the *)
(* opening of the device is before the subdevice, its closing after it.    *)
Linked(a, g, b, h) ==
  \/ /\ a = b
     /\ \/ g = "interface_pre_reset" /\ h = "device_reset"
        \/ g = "device_reset_after_children" /\ h = "interface_post_reset"
  \/ owner[b] = a /\ g = "device_reset" /\ h = "interface_pre_reset"
  \/ owner[a] = b /\ g = "interface_post_reset" /\ h = "device_reset_after_children"

(* Linked hooks are called in order in the reset of each device.           *)
LEMMA ResetOrdered ==
  ASSUME owner \in Trees, NEW r, IsReset(r), NEW a \in Devices, NEW b \in Devices,
         NEW g \in ResetHooks, NEW h \in ResetHooks, Linked(a, g, b, h)
  PROVE  \A d \in Devices : Ordered(r[d], <<a, g>>, <<b, h>>)
<1>1. N \in Nat /\ Devices = 1 .. N
  BY DeviceStartAssumption DEF Devices
<1>2. \A c \in Devices : owner[c] \in 0 .. N /\ owner[c] < c
  BY DEF Trees
<1> DEFINE x == <<a, g>>
           y == <<b, h>>
           S == {d \in Devices : Ordered(r[d], x, y)}
<1>3. \A w : ~Holds(w, x) \/ ~Holds(w, y) => Ordered(w, x, y)
  BY DEF Holds, Ordered
<1>4. ASSUME NEW d \in Devices, \A c \in Devices : c > d => c \in S PROVE d \in S
  <2> DEFINE U == Opening(d)
             F == FlattenSeq(Kids(r, d))
             V == Closing(d)
  <2>1. /\ U \in Words /\ V \in Words /\ F \in Words /\ U \o F \in Words
        /\ r[d] = (U \o F) \o V
        /\ Kids(r, d) \in Seq(Words) /\ Len(Kids(r, d)) = N
    BY ResetParts
  <2>2. /\ \A c \in Devices : \A z :
             Holds(Kids(r, d)[c], z) =>
               /\ owner[c] = d /\ c > d /\ Kids(r, d)[c] = r[c]
               /\ \E e \in Below(r, c), k \in ResetHooks : z = <<e, k>>
        /\ \A z : Holds(F, z) => \E e \in Devices, k \in ResetHooks : z = <<e, k>> /\ e > d
    BY ResetParts
  <2>3. /\ \A z : Holds(U, z) <=> z \in {<<d, "interface_pre_reset">>, <<d, "device_reset">>}
        /\ Ordered(U, <<d, "interface_pre_reset">>, <<d, "device_reset">>)
    BY OpeningIs
  <2>4. /\ \A z : Holds(V, z) <=>
             z \in {<<d, "device_reset_after_children">>, <<d, "interface_post_reset">>}
        /\ Ordered(V, <<d, "device_reset_after_children">>, <<d, "interface_post_reset">>)
    BY ClosingIs
  <2> HIDE DEF U, F, V
  <2>5. Ordered(U, x, y)
    <3>1. CASE a = b /\ g = "interface_pre_reset" /\ h = "device_reset" /\ a = d
      BY <2>3, <3>1
    <3>2. CASE ~(a = b /\ g = "interface_pre_reset" /\ h = "device_reset" /\ a = d)
      <4>1. ~(Holds(U, x) /\ Holds(U, y))
        BY <1>1, <1>2, <2>3, <3>2 DEF Linked
      <4>2. QED BY <1>3, <4>1
    <3>3. QED BY <3>1, <3>2
  <2>6. Ordered(V, x, y)
    <3>1. CASE a = b /\ g = "device_reset_after_children" /\ h = "interface_post_reset" /\ a = d
      BY <2>4, <3>1
    <3>2. CASE ~(a = b /\ g = "device_reset_after_children" /\ h = "interface_post_reset" /\ a = d)
      <4>1. ~(Holds(V, x) /\ Holds(V, y))
        BY <1>1, <1>2, <2>4, <3>2 DEF Linked
      <4>2. QED BY <1>3, <4>1
    <3>3. QED BY <3>1, <3>2
  <2>7. \A c \in Devices : \A e \in Devices, k \in ResetHooks :
          Holds(Kids(r, d)[c], <<e, k>>) => owner[c] = d /\ e \in Below(r, c)
    BY <2>2
  <2>8. Ordered(F, x, y)
    <3>1. ASSUME NEW k \in 1 .. N PROVE Ordered(Kids(r, d)[k], x, y)
      <4>1. CASE Holds(Kids(r, d)[k], x)
        <5>1. k \in Devices /\ k > d /\ Kids(r, d)[k] = r[k]
          BY <1>1, <2>2, <4>1
        <5>2. QED BY <1>4, <5>1
      <4>2. CASE ~Holds(Kids(r, d)[k], x)
        BY <1>3, <4>2
      <4>3. QED BY <4>1, <4>2
    <3>2. ASSUME NEW k \in 1 .. N, NEW l \in 1 .. N, k < l,
                 Holds(Kids(r, d)[k], y), Holds(Kids(r, d)[l], x)
          PROVE  FALSE
      <4>1. k \in Devices /\ l \in Devices /\ k # l
        BY <1>1, <3>2
      <4>2. owner[k] = d /\ b \in Below(r, k) /\ owner[l] = d /\ a \in Below(r, l)
        BY <2>7, <3>2, <4>1
      <4>3. CASE a = b
        BY <4>1, <4>2, <4>3, BelowApart
      <4>4. CASE owner[b] = a
        <5>1. CASE b = k
          <6>1. a = d /\ d >= l
            BY <4>1, <4>2, <4>4, <5>1, BelowIs
          <6>2. QED BY <1>1, <1>2, <4>1, <4>2, <6>1
        <5>2. CASE b # k
          <6>1. a \in Below(r, k)
            BY <4>1, <4>2, <4>4, <5>2, BelowClosed
          <6>2. QED BY <4>1, <4>2, <6>1, BelowApart
        <5>3. QED BY <5>1, <5>2
      <4>5. CASE owner[a] = b
        <5>1. CASE a = l
          <6>1. b = d /\ d >= k
            BY <4>1, <4>2, <4>5, <5>1, BelowIs
          <6>2. QED BY <1>1, <1>2, <4>1, <4>2, <6>1
        <5>2. CASE a # l
          <6>1. b \in Below(r, l)
            BY <4>1, <4>2, <4>5, <5>2, BelowClosed
          <6>2. QED BY <4>1, <4>2, <6>1, BelowApart
        <5>3. QED BY <5>1, <5>2
      <4>6. QED BY <4>3, <4>4, <4>5 DEF Linked
    <3> HIDE DEF x, y
    <3>3. QED BY <2>1, <3>1, <3>2, FlattenOrdered DEF F
  <2>9. Holds(F, x) => a > d
    BY <2>2
  <2>10. Holds(F, y) => b > d
    BY <2>2
  <2>11. ~Holds(U, y) \/ ~Holds(F, x)
    <3>1. SUFFICES ASSUME Holds(U, y), Holds(F, x) PROVE FALSE
      OBVIOUS
    <3>2. b = d /\ h \in {"interface_pre_reset", "device_reset"} /\ a > d
      BY <2>3, <2>9, <3>1
    <3>3. owner[b] < b
      BY <1>2
    <3>4. QED BY <1>1, <3>2, <3>3 DEF Linked
  <2>12. ~(Holds(U, y) /\ Holds(V, x)) /\ ~(Holds(F, y) /\ Holds(V, x))
    <3>1. ASSUME Holds(V, x)
          PROVE  a = d /\ g \in {"device_reset_after_children", "interface_post_reset"}
      BY <2>4, <3>1
    <3>2. ASSUME Holds(U, y) PROVE b = d /\ h \in {"interface_pre_reset", "device_reset"}
      BY <2>3, <3>2
    <3>3. owner[b] < b /\ owner[a] < a
      BY <1>2
    <3>4. QED BY <1>1, <2>10, <3>1, <3>2, <3>3 DEF Linked
  <2> HIDE DEF x, y
  <2>13. Ordered(U \o F, x, y)
    BY <2>1, <2>5, <2>8, <2>11, JoinedOrdered
  <2>14. ~Holds(U \o F, y) \/ ~Holds(V, x)
    BY <2>1, <2>12, JoinedHolds
  <2>15. Ordered((U \o F) \o V, x, y)
    BY <2>1, <2>6, <2>13, <2>14, JoinedOrdered
  <2>16. QED BY <2>1, <2>15 DEF S
<1>5. \A d \in Devices : d \in S
  <2> HIDE DEF S
  <2>1. QED BY <1>4, Upwards
<1>6. QED BY <1>5

(* The reset of the root device calls each hook of each device once and    *)
(* linked hooks in order.                                                  *)
LEMMA ResetIs ==
  ASSUME owner \in Trees
  PROVE  /\ reset \in Words
         /\ \A x : Holds(reset, x) => \E d \in Devices, h \in ResetHooks : x = <<d, h>>
         /\ \A d \in Devices, h \in ResetHooks : OnceIn(reset, <<d, h>>)
         /\ \A a, b \in Devices, g, h \in ResetHooks :
              Linked(a, g, b, h) => Ordered(reset, <<a, g>>, <<b, h>>)
<1>1. PICK r \in [Devices -> Words] : (\A d \in Devices : r[d] = Around(r, d)) /\ reset = r[1]
  BY ResetUnfolds
<1>2. IsReset(r)
  BY <1>1 DEF IsReset
<1>3. 1 \in Devices /\ \A e \in Devices : e \in Below(r, 1)
  BY <1>2, AllBelowRoot
<1>4. ASSUME NEW x, Holds(r[1], x) PROVE \E d \in Devices, h \in ResetHooks : x = <<d, h>>
  <2>1. PICK d \in Below(r, 1), h \in ResetHooks : x = <<d, h>>
    BY <1>2, <1>3, <1>4, BelowIs
  <2>2. d \in Devices
    BY DEF Below
  <2>3. QED BY <2>1, <2>2
<1>5. \A d \in Devices, h \in ResetHooks : OnceIn(r[1], <<d, h>>)
  BY <1>2, <1>3, ResetOnce
<1>6. \A a, b \in Devices, g, h \in ResetHooks :
        Linked(a, g, b, h) => Ordered(r[1], <<a, g>>, <<b, h>>)
  BY <1>2, <1>3, ResetOrdered
<1>7. r[1] \in Words
  BY <1>1, <1>3
<1>8. QED BY <1>1, <1>4, <1>5, <1>6, <1>7

---------------------------------------------------------------------------------
(* The word of an operation: what it is on the way to have called.         *)

StopHooks == {"interface_pre_stop", "device_stop", "interface_post_stop"}

InReset(w) ==
  \A d \in Devices :
    /\ \A h \in ResetHooks : OnceIn(w, <<d, h>>)
    /\ Ordered(w, <<d, "interface_pre_reset">>, <<d, "device_reset">>)
    /\ Ordered(w, <<d, "device_reset_after_children">>, <<d, "interface_post_reset">>)
    /\ \A c \in Devices : owner[c] = d =>
         /\ Ordered(w, <<d, "device_reset">>, <<c, "interface_pre_reset">>)
         /\ Ordered(w, <<c, "interface_post_reset">>, <<d, "device_reset_after_children">>)
    /\ Ordered(w, <<1, "interface_post_reset">>, <<d, "own">>)

InSave(w) ==
  \A d, e \in Devices :
    /\ OnceIn(w, <<d, "interface_pre_save">>)
    /\ Ordered(w, <<d, "interface_pre_save">>, <<d, "device_pre_save">>)
    /\ Ordered(w, <<d, "device_pre_save">>, <<e, "own">>)

InLoad(w) ==
  \A d, e \in Devices :
    /\ OnceIn(w, <<d, "interface_post_load">>) /\ OnceIn(w, <<Banks, "own">>)
    /\ Ordered(w, <<d, "interface_post_load">>, <<d, "device_post_load">>)
    /\ Ordered(w, <<Banks, "own">>, <<d, "own">>)
    /\ Ordered(w, <<d, "own">>, <<e, "interface_post_load">>)

InExit(w) ==
  LET n == Len(notifiers.reset)
  IN  /\ \A i \in 2 .. n : w[n + 1 - i] = <<notifiers.reset[i], "own">>
      /\ \A i \in DOMAIN w : w[i][2] = "own" => i < n
      /\ n = 0 => w = <<>>
      /\ n # 0 => \A d, e \in Devices, h \in StopHooks :
           /\ OnceIn(w, <<d, h>>)
           /\ h # "interface_post_stop" => Ordered(w, <<d, h>>, <<d, "interface_post_stop">>)
           /\ d < e => Ordered(w, <<d, "interface_post_stop">>, <<e, "interface_pre_stop">>)
           /\ Ordered(w, <<d, "own">>, <<e, h>>)
      /\ \A i \in DOMAIN w : w[i][2] \in StopHooks \cup {"own"}

IsWordOf(o, w) ==
  /\ w \in Words
  /\ o # "exit" => \A i \in DOMAIN w : w[i][2] # "interface_post_stop"
  /\ o = "reset" => InReset(w)
  /\ o = "save" => InSave(w)
  /\ o = "load" => InLoad(w)
  /\ o = "exit" => InExit(w)

---------------------------------------------------------------------------------
(* The invariant of the life of the devices.                               *)

(* The lists of callbacks: those of the machine come first, in the exit    *)
(* list last, and after a load the banks first and the machine's last.     *)
HeadedBy(list, c) ==
  /\ list \in Lists /\ Len(list) # 0 /\ list[1] = c
  /\ \A i \in 2 .. Len(list) : list[i] \in Devices

Mirrors(e, r) == Len(e) = Len(r) /\ \A i \in 1 .. Len(r) : e[i] = r[Len(r) + 1 - i]

BanksFirstAllLast(list) ==
  /\ list \in Lists /\ Len(list) > 1 /\ list[1] = Banks /\ list[Len(list)] = AllDevices
  /\ \A i \in 2 .. (Len(list) - 1) : list[i] \in Devices

Empty == notifiers.reset = <<>> /\ notifiers.exit = <<>> /\ notifiers.presave = <<>>
Full  ==
  /\ HeadedBy(notifiers.reset, AllDevices) /\ HeadedBy(notifiers.presave, AllDevices)
  /\ Mirrors(notifiers.exit, notifiers.reset)

ListsAre ==
  /\ notifiers \in [reset : Lists, exit : Lists, presave : Lists, postload : Lists]
  /\ stage \in {"configure", "configuring", "memory"} => Empty /\ notifiers.postload = <<>>
  /\ stage = "notifiers" => Empty /\ HeadedBy(notifiers.postload, Banks)
  /\ stage \in {"resolve", "start"} => Full /\ HeadedBy(notifiers.postload, Banks)
  /\ stage = "running" => Full /\ BanksFirstAllLast(notifiers.postload)
  /\ stage \in {"exit", "over"} => Empty \/ Full

Stages ==
  {"configure", "configuring", "memory", "notifiers", "resolve", "start", "running", "exit", "over"}

OperationsAre ==
  /\ stage \in Stages
  /\ stage \in {"configure", "memory", "notifiers", "start", "over"} => op = "none"
  /\ stage = "configuring" => op = "configure"
  /\ stage = "resolve" => op = "resolve"
  /\ stage = "running" => op \in {"none", "nvram_load", "reset", "save", "load", "nvram_save"}
  /\ stage = "exit" => op = "exit"
  /\ todo \in Words /\ called \in Words
  /\ op = "none" => todo = <<>>
  /\ op # "none" => IsWordOf(op, called \o todo)

DevicesAre ==
  /\ stage \in {"configure", "configuring"} => m_machine = {}
  /\ stage \in {"memory", "notifiers", "resolve", "start", "running"} => m_machine = Devices
  /\ stage = "exit" /\ Empty => m_machine = Devices
  /\ stage = "exit" /\ Full =>
       m_machine = {d \in Devices : ~Holds(called, <<d, "interface_post_stop">>)}
  /\ stage = "over" /\ Full => m_machine = {}
  /\ stage \in {"configure", "configuring", "memory", "notifiers", "resolve"} =>
       started = {} /\ m_started = {}
  /\ stage = "start" => m_started = started
  /\ stage = "running" => m_started = Devices

LifeInv == owner \in Trees /\ IInv /\ ListsAre /\ OperationsAre /\ DevicesAre

(* What is held once is held.                                              *)
LEMMA OnceHolds ==
  ASSUME NEW w, NEW x, OnceIn(w, x) PROVE Holds(w, x)
BY DEF OnceIn, Holds

(* A list headed by the machine's callback has no other of the machine.    *)
LEMMA FirstForAll ==
  ASSUME NEW list, HeadedBy(list, AllDevices)
  PROVE  OneForAll(list, 1)
<1>1. Devices \subseteq Nat \ {0}
  BY DeviceStartAssumption DEF Devices
<1>2. list \in Lists /\ Len(list) # 0 /\ list[1] = AllDevices
      /\ \A i \in 2 .. Len(list) : list[i] \in Devices
  BY DEF HeadedBy
<1>3. Len(list) \in Nat /\ DOMAIN list = 1 .. Len(list)
  BY <1>2, Elements DEF Lists
<1>4. 1 \in DOMAIN list
  BY <1>2, <1>3
<1>5. ASSUME NEW i \in DOMAIN list, i # 1 PROVE list[i] # AllDevices
  <2>1. i \in 2 .. Len(list)
    BY <1>3, <1>5
  <2>2. list[i] \in Devices
    BY <1>2, <2>1
  <2>3. QED BY <1>1, <2>2 DEF AllDevices
<1>6. QED BY <1>2, <1>4, <1>5 DEF OneForAll

(* A word of a reset: the callbacks come after the hooks.                  *)
LEMMA ResetWord ==
  ASSUME owner \in Trees, HeadedBy(notifiers.reset, AllDevices)
  PROVE  IsWordOf("reset", Work("reset"))
<1> DEFINE list == notifiers.reset
           w == CallEach(list, reset)
<1>1. OneForAll(list, 1)
  BY FirstForAll
<1>2. /\ reset \in Words
      /\ \A x : Holds(reset, x) => \E d \in Devices, h \in ResetHooks : x = <<d, h>>
      /\ \A d \in Devices, h \in ResetHooks : OnceIn(reset, <<d, h>>)
      /\ \A a, b \in Devices, g, h \in ResetHooks :
           Linked(a, g, b, h) => Ordered(reset, <<a, g>>, <<b, h>>)
  BY ResetIs
<1>3. NoneOwn(reset)
  <2>1. \A i \in DOMAIN reset : Holds(reset, reset[i])
    BY DEF Holds
  <2>2. \A i \in DOMAIN reset : \E d \in Devices, h \in ResetHooks : reset[i] = <<d, h>>
    BY <1>2, <2>1
  <2>3. \A h \in ResetHooks : h # "own"
    BY DEF ResetHooks
  <2>4. \A i \in DOMAIN reset : reset[i][2] # "own"
    BY <2>2, <2>3
  <2>5. QED BY <1>2, <2>4 DEF NoneOwn
<1> HIDE DEF list
<1>4. /\ w \in Words
      /\ \A x : Holds(w, x) =>
           Holds(reset, x) \/ \E i \in DOMAIN list : i # 1 /\ x = <<list[i], "own">>
      /\ \A x : OnceIn(reset, x) => OnceIn(w, x)
      /\ \A x, y : Ordered(reset, x, y) /\ Holds(reset, x) /\ Holds(reset, y) => Ordered(w, x, y)
      /\ \A x, d : Holds(reset, x) => Ordered(w, x, <<d, "own">>)
  BY <1>1, <1>3, CallEachIs
<1> HIDE DEF w
<1>5. \A d \in Devices, h \in ResetHooks : OnceIn(w, <<d, h>>) /\ Holds(reset, <<d, h>>)
  BY <1>2, <1>4, OnceHolds
<1>6. \A a, b \in Devices, g, h \in ResetHooks :
        Linked(a, g, b, h) => Ordered(w, <<a, g>>, <<b, h>>)
  BY <1>2, <1>4, <1>5
<1>7. 1 \in Devices
  BY DeviceStartAssumption, DeviceLifecycleAssumption DEF Devices
<1>8. InReset(w)
  <2>1. ResetHooks = {"interface_pre_reset", "device_reset", "device_reset_after_children",
                      "interface_post_reset"}
    BY DEF ResetHooks
  <2>2. ASSUME NEW d \in Devices
        PROVE  /\ Ordered(w, <<d, "interface_pre_reset">>, <<d, "device_reset">>)
               /\ Ordered(w, <<d, "device_reset_after_children">>, <<d, "interface_post_reset">>)
    <3>1. /\ Linked(d, "interface_pre_reset", d, "device_reset")
          /\ Linked(d, "device_reset_after_children", d, "interface_post_reset")
      BY DEF Linked
    <3>2. QED BY <1>6, <2>1, <3>1
  <2>3. ASSUME NEW d \in Devices, NEW c \in Devices, owner[c] = d
        PROVE  /\ Ordered(w, <<d, "device_reset">>, <<c, "interface_pre_reset">>)
               /\ Ordered(w, <<c, "interface_post_reset">>, <<d, "device_reset_after_children">>)
    <3>1. /\ Linked(d, "device_reset", c, "interface_pre_reset")
          /\ Linked(c, "interface_post_reset", d, "device_reset_after_children")
      BY <2>3 DEF Linked
    <3>2. QED BY <1>6, <2>1, <3>1
  <2>4. \A d \in Devices : Ordered(w, <<1, "interface_post_reset">>, <<d, "own">>)
    BY <1>4, <1>5, <1>7, <2>1
  <2>5. QED BY <1>5, <2>2, <2>3, <2>4 DEF InReset
<1>9. \A i \in DOMAIN w : w[i][2] # "interface_post_stop"
  <2>1. \A i \in DOMAIN w : Holds(w, w[i])
    BY DEF Holds
  <2>2. \A h \in ResetHooks : h # "interface_post_stop"
    BY DEF ResetHooks
  <2>3. ASSUME NEW i \in DOMAIN w PROVE w[i][2] # "interface_post_stop"
    <3>1. CASE Holds(reset, w[i])
      BY <1>2, <2>2, <3>1
    <3>2. CASE \E k \in DOMAIN list : w[i] = <<list[k], "own">>
      BY <3>2
    <3>3. QED BY <1>4, <2>1, <3>1, <3>2
  <2>4. QED BY <2>3
<1>10. Work("reset") = w
  BY DEF Work, w, list
<1>11. QED BY <1>4, <1>8, <1>9, <1>10 DEF IsWordOf

(* The words of hooks that are called on one device after the other.       *)
LEMMA HooksDistinct ==
  /\ Distinct(config_complete) /\ Distinct(resolve_objects)
  /\ Distinct(pre_save) /\ Distinct(post_load) /\ Distinct(stop)
  /\ Distinct(<<"nvram_load">>) /\ Distinct(<<"nvram_save">>)
<1>1. Distinct(config_complete)
  BY DEF Distinct, config_complete, Hooks
<1>2. Distinct(resolve_objects)
  BY DEF Distinct, resolve_objects, Hooks
<1>3. Distinct(pre_save)
  BY DEF Distinct, pre_save, Hooks
<1>4. Distinct(post_load)
  BY DEF Distinct, post_load, Hooks
<1>5. Distinct(stop)
  BY DEF Distinct, stop, Hooks
<1>6. Distinct(<<"nvram_load">>) /\ Distinct(<<"nvram_save">>)
  BY DEF Distinct, Hooks
<1>7. QED BY <1>1, <1>2, <1>3, <1>4, <1>5, <1>6

(* A word of hooks holds nothing else.                                     *)
LEMMA OnlyHooks ==
  ASSUME NEW hooks, Distinct(hooks), NEW h, \A i \in DOMAIN hooks : hooks[i] # h
  PROVE  ForAll(hooks) \in Words /\ \A i \in DOMAIN ForAll(hooks) : ForAll(hooks)[i][2] # h
<1>1. /\ ForAll(hooks) \in Words
      /\ \A x : Holds(ForAll(hooks), x) => \E d \in Devices, i \in DOMAIN hooks : x = <<d, hooks[i]>>
  BY ForAllIs
<1>2. ASSUME NEW i \in DOMAIN ForAll(hooks) PROVE ForAll(hooks)[i][2] # h
  <2>1. Holds(ForAll(hooks), ForAll(hooks)[i])
    BY DEF Holds
  <2>2. PICK d \in Devices, k \in DOMAIN hooks : ForAll(hooks)[i] = <<d, hooks[k]>>
    BY <1>1, <2>1
  <2>3. ForAll(hooks)[i][2] = hooks[k]
    BY <2>2
  <2>4. QED BY <2>3
<1>3. QED BY <1>1, <1>2

Going(w)      == \A i \in DOMAIN w : w[i][2] # "interface_post_stop"
OwnIn(w, all) == \A x : Holds(w, x) => Holds(all, x) \/ x[2] = "own"

(* Callbacks among hooks that are not the last of an exit: neither are     *)
(* they.                                                                   *)
LEMMA StillGoing ==
  ASSUME NEW all, NEW w, OwnIn(w, all), Going(all)
  PROVE  Going(w)
<1>1. ASSUME NEW i \in DOMAIN w PROVE w[i][2] # "interface_post_stop"
  <2>1. Holds(w, w[i])
    BY DEF Holds
  <2>2. CASE Holds(all, w[i])
    BY <2>2 DEF Holds, Going
  <2>3. QED BY <2>1, <2>2 DEF OwnIn
<1>2. QED BY <1>1 DEF Going

(* What a save calls is as InSave says.                                    *)
LEMMA SaveWord ==
  ASSUME HeadedBy(notifiers.presave, AllDevices)
  PROVE  IsWordOf("save", Work("save"))
<1> DEFINE list == notifiers.presave
           all  == ForAll(pre_save)
           w    == CallEach(list, all)
<1>1. OneForAll(list, 1)
  BY FirstForAll
<1>2. /\ DOMAIN pre_save = 1 .. 2
      /\ pre_save[1] = "interface_pre_save" /\ pre_save[2] = "device_pre_save"
  BY DEF pre_save
<1>3. \A i \in DOMAIN pre_save : pre_save[i] # "own" /\ pre_save[i] # "interface_post_stop"
  BY <1>2
<1>4. /\ \A d \in Devices, i \in DOMAIN pre_save : OnceIn(all, <<d, pre_save[i]>>)
      /\ \A d, e \in Devices, i, j \in DOMAIN pre_save :
           d < e \/ (d = e /\ i < j) => Ordered(all, <<d, pre_save[i]>>, <<e, pre_save[j]>>)
  BY HooksDistinct, ForAllIs
<1>5. NoneOwn(all) /\ \A i \in DOMAIN all : all[i][2] # "interface_post_stop"
  BY <1>3, HooksDistinct, OnlyHooks DEF NoneOwn
<1>6. ASSUME NEW d \in Devices
      PROVE  /\ OnceIn(all, <<d, "interface_pre_save">>) /\ Holds(all, <<d, "interface_pre_save">>)
             /\ Holds(all, <<d, "device_pre_save">>)
             /\ Ordered(all, <<d, "interface_pre_save">>, <<d, "device_pre_save">>)
  <2>1. 1 \in DOMAIN pre_save /\ 2 \in DOMAIN pre_save /\ 1 < 2
    BY <1>2
  <2>2. OnceIn(all, <<d, pre_save[1]>>) /\ OnceIn(all, <<d, pre_save[2]>>)
        /\ Ordered(all, <<d, pre_save[1]>>, <<d, pre_save[2]>>)
    BY <1>4, <2>1
  <2>3. QED BY <1>2, <2>2, OnceHolds
<1> HIDE DEF list, all
<1>7. /\ w \in Words
      /\ \A x : Holds(w, x) => Holds(all, x) \/ \E i \in DOMAIN list : i # 1 /\ x = <<list[i], "own">>
      /\ \A x : OnceIn(all, x) => OnceIn(w, x)
      /\ \A x, y : Ordered(all, x, y) /\ Holds(all, x) /\ Holds(all, y) => Ordered(w, x, y)
      /\ \A x, d : Holds(all, x) => Ordered(w, x, <<d, "own">>)
  BY <1>1, <1>5, CallEachIs
<1> HIDE DEF w
<1>8. InSave(w)
  BY <1>6, <1>7 DEF InSave
<1>9. \A i \in DOMAIN w : w[i][2] # "interface_post_stop"
  <2>1. OwnIn(w, all) /\ Going(all)
    BY <1>5, <1>7 DEF OwnIn, Going
  <2>2. QED BY <2>1, StillGoing DEF Going
<1>10. Work("save") = w
  BY DEF Work, w, list, all
<1>11. QED BY <1>7, <1>8, <1>9, <1>10 DEF IsWordOf

(* After a load the banks are set first and the devices' hooks come last.  *)
LEMMA LoadWord ==
  ASSUME BanksFirstAllLast(notifiers.postload)
  PROVE  IsWordOf("load", Work("load"))
<1> DEFINE list == notifiers.postload
           p    == Len(list)
           all  == ForAll(post_load)
           w    == CallEach(list, all)
<1>1. N \in Nat /\ Devices = 1 .. N
  BY DeviceStartAssumption DEF Devices
<1>2. list \in Lists /\ Len(list) > 1 /\ list[1] = Banks /\ list[Len(list)] = AllDevices
      /\ \A i \in 2 .. (Len(list) - 1) : list[i] \in Devices
  BY DEF BanksFirstAllLast
<1>3. Len(list) \in Nat /\ DOMAIN list = 1 .. Len(list)
  BY <1>2, Elements DEF Lists
<1> HIDE DEF list
<1>4. /\ p \in Nat /\ p > 1 /\ DOMAIN list = 1 .. p /\ list \in Lists
      /\ list[1] = Banks /\ list[p] = AllDevices
      /\ \A i \in 2 .. (p - 1) : list[i] \in Devices
  BY <1>2, <1>3
<1> HIDE DEF p
<1>5. ASSUME NEW i \in 1 .. p PROVE i = 1 \/ i = p \/ list[i] \in Devices
  <2>1. i = 1 \/ i = p \/ i \in 2 .. (p - 1)
    BY <1>4
  <2>2. QED BY <1>4, <2>1
<1>6. Banks # AllDevices /\ Banks \notin Devices /\ AllDevices \notin Devices
  BY <1>1 DEF Banks, AllDevices
<1>7. OneForAll(list, p)
  BY <1>4, <1>5, <1>6 DEF OneForAll
<1>8. \A j \in DOMAIN list : list[j] = list[1] => j = 1
  BY <1>4, <1>5, <1>6
<1>9. /\ DOMAIN post_load = 1 .. 2
      /\ post_load[1] = "interface_post_load" /\ post_load[2] = "device_post_load"
  BY DEF post_load
<1>10. \A i \in DOMAIN post_load : post_load[i] # "own" /\ post_load[i] # "interface_post_stop"
  BY <1>9
<1>11. /\ \A d \in Devices, i \in DOMAIN post_load : OnceIn(all, <<d, post_load[i]>>)
       /\ \A d, e \in Devices, i, j \in DOMAIN post_load :
            d < e \/ (d = e /\ i < j) => Ordered(all, <<d, post_load[i]>>, <<e, post_load[j]>>)
  BY HooksDistinct, ForAllIs
<1>12. NoneOwn(all) /\ \A i \in DOMAIN all : all[i][2] # "interface_post_stop"
  BY <1>10, HooksDistinct, OnlyHooks DEF NoneOwn
<1>13. ASSUME NEW d \in Devices
       PROVE  /\ OnceIn(all, <<d, "interface_post_load">>) /\ Holds(all, <<d, "interface_post_load">>)
              /\ Holds(all, <<d, "device_post_load">>)
              /\ Ordered(all, <<d, "interface_post_load">>, <<d, "device_post_load">>)
  <2>1. 1 \in DOMAIN post_load /\ 2 \in DOMAIN post_load /\ 1 < 2
    BY <1>9
  <2>2. OnceIn(all, <<d, post_load[1]>>) /\ OnceIn(all, <<d, post_load[2]>>)
        /\ Ordered(all, <<d, post_load[1]>>, <<d, post_load[2]>>)
    BY <1>11, <2>1
  <2>3. QED BY <1>9, <2>2, OnceHolds
<1> HIDE DEF all
<1>14. /\ w \in Words
       /\ \A x : Holds(w, x) => Holds(all, x) \/ \E i \in DOMAIN list : i # p /\ x = <<list[i], "own">>
       /\ \A x : OnceIn(all, x) => OnceIn(w, x)
       /\ \A x, y : Ordered(all, x, y) /\ Holds(all, x) /\ Holds(all, y) => Ordered(w, x, y)
       /\ p = Len(list) => \A x, d : Holds(all, x) => Ordered(w, <<d, "own">>, x)
       /\ \A i \in DOMAIN list : i # p /\ (\A j \in DOMAIN list : list[j] = list[i] => j = i) =>
            /\ OnceIn(w, <<list[i], "own">>)
            /\ i = 1 => \A d : d # list[i] => Ordered(w, <<list[i], "own">>, <<d, "own">>)
  BY <1>7, <1>12, CallEachIs
<1> HIDE DEF w
<1>15. 1 \in DOMAIN list /\ 1 # p /\ p = Len(list)
  BY <1>4 DEF p
<1>16. OnceIn(w, <<Banks, "own">>) /\ \A d : d # Banks => Ordered(w, <<Banks, "own">>, <<d, "own">>)
  BY <1>4, <1>8, <1>14, <1>15
<1>17. InLoad(w)
  BY <1>6, <1>13, <1>14, <1>15, <1>16 DEF InLoad
<1>18. \A i \in DOMAIN w : w[i][2] # "interface_post_stop"
  <2>1. OwnIn(w, all) /\ Going(all)
    BY <1>12, <1>14 DEF OwnIn, Going
  <2>2. QED BY <2>1, StillGoing DEF Going
<1>19. Work("load") = w
  BY DEF Work, w, list, all
<1>20. QED BY <1>14, <1>17, <1>18, <1>19 DEF IsWordOf

(* The other operations call their hooks and nothing else.                 *)
LEMMA PlainWord ==
  ASSUME NEW o \in {"configure", "resolve", "nvram_load", "nvram_save"}
  PROVE  IsWordOf(o, Work(o))
<1> DEFINE Plain(hooks) ==
             /\ ForAll(hooks) \in Words
             /\ \A i \in DOMAIN ForAll(hooks) : ForAll(hooks)[i][2] # "interface_post_stop"
<1>1. Plain(config_complete)
  <2>1. \A i \in DOMAIN config_complete : config_complete[i] # "interface_post_stop"
    BY DEF config_complete
  <2>2. QED BY <2>1, HooksDistinct, OnlyHooks
<1>2. Plain(resolve_objects)
  <2>1. \A i \in DOMAIN resolve_objects : resolve_objects[i] # "interface_post_stop"
    BY DEF resolve_objects
  <2>2. QED BY <2>1, HooksDistinct, OnlyHooks
<1>3. Plain(<<"nvram_load">>)
  <2>1. \A i \in DOMAIN <<"nvram_load">> : <<"nvram_load">>[i] # "interface_post_stop"
    OBVIOUS
  <2>2. QED BY <2>1, HooksDistinct, OnlyHooks
<1>4. Plain(<<"nvram_save">>)
  <2>1. \A i \in DOMAIN <<"nvram_save">> : <<"nvram_save">>[i] # "interface_post_stop"
    OBVIOUS
  <2>2. QED BY <2>1, HooksDistinct, OnlyHooks
<1>5. \E hooks : Plain(hooks) /\ Work(o) = ForAll(hooks)
  <2> HIDE DEF Plain
  <2>1. CASE o = "configure"
    BY <1>1, <2>1 DEF Work
  <2>2. CASE o = "resolve"
    BY <1>2, <2>2 DEF Work
  <2>3. CASE o = "nvram_load"
    BY <1>3, <2>3 DEF Work
  <2>4. CASE o = "nvram_save"
    BY <1>4, <2>4 DEF Work
  <2>5. QED BY <2>1, <2>2, <2>3, <2>4
<1>6. PICK hooks : Plain(hooks) /\ Work(o) = ForAll(hooks)
  BY <1>5
<1>7. QED BY <1>6 DEF IsWordOf

(* A word of an exit: newest first the callbacks of the devices, and then  *)
(* each device is stopped; nothing at all before the callbacks are there.  *)
LEMMA ExitWord ==
  ASSUME Empty \/ Full, notifiers.exit \in Lists
  PROVE  IsWordOf("exit", Work("exit"))
<1> DEFINE list  == notifiers.exit
           first == notifiers.reset
           p     == Len(list)
           all   == ForAll(stop)
           w     == CallEach(list, all)
<1>1. Work("exit") = w
  BY DEF Work
<1>2. CASE Empty
  <2>1. first = <<>> /\ list = <<>>
    BY <1>2 DEF Empty
  <2>2. w = FlattenSeq(<<>>)
    BY <2>1 DEF CallEach
  <2>3. w = <<>>
    BY <2>2 DEF FlattenSeq
  <2> HIDE DEF w, first
  <2>4. w \in Words /\ Len(first) = 0 /\ DOMAIN w = {}
    BY <2>1, <2>3 DEF Words
  <2>5. InExit(w)
    BY <2>3, <2>4 DEF InExit, first
  <2>6. QED BY <1>1, <2>4, <2>5 DEF IsWordOf
<1>3. CASE Full
  <2>1. N \in Nat /\ Devices = 1 .. N
    BY DeviceStartAssumption DEF Devices
  <2>2. /\ first \in Lists /\ Len(first) # 0 /\ first[1] = AllDevices
        /\ \A i \in 2 .. Len(first) : first[i] \in Devices
    BY <1>3 DEF Full, HeadedBy
  <2>3. Len(list) = Len(first) /\ \A i \in 1 .. Len(first) : list[i] = first[Len(first) + 1 - i]
    BY <1>3 DEF Full, Mirrors
  <2>4. list \in Lists
    OBVIOUS
  <2>5. Len(list) \in Nat /\ DOMAIN list = 1 .. Len(list)
    BY <2>4, Elements DEF Lists
  <2> HIDE DEF list, first
  <2>6. /\ p \in Nat /\ p \in 1 .. p /\ p = Len(list) /\ p = Len(first) /\ DOMAIN list = 1 .. p
        /\ first[1] = AllDevices
        /\ \A i \in 2 .. p : first[i] \in Devices
        /\ \A i \in 1 .. p : list[i] = first[p + 1 - i]
    BY <2>2, <2>3, <2>5
  <2> HIDE DEF p
  <2>7. ASSUME NEW i \in 1 .. p, i # p PROVE list[i] # AllDevices
    <3>1. p + 1 - i \in 2 .. p
      BY <2>6, <2>7
    <3>2. list[i] \in Devices
      BY <2>6, <3>1
    <3>3. QED BY <2>1, <3>2 DEF AllDevices
  <2>8. list[p] = AllDevices
    <3>1. p + 1 - p = 1
      BY <2>6
    <3>2. QED BY <2>6, <3>1
  <2>9. OneForAll(list, p)
    BY <2>4, <2>6, <2>7, <2>8 DEF OneForAll
  <2>10. /\ DOMAIN stop = 1 .. 3 /\ stop[1] = "interface_pre_stop"
         /\ stop[2] = "device_stop" /\ stop[3] = "interface_post_stop"
    BY DEF stop
  <2>11. /\ \A d \in Devices, i \in DOMAIN stop : OnceIn(all, <<d, stop[i]>>)
         /\ \A d, e \in Devices, i, j \in DOMAIN stop :
              d < e \/ (d = e /\ i < j) => Ordered(all, <<d, stop[i]>>, <<e, stop[j]>>)
         /\ \A x : Holds(all, x) => \E d \in Devices, i \in DOMAIN stop : x = <<d, stop[i]>>
    BY HooksDistinct, ForAllIs
  <2>12. NoneOwn(all)
    <3>1. \A i \in DOMAIN stop : stop[i] # "own"
      BY <2>10
    <3>2. QED BY <3>1, HooksDistinct, OnlyHooks DEF NoneOwn
  <2>13. ASSUME NEW h \in StopHooks PROVE \E i \in DOMAIN stop : h = stop[i]
    BY <2>10 DEF StopHooks
  <2>14. ASSUME NEW d \in Devices, NEW h \in StopHooks
         PROVE  OnceIn(all, <<d, h>>) /\ Holds(all, <<d, h>>)
    BY <2>11, <2>13, OnceHolds
  <2>15. ASSUME NEW d \in Devices, NEW h \in StopHooks, h # "interface_post_stop"
         PROVE  Ordered(all, <<d, h>>, <<d, "interface_post_stop">>)
    <3>1. 3 \in DOMAIN stop /\ stop[3] = "interface_post_stop"
      BY <2>10
    <3>2. PICK i \in DOMAIN stop : h = stop[i]
      BY <2>13
    <3>3. i < 3
      BY <2>10, <2>15, <3>2
    <3>4. QED BY <2>11, <3>1, <3>2, <3>3
  <2>16. ASSUME NEW d \in Devices, NEW e \in Devices, d < e
         PROVE  Ordered(all, <<d, "interface_post_stop">>, <<e, "interface_pre_stop">>)
    <3>1. 3 \in DOMAIN stop /\ 1 \in DOMAIN stop
      BY <2>10
    <3>2. Ordered(all, <<d, stop[3]>>, <<e, stop[1]>>)
      BY <2>11, <2>16, <3>1
    <3>3. QED BY <2>10, <3>2
  <2> HIDE DEF all
  <2>17. /\ w \in Words
         /\ \A x : Holds(w, x) =>
              Holds(all, x) \/ \E i \in DOMAIN list : i # p /\ x = <<list[i], "own">>
         /\ \A x : OnceIn(all, x) => OnceIn(w, x)
         /\ \A x, y : Ordered(all, x, y) /\ Holds(all, x) /\ Holds(all, y) => Ordered(w, x, y)
         /\ p = Len(list) => \A x, d : Holds(all, x) => Ordered(w, <<d, "own">>, x)
    BY <2>9, <2>12, CallEachIs
  <2>18. /\ \A i \in 1 .. (p - 1) : w[i] = <<list[i], "own">>
         /\ \A i \in DOMAIN w : w[i][2] = "own" => i < p
    BY <2>6, <2>9, <2>12, CallEachEnds
  <2> HIDE DEF w
  <2>19. ASSUME NEW i \in 2 .. p PROVE w[p + 1 - i] = <<first[i], "own">>
    <3>1. p + 1 - i \in 1 .. (p - 1) /\ p + 1 - i \in 1 .. p /\ p + 1 - (p + 1 - i) = i
      BY <2>6
    <3>2. list[p + 1 - i] = first[i]
      BY <2>6, <3>1
    <3>3. QED BY <2>18, <3>1, <3>2
  <2>20. ASSUME NEW d \in Devices, NEW e \in Devices, NEW h \in StopHooks
         PROVE  /\ OnceIn(w, <<d, h>>)
                /\ h # "interface_post_stop" => Ordered(w, <<d, h>>, <<d, "interface_post_stop">>)
                /\ d < e => Ordered(w, <<d, "interface_post_stop">>, <<e, "interface_pre_stop">>)
                /\ Ordered(w, <<d, "own">>, <<e, h>>)
    <3>1. "interface_post_stop" \in StopHooks /\ "interface_pre_stop" \in StopHooks
      BY DEF StopHooks
    <3>2. OnceIn(w, <<d, h>>)
      BY <2>14, <2>17
    <3>3. h # "interface_post_stop" => Ordered(w, <<d, h>>, <<d, "interface_post_stop">>)
      BY <2>14, <2>15, <2>17, <3>1
    <3>4. d < e => Ordered(w, <<d, "interface_post_stop">>, <<e, "interface_pre_stop">>)
      BY <2>14, <2>16, <2>17, <3>1
    <3>5. Ordered(w, <<d, "own">>, <<e, h>>)
      BY <2>6, <2>14, <2>17
    <3>6. QED BY <3>2, <3>3, <3>4, <3>5
  <2>21. ASSUME NEW i \in DOMAIN w PROVE w[i][2] \in StopHooks \cup {"own"}
    <3>1. Holds(w, w[i])
      BY DEF Holds
    <3>2. CASE Holds(all, w[i])
      <4>1. PICK d \in Devices, k \in DOMAIN stop : w[i] = <<d, stop[k]>>
        BY <2>11, <3>2
      <4>2. stop[k] \in StopHooks
        BY <2>10 DEF StopHooks
      <4>3. QED BY <4>1, <4>2
    <3>3. CASE \E k \in DOMAIN list : w[i] = <<list[k], "own">>
      BY <3>3
    <3>4. QED BY <2>17, <3>1, <3>2, <3>3
  <2>22. InExit(w)
    <3>1. Len(notifiers.reset) = p /\ p # 0
      BY <2>6 DEF first
    <3>2. QED BY <2>18, <2>19, <2>20, <2>21, <3>1 DEF InExit, first
  <2>23. QED BY <1>1, <2>17, <2>22 DEF IsWordOf, w, list, all
<1>4. QED BY <1>2, <1>3

---------------------------------------------------------------------------------
(* The steps.  A word stays the word of its operation while the callbacks  *)
(* of an exit and the hierarchy stay.                                      *)
LEMMA SameWord ==
  ASSUME owner' = owner, op = "exit" => notifiers' = notifiers, op' = op,
         (called \o todo)' = called \o todo, IsWordOf(op, called \o todo)
  PROVE  IsWordOf(op, called \o todo)'
<1> DEFINE w == called \o todo
<1>1. IsWordOf(op, w) /\ w' = w
  OBVIOUS
<1> HIDE DEF w
<1>2. IsWordOf(op, w)'
  <2>1. w' \in Words /\ (op # "exit" => \A i \in DOMAIN w' : w'[i][2] # "interface_post_stop")
    BY <1>1 DEF IsWordOf
  <2>2. op = "reset" => InReset(w)'
    BY <1>1 DEF IsWordOf, InReset
  <2>3. op = "save" => InSave(w)'
    BY <1>1 DEF IsWordOf, InSave
  <2>4. op = "load" => InLoad(w)'
    BY <1>1 DEF IsWordOf, InLoad
  <2>5. op = "exit" => InExit(w)'
    BY <1>1 DEF IsWordOf, InExit
  <2>6. QED BY <2>1, <2>2, <2>3, <2>4, <2>5 DEF IsWordOf
<1>3. QED BY <1>2 DEF w

(* An operation that begins has all of its word to call.                   *)
LEMMA BeginsWord ==
  ASSUME NEW o, Begin(o), IsWordOf(o, Work(o)), owner' = owner,
         o = "exit" => notifiers' = notifiers
  PROVE  /\ op' = o /\ todo' \in Words /\ called' \in Words /\ called' = <<>>
         /\ IsWordOf(op, called \o todo)'
<1>1. op' = o /\ todo' = Work(o) /\ called' = <<>>
  BY DEF Begin
<1>2. Work(o) \in Words
  BY DEF IsWordOf
<1> DEFINE w == called \o todo
<1>3. w' = Work(o)
  <2>1. <<>> \o Work(o) = Work(o)
    BY <1>2 DEF Words
  <2>2. QED BY <1>1, <2>1
<1> HIDE DEF w
<1>4. IsWordOf(op, w)'
  <2>1. w' \in Words /\ (o # "exit" => \A i \in DOMAIN w' : w'[i][2] # "interface_post_stop")
    BY <1>3 DEF IsWordOf
  <2>2. o = "reset" => InReset(w)'
    BY <1>3 DEF IsWordOf, InReset
  <2>3. o = "save" => InSave(w)'
    BY <1>3 DEF IsWordOf, InSave
  <2>4. o = "load" => InLoad(w)'
    BY <1>3 DEF IsWordOf, InLoad
  <2>5. o = "exit" => InExit(w)'
    BY <1>3 DEF IsWordOf, InExit
  <2>6. QED BY <1>1, <2>1, <2>2, <2>3, <2>4, <2>5 DEF IsWordOf
<1>5. <<>> \in Words
  BY DEF Words
<1>6. QED BY <1>1, <1>2, <1>4, <1>5 DEF w

(* The word has called what it has called, and calls what it has yet to.   *)
LEMMA HeadIsNext ==
  ASSUME called \in Words, todo \in Words, todo # <<>>
  PROVE  /\ Head(todo) \in Calls
         /\ Len(called) \in Nat /\ Len(called) + 1 \in DOMAIN (called \o todo)
         /\ (called \o todo)[Len(called) + 1] = Head(todo)
         /\ \A i \in DOMAIN called :
              /\ i \in DOMAIN (called \o todo) /\ (called \o todo)[i] = called[i]
              /\ i \in Int /\ i <= Len(called)
<1>1. called \in Seq(Calls) /\ todo \in Seq(Calls)
  BY DEF Words
<1>2. Head(todo) \in Calls
  BY <1>1
<1>3. /\ Len(called) \in Nat /\ Len(called) + 1 \in DOMAIN (called \o todo)
      /\ (called \o todo)[Len(called) + 1] = Head(todo)
  BY <1>1
<1>4. \A i \in DOMAIN called :
        /\ i \in DOMAIN (called \o todo) /\ (called \o todo)[i] = called[i]
        /\ i \in Int /\ i <= Len(called)
  BY <1>1
<1>5. QED BY <1>2, <1>3, <1>4

(* A call leaves the word as it is.                                        *)
LEMMA CallKeepsWord ==
  ASSUME called \in Words, todo \in Words, todo # <<>>,
         called' = Append(called, Head(todo)), todo' = Tail(todo)
  PROVE  /\ called' \in Words /\ todo' \in Words
         /\ (called \o todo)' = called \o todo
         /\ \A x : Holds(called', x) <=> Holds(called, x) \/ x = Head(todo)
<1>1. called \in Seq(Calls) /\ todo \in Seq(Calls)
  BY DEF Words
<1>2. called' \in Seq(Calls) /\ todo' \in Seq(Calls)
  BY <1>1
<1>3. called' \o todo' = called \o todo
  BY <1>1, <1>2
<1>4. ASSUME NEW x PROVE Holds(called', x) <=> Holds(called, x) \/ x = Head(todo)
  <2> DEFINE n == Len(called)
  <2>1. n \in Nat /\ DOMAIN called = 1 .. n /\ DOMAIN called' = 1 .. (n + 1)
        /\ called'[n + 1] = Head(todo) /\ \A i \in 1 .. n : called'[i] = called[i]
    BY <1>1, <1>2
  <2>2. \A i \in 1 .. (n + 1) : i \in 1 .. n \/ i = n + 1
    BY <2>1
  <2>3. n + 1 \in 1 .. (n + 1) /\ \A i \in 1 .. n : i \in 1 .. (n + 1)
    BY <2>1
  <2> HIDE DEF n
  <2>4. QED BY <2>1, <2>2, <2>3 DEF Holds
<1>5. QED BY <1>2, <1>3, <1>4 DEF Words

(* The invariant of the passes is kept by each of their steps.             *)
LEMMA IInvStep ==
  ASSUME IInv, [Next]_vars PROVE IInv'
BY TypeOKStep, CountedStep, EndedStep, MinimalStep DEF IInv

(* A step in the life of the devices starts them as DeviceStart says, or   *)
(* leaves that alone.                                                      *)
LEMMA LifeStepStarts ==
  ASSUME [LifeNext]_allVars PROVE [Next]_vars /\ owner' = owner
<1>1. CASE UNCHANGED allVars
  BY <1>1 DEF allVars, lifeVars
<1>2. CASE Configure \/ Construct \/ InitializeMemory \/ RegisterNotifiers \/ Resolved
  BY <1>2 DEF Configure, Construct, InitializeMemory, RegisterNotifiers, Resolved, Unchanged
<1>3. CASE StartStep
  <2>1. owner' = owner /\ (Skip \/ BeginPass \/ EndPass \/ Start \/ Reschedule)
    BY <1>3 DEF StartStep
  <2>2. QED BY <2>1 DEF Next
<1>4. CASE Abandon \/ EndStart \/ StartFails
  <2>1. owner' = owner /\ (Circular \/ AllStarted \/ Error)
    BY <1>4 DEF Abandon, EndStart, StartFails
  <2>2. QED BY <2>1 DEF Next
<1>5. CASE Call \/ Throw
  BY <1>5 DEF Call, Throw
<1>6. CASE Finish \/ Request \/ Leave
  BY <1>6 DEF Finish, Request, Leave, Unchanged
<1>7. QED BY <1>1, <1>2, <1>3, <1>4, <1>5, <1>6 DEF LifeNext, Proceed

(* One more callback in a list, at its end or at its head.                 *)
LEMMA AppendIs ==
  ASSUME NEW list \in Lists, NEW d \in Callbacks
  PROVE  /\ Len(list) \in Nat /\ Append(list, d) \in Lists /\ Len(Append(list, d)) = Len(list) + 1
         /\ Append(list, d)[Len(list) + 1] = d
         /\ \A i \in 1 .. Len(list) : Append(list, d)[i] = list[i]
BY DEF Lists

(* A callback registered for the exit goes to the head of the list.        *)
LEMMA PrependIs ==
  ASSUME NEW list \in Lists, NEW d \in Callbacks
  PROVE  /\ Len(list) \in Nat /\ AddExit(list, d) \in Lists /\ Len(AddExit(list, d)) = Len(list) + 1
         /\ AddExit(list, d)[1] = d
         /\ \A i \in 1 .. Len(list) : AddExit(list, d)[i + 1] = list[i]
<1>1. <<d>> \in Seq(Callbacks) /\ Len(<<d>>) = 1 /\ <<d>>[1] = d
  OBVIOUS
<1> DEFINE u == <<d>>
<1>2. u \in Seq(Callbacks) /\ Len(u) = 1 /\ u[1] = d
  BY <1>1
<1> HIDE DEF u
<1>3. /\ u \o list \in Seq(Callbacks) /\ Len(list) \in Nat /\ Len(u \o list) = Len(u) + Len(list)
      /\ (u \o list)[1] = d
      /\ \A i \in 1 .. Len(list) : (u \o list)[Len(u) + i] = list[i]
  <2>1. list \in Seq(Callbacks)
    BY DEF Lists
  <2>2. u \in Seq(Callbacks)
    BY <1>2
  <2>3. /\ u \o list \in Seq(Callbacks) /\ Len(list) \in Nat /\ Len(u \o list) = Len(u) + Len(list)
        /\ \A i \in 1 .. Len(u) : (u \o list)[i] = u[i]
        /\ \A i \in 1 .. Len(list) : (u \o list)[Len(u) + i] = list[i]
    BY <2>1, <2>2
  <2>4. 1 \in 1 .. Len(u)
    BY <1>2
  <2>5. (u \o list)[1] = d
    BY <1>2, <2>3, <2>4
  <2>6. QED BY <2>3, <2>5
<1>4. Len(u \o list) = Len(list) + 1
  BY <1>2, <1>3
<1>5. \A i \in 1 .. Len(list) : (u \o list)[i + 1] = list[i]
  BY <1>2, <1>3
<1>6. AddExit(list, d) = u \o list
  BY DEF AddExit, u
<1>7. QED BY <1>3, <1>4, <1>5, <1>6 DEF Lists

(* The lists keep their shape as devices register.                         *)
LEMMA HeadedByMore ==
  ASSUME NEW list, NEW c, HeadedBy(list, c), NEW d \in Devices, d \in Callbacks
  PROVE  HeadedBy(Append(list, d), c)
<1>1. list \in Lists /\ Len(list) # 0 /\ list[1] = c
      /\ \A i \in 2 .. Len(list) : list[i] \in Devices
  BY DEF HeadedBy
<1>2. /\ Len(list) \in Nat /\ Append(list, d) \in Lists /\ Len(Append(list, d)) = Len(list) + 1
      /\ Append(list, d)[Len(list) + 1] = d
      /\ \A i \in 1 .. Len(list) : Append(list, d)[i] = list[i]
  BY <1>1, AppendIs
<1> DEFINE more == Append(list, d)
           n    == Len(list)
<1>3. more[1] = c
  BY <1>1, <1>2
<1>4. \A i \in 2 .. (n + 1) : i = n + 1 \/ (i \in 1 .. n /\ i \in 2 .. n)
  <2>1. n \in Nat
    BY <1>2
  <2> HIDE DEF n
  <2>2. QED BY <2>1
<1>5. \A i \in 2 .. (n + 1) : more[i] \in Devices
  BY <1>1, <1>2, <1>4
<1>6. more \in Lists /\ Len(more) = n + 1 /\ n + 1 # 0
  BY <1>2
<1> HIDE DEF more, n
<1>7. HeadedBy(more, c)
  BY <1>3, <1>5, <1>6 DEF HeadedBy
<1>8. QED BY <1>7 DEF more

(* The machine registers its own callback for a load when all devices have *)
(* registered theirs.                                                      *)
LEMMA AllLastAfterAll ==
  ASSUME NEW list, HeadedBy(list, Banks)
  PROVE  BanksFirstAllLast(Append(list, AllDevices))
<1>0. AllDevices \in Callbacks
  BY DeviceStartAssumption DEF AllDevices, Callbacks
<1>1. list \in Lists /\ Len(list) # 0 /\ list[1] = Banks
      /\ \A i \in 2 .. Len(list) : list[i] \in Devices
  BY DEF HeadedBy
<1> DEFINE more == Append(list, AllDevices)
           n    == Len(list)
<1>2. /\ n \in Nat /\ more \in Lists /\ Len(more) = n + 1
      /\ more[n + 1] = AllDevices
      /\ \A i \in 1 .. n : more[i] = list[i]
  BY <1>0, <1>1, AppendIs
<1>3. more[1] = Banks /\ n + 1 > 1 /\ (n + 1) - 1 = n
  BY <1>1, <1>2
<1>4. \A i \in 2 .. n : more[i] \in Devices
  BY <1>1, <1>2
<1> HIDE DEF more, n
<1>5. BanksFirstAllLast(more)
  BY <1>2, <1>3, <1>4 DEF BanksFirstAllLast
<1>6. QED BY <1>5 DEF more

(* The exit list stays the reverse of the reset list when a device         *)
(* registers in both.                                                      *)
LEMMA MirrorsMore ==
  ASSUME NEW e \in Lists, NEW r \in Lists, Mirrors(e, r), NEW d \in Callbacks
  PROVE  Mirrors(AddExit(e, d), Append(r, d))
<1> DEFINE n  == Len(r)
           e1 == AddExit(e, d)
           r1 == Append(r, d)
<1>1. /\ n \in Nat /\ Len(r1) = n + 1 /\ r1[n + 1] = d /\ \A i \in 1 .. n : r1[i] = r[i]
  BY AppendIs
<1>2. /\ Len(e) = n /\ \A i \in 1 .. n : e[i] = r[n + 1 - i]
  BY DEF Mirrors
<1>3. /\ Len(e1) = n + 1 /\ e1[1] = d /\ \A i \in 1 .. n : e1[i + 1] = e[i]
  BY <1>2, PrependIs
<1> HIDE DEF n, e1, r1
<1>4. ASSUME NEW i \in 1 .. (n + 1) PROVE e1[i] = r1[(n + 1) + 1 - i]
  <2>1. CASE i = 1
    BY <1>1, <1>3, <2>1
  <2>2. CASE i # 1
    <3>1. i - 1 \in 1 .. n /\ (i - 1) + 1 = i /\ n + 1 - (i - 1) \in 1 .. n
          /\ n + 1 - (i - 1) = (n + 1) + 1 - i
      BY <1>1, <2>2
    <3>2. e1[i] = e[i - 1] /\ e[i - 1] = r[n + 1 - (i - 1)]
      BY <1>2, <1>3, <3>1
    <3>3. r1[n + 1 - (i - 1)] = r[n + 1 - (i - 1)]
      BY <1>1, <3>1
    <3>4. QED BY <3>1, <3>2, <3>3
  <2>3. QED BY <2>1, <2>2
<1>5. Mirrors(e1, r1)
  BY <1>1, <1>3, <1>4 DEF Mirrors
<1>6. QED BY <1>5 DEF e1, r1

Registers == [reset : Lists, exit : Lists, presave : Lists, postload : Lists]

(* The lists after the steps that change them.                             *)
LEMMA OwnRegistered ==
  ASSUME NEW d \in Devices, RegisterOwn(d), notifiers \in Registers, Full,
         HeadedBy(notifiers.postload, Banks)
  PROVE  notifiers' \in Registers /\ Full' /\ HeadedBy(notifiers'.postload, Banks)
<1>1. d \in Callbacks
  BY DeviceStartAssumption DEF Devices, Callbacks
<1>2. /\ notifiers.reset \in Lists /\ notifiers.exit \in Lists
      /\ notifiers.presave \in Lists /\ notifiers.postload \in Lists
  BY DEF Registers
<1>3. /\ notifiers'.reset = Append(notifiers.reset, d)
      /\ notifiers'.exit = AddExit(notifiers.exit, d)
      /\ notifiers'.presave = Append(notifiers.presave, d)
      /\ notifiers'.postload = Append(notifiers.postload, d)
  BY DEF RegisterOwn, Registers
<1>4. /\ Append(notifiers.reset, d) \in Lists /\ AddExit(notifiers.exit, d) \in Lists
      /\ Append(notifiers.presave, d) \in Lists /\ Append(notifiers.postload, d) \in Lists
  BY <1>1, <1>2, AppendIs, PrependIs
<1>5. notifiers' \in Registers
  BY <1>4 DEF RegisterOwn, Registers
<1>6. Full'
  <2>1. HeadedBy(Append(notifiers.reset, d), AllDevices) /\ HeadedBy(Append(notifiers.presave, d), AllDevices)
    BY <1>1, HeadedByMore DEF Full
  <2>2. Mirrors(AddExit(notifiers.exit, d), Append(notifiers.reset, d))
    BY <1>1, <1>2, MirrorsMore DEF Full
  <2>3. QED BY <1>3, <2>1, <2>2 DEF Full
<1>7. HeadedBy(notifiers'.postload, Banks)
  BY <1>1, <1>3, HeadedByMore
<1>8. QED BY <1>5, <1>6, <1>7

(* Every step keeps the shape of the lists.                                *)
LEMMA ListsStep ==
  ASSUME LifeInv, [LifeNext]_allVars PROVE ListsAre'
<1>1. ListsAre /\ IInv
  BY DEF LifeInv
<1>2. /\ notifiers \in Registers
      /\ notifiers.reset \in Lists /\ notifiers.exit \in Lists
      /\ notifiers.presave \in Lists /\ notifiers.postload \in Lists
  BY <1>1 DEF ListsAre, Registers
<1>3. AllDevices \in Callbacks /\ Banks \in Callbacks
  BY DeviceStartAssumption DEF AllDevices, Banks, Callbacks
<1>4. CASE UNCHANGED allVars
  BY <1>1, <1>4 DEF allVars, lifeVars, ListsAre, Empty, Full
<1>5. CASE Configure \/ Construct \/ Resolved
  <2>1. notifiers' = notifiers /\ stage \in {"configure", "configuring", "resolve"}
        /\ stage' = (IF stage = "configure" THEN "configuring"
                     ELSE IF stage = "configuring" THEN "memory" ELSE "start")
    BY <1>5 DEF Configure, Construct, Resolved, Unchanged
  <2>2. QED BY <1>1, <2>1 DEF ListsAre, Empty, Full
<1>6. CASE InitializeMemory
  <2>1. stage = "memory" /\ Empty /\ notifiers.postload = <<>>
    BY <1>1, <1>6 DEF InitializeMemory, ListsAre
  <2>2. CASE notifiers' = [notifiers EXCEPT !.postload = Append(@, Banks)] /\ stage' = "notifiers"
    <3>1. Append(<<>>, Banks) \in Lists /\ Len(Append(<<>>, Banks)) = 1
          /\ Append(<<>>, Banks)[1] = Banks
      BY <1>3 DEF Lists
    <3>2. HeadedBy(Append(<<>>, Banks), Banks)
      BY <3>1 DEF HeadedBy
    <3>3. /\ notifiers'.reset = notifiers.reset /\ notifiers'.exit = notifiers.exit
          /\ notifiers'.presave = notifiers.presave
          /\ notifiers'.postload = Append(<<>>, Banks)
          /\ notifiers' \in Registers
      BY <1>2, <2>1, <2>2, <3>1 DEF Registers
    <3>4. QED BY <2>1, <2>2, <3>2, <3>3 DEF ListsAre, Empty, Registers
  <2>3. CASE notifiers' = notifiers /\ stage' = "exit"
    BY <1>1, <2>1, <2>3 DEF ListsAre, Empty
  <2>4. QED BY <1>6, <2>2, <2>3 DEF InitializeMemory, ToExit
<1>7. CASE RegisterNotifiers
  <2>1. stage = "notifiers" /\ Empty /\ HeadedBy(notifiers.postload, Banks) /\ stage' = "resolve"
    BY <1>1, <1>7 DEF RegisterNotifiers, ListsAre
  <2>2. /\ notifiers'.reset = Append(<<>>, AllDevices) /\ notifiers'.presave = Append(<<>>, AllDevices)
        /\ notifiers'.exit = AddExit(<<>>, AllDevices) /\ notifiers'.postload = notifiers.postload
    BY <1>2, <1>7, <2>1 DEF RegisterNotifiers, Empty, Registers
  <2>3. <<>> \in Lists /\ Len(<<>>) = 0
    BY DEF Lists
  <2>4. /\ Append(<<>>, AllDevices) \in Lists /\ Len(Append(<<>>, AllDevices)) = 1
        /\ Append(<<>>, AllDevices)[1] = AllDevices
    BY <1>3 DEF Lists
  <2>5. AddExit(<<>>, AllDevices) \in Lists
    BY <1>3, <2>3, PrependIs
  <2>6. notifiers' \in Registers
    BY <1>2, <1>7, <2>1, <2>4, <2>5 DEF RegisterNotifiers, Empty, Registers
  <2>7. HeadedBy(Append(<<>>, AllDevices), AllDevices)
    BY <2>4 DEF HeadedBy
  <2>8. Mirrors(<<>>, <<>>)
    BY DEF Mirrors
  <2>9. Mirrors(AddExit(<<>>, AllDevices), Append(<<>>, AllDevices))
    BY <1>3, <2>3, <2>8, MirrorsMore
  <2>10. Full'
    BY <2>2, <2>7, <2>9 DEF Full
  <2>11. QED BY <2>1, <2>2, <2>6, <2>10 DEF ListsAre, Registers
<1>8. CASE StartStep
  <2>1. stage = "start" /\ stage' = "start" /\ Full /\ HeadedBy(notifiers.postload, Banks)
    BY <1>1, <1>8 DEF StartStep, ListsAre
  <2>2. (next \in Devices /\ RegisterOwn(next)) \/ notifiers' = notifiers
    BY <1>8 DEF StartStep, Start, Reschedule
  <2>3. CASE next \in Devices /\ RegisterOwn(next)
    <3>1. notifiers' \in Registers /\ Full' /\ HeadedBy(notifiers'.postload, Banks)
      BY <1>2, <2>1, <2>3, OwnRegistered
    <3>2. QED BY <2>1, <3>1 DEF ListsAre, Registers
  <2>4. CASE notifiers' = notifiers
    BY <1>1, <2>1, <2>4 DEF ListsAre, Full
  <2>5. QED BY <2>2, <2>3, <2>4
<1>9. CASE EndStart
  <2>1. stage = "start" /\ stage' = "running" /\ Full /\ HeadedBy(notifiers.postload, Banks)
    BY <1>1, <1>9 DEF EndStart, ListsAre
  <2>2. /\ notifiers'.reset = notifiers.reset /\ notifiers'.exit = notifiers.exit
        /\ notifiers'.presave = notifiers.presave
        /\ notifiers'.postload = Append(notifiers.postload, AllDevices)
    BY <1>2, <1>9 DEF EndStart, Registers
  <2>3. Append(notifiers.postload, AllDevices) \in Lists
    BY <1>2, <1>3, AppendIs
  <2>4. notifiers' \in Registers
    BY <1>2, <1>9, <2>3 DEF EndStart, Registers
  <2>5. BanksFirstAllLast(notifiers'.postload)
    BY <2>1, <2>2, AllLastAfterAll
  <2>6. Full'
    BY <2>1, <2>2 DEF Full
  <2>7. QED BY <2>1, <2>4, <2>5, <2>6 DEF ListsAre, Registers
<1>10. CASE Call
  BY <1>1, <1>10 DEF Call, ListsAre, Empty, Full
<1>11. CASE Throw \/ Abandon \/ StartFails \/ Leave
  <2>1. notifiers' = notifiers /\ stage' = "exit" /\ (Empty \/ Full)
    <3>1. notifiers' = notifiers /\ stage' = "exit"
      BY <1>11 DEF Throw, Abandon, StartFails, Leave, ToExit, Unchanged
    <3>2. stage \in Stages
      BY DEF LifeInv, OperationsAre
    <3>3. QED BY <1>1, <3>1, <3>2 DEF ListsAre, Stages
  <2>2. (Empty \/ Full)'
    BY <2>1 DEF Empty, Full
  <2>3. QED BY <1>1, <2>1, <2>2 DEF ListsAre
<1>12. CASE Finish \/ Request
  <2>1. /\ notifiers' = notifiers /\ stage \in {"running", "exit"}
        /\ stage' = stage \/ stage' \in {"exit", "over"}
    BY <1>12 DEF Finish, Request, ToExit, Unchanged
  <2>2. Empty' = Empty /\ Full' = Full
    BY <2>1 DEF Empty, Full
  <2>3. Full \/ Empty
    BY <1>1, <2>1 DEF ListsAre
  <2>4. CASE stage' = stage
    BY <1>1, <2>1, <2>2, <2>4 DEF ListsAre
  <2>5. CASE stage' \in {"exit", "over"}
    BY <1>1, <2>1, <2>2, <2>3, <2>5 DEF ListsAre
  <2>6. QED BY <2>1, <2>4, <2>5
<1>13. QED BY <1>4, <1>5, <1>6, <1>7, <1>8, <1>9, <1>10, <1>11, <1>12 DEF LifeNext, Proceed

(* The lists on which the words of the operations depend.                  *)
LEMMA WordBegins ==
  ASSUME LifeInv, owner' = owner, NEW o, Begin(o),
         \/ o \in {"configure", "resolve", "nvram_load", "nvram_save"}
         \/ o \in {"reset", "save", "load"} /\ stage = "running"
         \/ o = "exit" /\ notifiers' = notifiers
  PROVE  /\ op' = o /\ todo' \in Words /\ called' \in Words /\ called' = <<>>
         /\ IsWordOf(op, called \o todo)'
<1>1. owner \in Trees /\ ListsAre /\ stage \in Stages
  BY DEF LifeInv, OperationsAre
<1>2. IsWordOf(o, Work(o))
  <2>1. CASE o \in {"configure", "resolve", "nvram_load", "nvram_save"}
    BY <2>1, PlainWord
  <2>2. CASE o \in {"reset", "save", "load"} /\ stage = "running"
    <3>1. HeadedBy(notifiers.reset, AllDevices) /\ HeadedBy(notifiers.presave, AllDevices) /\ BanksFirstAllLast(notifiers.postload)
      BY <1>1, <2>2 DEF ListsAre, Full
    <3>2. QED BY <1>1, <2>2, <3>1, ResetWord, SaveWord, LoadWord
  <2>3. CASE o = "exit"
    <3>1. Empty \/ Full
      BY <1>1 DEF ListsAre, Stages
    <3>2. notifiers.exit \in Lists
      BY <1>1 DEF ListsAre
    <3>3. QED BY <2>3, <3>1, <3>2, ExitWord
  <2>4. QED BY <2>1, <2>2, <2>3
<1>3. o = "exit" => notifiers' = notifiers
  OBVIOUS
<1>4. QED BY <1>2, <1>3, BeginsWord

(* The exit begins with nothing called.                                    *)
LEMMA ExitBegins ==
  ASSUME LifeInv, owner' = owner, notifiers' = notifiers, ToExit
  PROVE  OperationsAre' /\ stage' = "exit" /\ called' = <<>>
<1>1. stage' = "exit" /\ Begin("exit")
  BY DEF ToExit
<1>2. /\ op' = "exit" /\ todo' \in Words /\ called' \in Words /\ called' = <<>>
      /\ IsWordOf(op, called \o todo)'
  BY <1>1, WordBegins
<1>3. QED BY <1>1, <1>2 DEF OperationsAre, Stages

(* At rest nothing is left to call.                                        *)
LEMMA RestIs ==
  ASSUME Rest
  PROVE  op' = "none" /\ todo' = <<>> /\ todo' \in Words /\ called' \in Words
<1>1. <<>> \in Words
  BY DEF Words
<1>2. QED BY <1>1 DEF Rest

(* Every step keeps what was called and what is left to call a word of the *)
(* operation.                                                              *)
LEMMA OperationsStep ==
  ASSUME LifeInv, [LifeNext]_allVars PROVE OperationsAre'
<1>1. OperationsAre /\ ListsAre /\ owner' = owner
  BY LifeStepStarts DEF LifeInv
<1>2. CASE UNCHANGED allVars
  <2>1. UNCHANGED <<owner, stage, op, todo, called, notifiers>>
    BY <1>2 DEF allVars, lifeVars
  <2>2. op # "none" => IsWordOf(op, called \o todo)'
    BY <1>1, <2>1, SameWord DEF OperationsAre
  <2>3. QED BY <1>1, <2>1, <2>2 DEF OperationsAre
<1>3. CASE Configure
  <2>1. stage' = "configuring" /\ Begin("configure")
    BY <1>3 DEF Configure
  <2>2. QED BY <1>1, <2>1, WordBegins DEF OperationsAre, Stages
<1>4. CASE Construct \/ Resolved
  <2>1. stage' \in {"memory", "start"} /\ Rest
    BY <1>4 DEF Construct, Resolved
  <2>2. QED BY <2>1, RestIs DEF OperationsAre, Stages
<1>5. CASE InitializeMemory
  <2>1. CASE ToExit /\ notifiers' = notifiers
    BY <1>1, <2>1, ExitBegins
  <2>2. CASE stage' = "notifiers" /\ UNCHANGED <<op, todo, called>>
    <3>1. op = "none"
      BY <1>1, <1>5 DEF InitializeMemory, OperationsAre
    <3>2. QED BY <1>1, <2>2, <3>1 DEF OperationsAre, Stages
  <2>3. QED BY <1>5, <2>1, <2>2 DEF InitializeMemory
<1>6. CASE RegisterNotifiers
  <2>1. stage' = "resolve" /\ Begin("resolve")
    BY <1>6 DEF RegisterNotifiers
  <2>2. QED BY <1>1, <2>1, WordBegins DEF OperationsAre, Stages
<1>7. CASE StartStep
  <2>1. UNCHANGED <<stage, op, todo, called>> /\ stage = "start" /\ op = "none"
    BY <1>1, <1>7 DEF StartStep, OperationsAre
  <2>2. QED BY <1>1, <2>1 DEF OperationsAre
<1>8. CASE Abandon \/ StartFails \/ Throw \/ Leave
  <2>1. ToExit /\ notifiers' = notifiers
    BY <1>8 DEF Abandon, StartFails, Throw, Leave, Unchanged
  <2>2. QED BY <1>1, <2>1, ExitBegins
<1>9. CASE EndStart
  <2>1. stage' = "running" /\ Begin("nvram_load")
    BY <1>9 DEF EndStart
  <2>2. QED BY <1>1, <2>1, WordBegins DEF OperationsAre, Stages
<1>10. CASE Call
  <2>1. /\ todo # <<>> /\ called' = Append(called, Head(todo)) /\ todo' = Tail(todo)
        /\ UNCHANGED <<owner, stage, op, notifiers>>
    BY <1>10 DEF Call
  <2>2. called \in Words /\ todo \in Words
    BY <1>1 DEF OperationsAre
  <2>3. called' \in Words /\ todo' \in Words /\ (called \o todo)' = called \o todo
    BY <2>1, <2>2, CallKeepsWord
  <2>4. op # "none" /\ IsWordOf(op, called \o todo)
    BY <1>1, <2>1 DEF OperationsAre
  <2>5. IsWordOf(op, called \o todo)'
    BY <2>1, <2>3, <2>4, SameWord
  <2>6. QED BY <1>1, <2>1, <2>3, <2>4, <2>5 DEF OperationsAre
<1>11. CASE Request
  <2>1. PICK o \in {"reset", "save", "load", "nvram_save"} : Begin(o)
    BY <1>11 DEF Request
  <2>2. stage = "running" /\ stage' = "running"
    BY <1>11 DEF Request
  <2>3. /\ op' = o /\ todo' \in Words /\ called' \in Words
        /\ IsWordOf(op, called \o todo)'
    BY <1>1, <2>1, <2>2, WordBegins
  <2>4. QED BY <2>2, <2>3 DEF OperationsAre, Stages
<1>12. CASE Finish
  <2>1. notifiers' = notifiers /\ stage \in {"running", "exit"}
    BY <1>12 DEF Finish, Unchanged
  <2>2. CASE op = "nvram_load" /\ Begin("reset") /\ stage' = stage
    <3>1. stage = "running"
      BY <1>1, <2>1, <2>2 DEF OperationsAre
    <3>2. /\ op' = "reset" /\ todo' \in Words /\ called' \in Words
          /\ IsWordOf(op, called \o todo)'
      BY <1>1, <2>2, <3>1, WordBegins
    <3>3. QED BY <2>2, <3>1, <3>2 DEF OperationsAre, Stages
  <2>3. CASE ToExit
    BY <1>1, <2>1, <2>3, ExitBegins
  <2>4. CASE Rest /\ stage' = "over"
    BY <2>4, RestIs DEF OperationsAre, Stages
  <2>5. CASE op \notin {"nvram_load", "nvram_save", "exit"} /\ Rest /\ stage' = stage
    <3>1. stage = "running"
      BY <1>1, <2>1, <2>5 DEF OperationsAre
    <3>2. QED BY <2>5, <3>1, RestIs DEF OperationsAre, Stages
  <2>6. QED BY <1>12, <2>2, <2>3, <2>4, <2>5 DEF Finish
<1>13. QED
  BY <1>2, <1>3, <1>4, <1>5, <1>6, <1>7, <1>8, <1>9, <1>10, <1>11, <1>12 DEF LifeNext, Proceed

(* The devices with a machine, and those that are started.                 *)
LEMMA DevicesStep ==
  ASSUME LifeInv, [LifeNext]_allVars PROVE DevicesAre'
<1>1. OperationsAre /\ ListsAre /\ DevicesAre /\ IInv /\ owner' = owner
  BY LifeStepStarts DEF LifeInv
<1>2. stage \in Stages
  BY <1>1 DEF OperationsAre
<1>3. CASE UNCHANGED allVars
  BY <1>1, <1>3 DEF allVars, lifeVars, vars, DevicesAre, Empty, Full
<1>4. CASE Configure
  <2>1. stage = "configure" /\ stage' = "configuring" /\ UNCHANGED <<m_machine, m_started, started>>
    BY <1>4 DEF Configure, Unchanged, vars
  <2>2. QED BY <1>1, <2>1 DEF DevicesAre
<1>5. CASE Construct
  <2>1. /\ stage = "configuring" /\ stage' = "memory" /\ m_machine' = Devices
        /\ UNCHANGED <<m_started, started>>
    BY <1>5 DEF Construct, Unchanged, vars
  <2>2. QED BY <1>1, <2>1 DEF DevicesAre
<1>6. CASE RegisterNotifiers \/ Resolved
  <2>1. /\ stage \in {"notifiers", "resolve"}
        /\ stage' = IF stage = "notifiers" THEN "resolve" ELSE "start"
        /\ UNCHANGED <<m_machine, m_started, started>>
    BY <1>6 DEF RegisterNotifiers, Resolved, Unchanged, vars
  <2>2. QED BY <1>1, <2>1 DEF DevicesAre
<1>7. ASSUME stage \in {"memory", "notifiers", "resolve", "start", "running"},
             ToExit, UNCHANGED <<m_machine, notifiers>>
      PROVE  DevicesAre'
  <2>1. stage' = "exit" /\ called' = <<>> /\ m_machine' = Devices
    BY <1>1, <1>7 DEF ToExit, Begin, DevicesAre
  <2>2. \A x : ~Holds(<<>>, x)
    BY DEF Holds
  <2>3. m_machine' = {d \in Devices : ~Holds(called', <<d, "interface_post_stop">>)}
    BY <2>1, <2>2
  <2>4. QED BY <2>1, <2>3 DEF DevicesAre
<1>8. CASE InitializeMemory
  <2>1. stage = "memory" /\ UNCHANGED <<m_machine, m_started, started>>
    BY <1>8 DEF InitializeMemory, Unchanged, vars
  <2>2. CASE stage' = "notifiers"
    BY <1>1, <2>1, <2>2 DEF DevicesAre
  <2>3. CASE ToExit /\ UNCHANGED notifiers
    BY <1>7, <2>1, <2>3
  <2>4. QED BY <1>8, <2>2, <2>3 DEF InitializeMemory
<1>9. CASE StartStep
  <2>1. stage = "start" /\ stage' = "start" /\ m_machine' = m_machine
    BY <1>9 DEF StartStep
  <2>2. m_started' = started'
    <3>1. m_started = started
      BY <1>1, <2>1 DEF DevicesAre
    <3>2. CASE (Skip \/ BeginPass \/ EndPass \/ Reschedule) /\ UNCHANGED m_started
      BY <3>1, <3>2 DEF Skip, BeginPass, EndPass, Reschedule
    <3>3. CASE Start /\ m_started' = m_started \cup {next}
      BY <3>1, <3>3 DEF Start
    <3>4. QED BY <1>9, <3>2, <3>3 DEF StartStep
  <2>3. QED BY <1>1, <2>1, <2>2 DEF DevicesAre
<1>10. CASE Abandon \/ StartFails \/ Leave
  <2>1. stage \in {"start", "running"} /\ ToExit /\ UNCHANGED <<m_machine, notifiers>>
    BY <1>10 DEF Abandon, StartFails, Leave, Unchanged
  <2>2. QED BY <1>7, <2>1
<1>11. CASE EndStart
  <2>1. /\ stage = "start" /\ stage' = "running" /\ m_machine' = m_machine
        /\ m_started' = m_started /\ AllStarted
    BY <1>11 DEF EndStart
  <2>2. started = Devices
    BY <1>1, <2>1, NoFailureIsAll DEF AllStarted
  <2>3. QED BY <1>1, <2>1, <2>2 DEF DevicesAre
<1>12. CASE Throw
  <2>1. ToExit /\ UNCHANGED <<m_machine, notifiers>>
    BY <1>12 DEF Throw
  <2>2. stage \in {"resolve", "running"}
    BY <1>1, <1>2, <1>12 DEF Throw, OperationsAre, Stages
  <2>3. QED BY <1>7, <2>1, <2>2
<1>13. CASE Request
  <2>1. stage = "running" /\ stage' = "running" /\ UNCHANGED <<m_machine, m_started>>
    BY <1>13 DEF Request, Unchanged
  <2>2. QED BY <1>1, <2>1 DEF DevicesAre
<1>14. CASE Finish
  <2>1. /\ stage \in {"running", "exit"} /\ todo = <<>> /\ op # "none"
        /\ UNCHANGED <<m_machine, m_started, notifiers>>
    BY <1>14 DEF Finish, Unchanged
  <2>2. Empty' = Empty /\ Full' = Full
    BY <2>1 DEF Empty, Full
  <2>3. CASE stage = "running" /\ ToExit
    BY <1>7, <2>1, <2>3
  <2>4. CASE stage = "running" /\ stage' = stage
    BY <1>1, <2>1, <2>4 DEF DevicesAre
  <2>5. CASE stage = "exit" /\ stage' = "over"
    <3>1. op = "exit" /\ called \in Words /\ IsWordOf(op, called \o todo)
      BY <1>1, <2>1, <2>5 DEF OperationsAre
    <3>2. called \o todo = called
      BY <2>1, <3>1 DEF Words
    <3>3. ASSUME Full, NEW d \in Devices PROVE Holds(called, <<d, "interface_post_stop">>)
      <4>1. InExit(called)
        BY <3>1, <3>2 DEF IsWordOf
      <4>2. Len(notifiers.reset) # 0
        BY <3>3 DEF Full, HeadedBy
      <4>3. OnceIn(called, <<d, "interface_post_stop">>)
        BY <4>1, <4>2 DEF InExit, StopHooks
      <4>4. QED BY <4>3, OnceHolds
    <3>4. Full => m_machine = {}
      BY <1>1, <2>5, <3>3 DEF DevicesAre
    <3>5. QED BY <2>1, <2>2, <2>5, <3>4 DEF DevicesAre
  <2>6. QED
    <3>1. stage = "running" => op # "exit"
      BY <1>1 DEF OperationsAre
    <3>2. stage = "exit" => op = "exit"
      BY <1>1 DEF OperationsAre
    <3>3. QED BY <1>14, <2>1, <2>3, <2>4, <2>5, <3>1, <3>2 DEF Finish
<1>15. CASE Call
  <2>1. /\ todo # <<>> /\ called' = Append(called, Head(todo)) /\ todo' = Tail(todo)
        /\ UNCHANGED <<owner, stage, op, notifiers, started>>
        /\ m_started' = m_started \ {x \in Devices : x = Head(todo)[1]
                                                     /\ Head(todo)[2] = "interface_post_stop"}
        /\ m_machine' = IF Head(todo)[2] = "interface_post_stop"
                        THEN m_machine \ {Head(todo)[1]} ELSE m_machine
    BY <1>15 DEF Call, LeaveMachine, vars
  <2>2. /\ called \in Words /\ todo \in Words /\ op # "none"
        /\ IsWordOf(op, called \o todo)
    BY <1>1, <2>1 DEF OperationsAre
  <2>3. /\ Len(called) + 1 \in DOMAIN (called \o todo)
        /\ (called \o todo)[Len(called) + 1] = Head(todo) /\ Head(todo) \in Calls
        /\ \A x : Holds(called', x) <=> Holds(called, x) \/ x = Head(todo)
    BY <2>1, <2>2, CallKeepsWord, HeadIsNext
  <2>4. Empty' = Empty /\ Full' = Full
    BY <2>1 DEF Empty, Full
  <2>5. CASE op # "exit"
    <3>1. Head(todo)[2] # "interface_post_stop"
      BY <2>2, <2>3, <2>5 DEF IsWordOf
    <3>2. m_started' = m_started /\ m_machine' = m_machine
      BY <2>1, <3>1
    <3>3. stage # "exit" /\ stage # "over"
      BY <1>1, <2>2, <2>5 DEF OperationsAre
    <3>4. QED BY <1>1, <2>1, <3>2, <3>3 DEF DevicesAre
  <2>6. CASE op = "exit"
    <3>1. stage = "exit"
      BY <1>1, <1>2, <2>6 DEF OperationsAre, Stages
    <3>2. CASE Full
      <4>1. m_machine = {d \in Devices : ~Holds(called, <<d, "interface_post_stop">>)}
        BY <1>1, <3>1, <3>2 DEF DevicesAre
      <4>2. PICK a \in Callbacks, h \in Hooks : Head(todo) = <<a, h>>
        BY <2>3 DEF Calls
      <4>3. \A d : Holds(called', <<d, "interface_post_stop">>) <=>
                     \/ Holds(called, <<d, "interface_post_stop">>)
                     \/ d = a /\ h = "interface_post_stop"
        BY <2>3, <4>2
      <4>4. m_machine' = IF h = "interface_post_stop" THEN m_machine \ {a} ELSE m_machine
        <5>1. Head(todo)[1] = a /\ Head(todo)[2] = h
          BY <4>2
        <5>2. m_machine' = IF Head(todo)[2] = "interface_post_stop"
                           THEN m_machine \ {Head(todo)[1]} ELSE m_machine
          BY <2>1
        <5>3. QED BY <5>1, <5>2
      <4>5. m_machine' = {d \in Devices : ~Holds(called', <<d, "interface_post_stop">>)}
        BY <4>1, <4>3, <4>4
      <4>6. ~Empty
        BY <3>2 DEF Full, Empty, HeadedBy
      <4>7. QED BY <2>1, <2>4, <3>1, <4>5, <4>6 DEF DevicesAre
    <3>3. CASE Empty
      <4>1. Len(notifiers.reset) = 0
        BY <3>3 DEF Empty
      <4>2. called \o todo = <<>>
        BY <2>2, <2>6, <4>1 DEF IsWordOf, InExit
      <4>3. QED BY <2>3, <4>2
    <3>4. QED BY <1>1, <3>1, <3>2, <3>3 DEF ListsAre
  <2>7. QED BY <2>5, <2>6
<1>16. QED
  BY <1>3, <1>4, <1>5, <1>6, <1>8, <1>9, <1>10, <1>11, <1>12, <1>13, <1>14, <1>15
  DEF LifeNext, Proceed

(* The invariant of the life of the devices holds at first,                *)
LEMMA LifeInvInit == LifeInit => LifeInv
<1> SUFFICES ASSUME LifeInit PROVE LifeInv
  OBVIOUS
<1>1. Init /\ owner \in Trees /\ stage = "configure" /\ op = "none" /\ todo = <<>> /\ called = <<>>
      /\ m_machine = {} /\ m_started = {}
      /\ notifiers = [reset |-> <<>>, exit |-> <<>>, presave |-> <<>>, postload |-> <<>>]
  BY DEF LifeInit
<1>2. IInv
  BY <1>1, IInvInit
<1>3. <<>> \in Lists /\ <<>> \in Words
  BY DEF Lists, Words
<1>4. ListsAre
  BY <1>1, <1>3 DEF ListsAre, Empty
<1>5. OperationsAre
  BY <1>1, <1>3 DEF OperationsAre, Stages
<1>6. DevicesAre
  BY <1>1 DEF DevicesAre, Init
<1>7. QED BY <1>1, <1>2, <1>4, <1>5, <1>6 DEF LifeInv

(* is kept by every step,                                                  *)
LEMMA LifeInvStep == LifeInv /\ [LifeNext]_allVars => LifeInv'
<1> SUFFICES ASSUME LifeInv, [LifeNext]_allVars PROVE LifeInv'
  OBVIOUS
<1>1. [Next]_vars /\ owner' = owner
  BY LifeStepStarts
<1>2. IInv'
  BY <1>1, IInvStep DEF LifeInv
<1>3. owner' \in Trees
  BY <1>1 DEF LifeInv
<1>4. Trees' = Trees
  BY DEF Trees
<1>5. QED BY <1>2, <1>3, <1>4, ListsStep, OperationsStep, DevicesStep DEF LifeInv

(* and so always holds.                                                    *)
LEMMA LifeInvAlways == LifeSpec => []LifeInv
BY LifeInvInit, LifeInvStep, PTL DEF LifeSpec

---------------------------------------------------------------------------------
(* The machine starts its devices as DeviceStart says: what is proved of   *)
(* the passes holds of them in the life of the machine, whatever throws.   *)
THEOREM LifeStarts ==
  LifeSpec => Spec /\ []StartsWhatCanBe /\ KeepsPromise
<1>1. LifeInit => Init
  BY DEF LifeInit
<1>2. [LifeNext]_allVars => [Next]_vars
  BY LifeStepStarts
<1>3. LifeSpec => Spec
  BY <1>1, <1>2, PTL DEF LifeSpec, Spec
<1>4. QED BY <1>3, StartsExactly, PassesKeepPromise, PTL

(* No hook is called on a device that has no machine; the callbacks of the *)
(* devices find all of them as they were, and resets, saves and loads only *)
(* happen to devices that are all started.                                 *)
THEOREM CallsFind == LifeSpec => []CallsFindTheMachine
<1>1. ASSUME LifeInv PROVE CallsFindTheMachine
  <2>1. OperationsAre /\ ListsAre /\ DevicesAre
    BY <1>1 DEF LifeInv
  <2>2. SUFFICES ASSUME todo # <<>>, op # "configure"
        PROVE  /\ Head(todo)[1] \in Devices => Head(todo)[1] \in m_machine
               /\ Head(todo)[2] = "own" => m_machine = Devices
               /\ op \notin {"resolve", "exit"} => m_started = Devices
    BY DEF CallsFindTheMachine
  <2>3. /\ op # "none" /\ called \in Words /\ todo \in Words /\ stage \in Stages
        /\ IsWordOf(op, called \o todo)
    BY <2>1, <2>2 DEF OperationsAre
  <2>4. stage = IF op = "resolve" THEN "resolve" ELSE IF op = "exit" THEN "exit" ELSE "running"
    BY <2>1, <2>2, <2>3 DEF OperationsAre, Stages
  <2>5. CASE op # "exit"
    BY <2>1, <2>4, <2>5 DEF DevicesAre
  <2>6. CASE op = "exit"
    <3> DEFINE w == called \o todo
               n == Len(called)
    <3>1. InExit(w)
      BY <2>3, <2>6 DEF IsWordOf
    <3>2. /\ Head(todo) \in Calls /\ n \in Nat /\ n + 1 \in DOMAIN w /\ w[n + 1] = Head(todo)
          /\ \A i \in DOMAIN called : i \in DOMAIN w /\ w[i] = called[i] /\ i \in Int /\ i <= n
      BY <2>2, <2>3, HeadIsNext
    <3> HIDE DEF w, n
    <3>3. Full
      <4>1. SUFFICES ASSUME Empty PROVE FALSE
        BY <2>1, <2>4, <2>6 DEF ListsAre
      <4>2. Len(notifiers.reset) = 0
        BY <4>1 DEF Empty
      <4>3. w = <<>>
        BY <3>1, <4>2 DEF InExit
      <4>4. QED BY <3>2, <4>3
    <3>4. m_machine = {d \in Devices : ~Holds(called, <<d, "interface_post_stop">>)}
      BY <2>1, <2>4, <2>6, <3>3 DEF DevicesAre
    <3>5. /\ \A d, e \in Devices, h \in StopHooks :
               /\ OnceIn(w, <<d, h>>)
               /\ h # "interface_post_stop" => Ordered(w, <<d, h>>, <<d, "interface_post_stop">>)
               /\ Ordered(w, <<d, "own">>, <<e, h>>)
          /\ \A i \in DOMAIN w : w[i][2] \in StopHooks \cup {"own"}
          /\ \A i \in DOMAIN w : w[i][2] = "own" => i < Len(notifiers.reset)
          /\ \A i \in 2 .. Len(notifiers.reset) :
               w[Len(notifiers.reset) + 1 - i] = <<notifiers.reset[i], "own">>
          /\ Len(notifiers.reset) \in Nat
          /\ \A i \in 2 .. Len(notifiers.reset) : notifiers.reset[i] \in Devices
      <4>1. Len(notifiers.reset) # 0 /\ notifiers.reset \in Lists
            /\ \A i \in 2 .. Len(notifiers.reset) : notifiers.reset[i] \in Devices
        BY <3>3 DEF Full, HeadedBy
      <4>2. Len(notifiers.reset) \in Nat
        BY <4>1, Elements DEF Lists
      <4>3. QED BY <3>1, <4>1, <4>2 DEF InExit
    <3>6. PICK a \in Callbacks, h \in Hooks : Head(todo) = <<a, h>>
      BY <3>2 DEF Calls
    <3>7. w[n + 1] = <<a, h>> /\ Head(todo)[1] = a /\ Head(todo)[2] = h
      BY <3>2, <3>6
    <3>8. ASSUME NEW d \in Devices, Holds(called, <<d, "interface_post_stop">>)
          PROVE  \E i \in DOMAIN w : w[i] = <<d, "interface_post_stop">> /\ i \in Int /\ i <= n
      BY <3>2, <3>8 DEF Holds
    <3>9. CASE h = "own"
      <4>1. "interface_post_stop" \in StopHooks
        BY DEF StopHooks
      <4>2. a \in Devices
        <5> DEFINE m == Len(notifiers.reset)
        <5>1. m \in Nat /\ n + 1 < m
          BY <3>2, <3>5, <3>7, <3>9
        <5>2. m + 1 - (n + 1) \in 2 .. m /\ m + 1 - (m + 1 - (n + 1)) = n + 1
          <6>1. n \in Nat
            BY <3>2
          <6> HIDE DEF m
          <6>2. QED BY <5>1, <6>1
        <5>3. w[n + 1] = <<notifiers.reset[m + 1 - (n + 1)], "own">>
          BY <3>5, <5>2
        <5>4. QED BY <3>5, <3>7, <5>2, <5>3
      <4>3. ASSUME NEW d \in Devices PROVE ~Holds(called, <<d, "interface_post_stop">>)
        <5>1. SUFFICES ASSUME Holds(called, <<d, "interface_post_stop">>) PROVE FALSE
          OBVIOUS
        <5>2. PICK i \in DOMAIN w : w[i] = <<d, "interface_post_stop">> /\ i \in Int /\ i <= n
          BY <3>8, <5>1
        <5>3. Ordered(w, <<a, "own">>, <<d, "interface_post_stop">>)
          BY <3>5, <4>1, <4>2
        <5>4. n + 1 < i
          BY <3>2, <3>7, <3>9, <5>2, <5>3 DEF Ordered
        <5>5. QED BY <3>2, <5>2, <5>4
      <4>4. m_machine = Devices
        BY <3>4, <4>3
      <4>5. QED BY <2>6, <3>7, <4>2, <4>4
    <3>10. CASE h # "own"
      <4>1. h \in StopHooks
        BY <3>2, <3>5, <3>7, <3>10
      <4>2. ASSUME a \in Devices PROVE a \in m_machine
        <5>1. SUFFICES ASSUME Holds(called, <<a, "interface_post_stop">>) PROVE FALSE
          BY <3>4, <4>2
        <5>2. PICK i \in DOMAIN w : w[i] = <<a, "interface_post_stop">> /\ i \in Int /\ i <= n
          BY <3>8, <4>2, <5>1
        <5>3. CASE h = "interface_post_stop"
          <6>1. OnceIn(w, <<a, h>>)
            BY <3>5, <4>1, <4>2
          <6>2. i = n + 1
            BY <3>2, <3>7, <5>2, <5>3, <6>1 DEF OnceIn
          <6>3. QED BY <3>2, <5>2, <6>2
        <5>4. CASE h # "interface_post_stop"
          <6>1. Ordered(w, <<a, h>>, <<a, "interface_post_stop">>)
            BY <3>5, <4>1, <4>2, <5>4
          <6>2. n + 1 < i
            BY <3>2, <3>7, <5>2, <6>1 DEF Ordered
          <6>3. QED BY <3>2, <5>2, <6>2
        <5>5. QED BY <5>3, <5>4
      <4>3. QED BY <2>6, <3>7, <3>10, <4>2
    <3>11. QED BY <3>9, <3>10
  <2>7. QED BY <2>5, <2>6
<1>2. QED BY <1>1, LifeInvAlways, PTL

(* What a word holds once or in an order, is called so.                    *)
LEMMA CalledOnce ==
  ASSUME NEW d, NEW hook, OnceIn(called, <<d, hook>>) PROVE Once(d, hook)
<1>1. PICK i \in DOMAIN called :
        called[i] = <<d, hook>> /\ \A j \in DOMAIN called : called[j] = <<d, hook>> => j = i
  BY DEF OnceIn
<1>2. Positions(d, hook) = {i}
  BY <1>1 DEF Positions
<1>3. Cardinality({i}) = 1
  BY FS_Singleton
<1>4. QED BY <1>2, <1>3 DEF Once

(* What is in order is called in that order.                               *)
LEMMA CalledBefore ==
  ASSUME NEW d, NEW g, NEW e, NEW h, Ordered(called, <<d, g>>, <<e, h>>) PROVE Before(d, g, e, h)
BY DEF Ordered, Before, Positions

(* Every operation that comes to its end has called each hook of each      *)
(* device once and in the order that HooksInOrder states.                  *)
THEOREM HooksKeepTheirOrder == LifeSpec => []HooksInOrder
<1>1. ASSUME LifeInv PROVE HooksInOrder
  <2>1. OperationsAre /\ ListsAre
    BY <1>1 DEF LifeInv
  <2>2. SUFFICES ASSUME todo = <<>>, stage \in {"running", "exit"} PROVE HooksInOrder
    BY DEF HooksInOrder
  <2>3. called \in Words /\ (op # "none" => IsWordOf(op, called \o todo))
    BY <2>1 DEF OperationsAre
  <2>4. called \o todo = called
    BY <2>2, <2>3 DEF Words
  <2>5. op # "none" => IsWordOf(op, called)
    BY <2>3, <2>4
  <2>6. op = "reset" => ResetInOrder
    <3>1. SUFFICES ASSUME InReset(called) PROVE ResetInOrder
      BY <2>5 DEF IsWordOf
    <3>2. ASSUME NEW d \in Devices, NEW h \in ResetHooks PROVE Once(d, h)
      BY <3>1, <3>2, CalledOnce DEF InReset
    <3>3. ASSUME NEW d \in Devices
          PROVE  /\ Before(d, "interface_pre_reset", d, "device_reset")
                 /\ Before(d, "device_reset_after_children", d, "interface_post_reset")
                 /\ Before(1, "interface_post_reset", d, "own")
      BY <3>1, CalledBefore DEF InReset
    <3>4. ASSUME NEW d \in Devices, NEW c \in Sub(d)
          PROVE  /\ Before(d, "device_reset", c, "interface_pre_reset")
                 /\ Before(c, "interface_post_reset", d, "device_reset_after_children")
      BY <3>1, CalledBefore DEF InReset, Sub
    <3>5. QED BY <3>2, <3>3, <3>4 DEF ResetInOrder, ResetHooks
  <2>7. ASSUME op = "save", NEW d \in Devices, NEW e \in Devices
        PROVE  /\ Once(d, "interface_pre_save")
               /\ Before(d, "interface_pre_save", d, "device_pre_save")
               /\ Before(d, "device_pre_save", e, "own")
    <3>1. InSave(called)
      BY <2>5, <2>7 DEF IsWordOf
    <3>2. QED BY <3>1, CalledOnce, CalledBefore DEF InSave
  <2>8. ASSUME op = "load", NEW d \in Devices, NEW e \in Devices
        PROVE  /\ Once(d, "interface_post_load") /\ Once(Banks, "own")
               /\ Before(d, "interface_post_load", d, "device_post_load")
               /\ Before(Banks, "own", d, "own")
               /\ Before(d, "own", e, "interface_post_load")
    <3>1. InLoad(called)
      BY <2>5, <2>8 DEF IsWordOf
    <3>2. QED BY <3>1, CalledOnce, CalledBefore DEF InLoad
  <2>9. ASSUME op = "exit", notifiers.exit # <<>>, NEW d \in Devices, NEW e \in Devices
        PROVE  /\ Before(d, "own", e, "interface_pre_stop")
               /\ Before(d, "interface_post_stop", e, "interface_pre_stop") \/ d >= e
               /\ Once(d, "device_stop")
    <3>1. InExit(called)
      BY <2>5, <2>9 DEF IsWordOf
    <3>2. Len(notifiers.reset) # 0
      <4>1. Empty \/ Full
        BY <2>1, <2>2 DEF ListsAre
      <4>2. QED BY <2>9, <4>1 DEF Empty, Full, HeadedBy
    <3>3. /\ OnceIn(called, <<d, "device_stop">>)
          /\ Ordered(called, <<d, "own">>, <<e, "interface_pre_stop">>)
          /\ d < e => Ordered(called, <<d, "interface_post_stop">>, <<e, "interface_pre_stop">>)
      BY <3>1, <3>2 DEF InExit, StopHooks
    <3>4. d < e \/ d >= e
      BY DeviceStartAssumption DEF Devices
    <3>5. QED BY <3>3, <3>4, CalledOnce, CalledBefore
  <2>10. ASSUME op = "exit"
         PROVE  /\ \A i \in 2 .. Len(notifiers.reset) :
                     called[Len(notifiers.reset) + 1 - i] = <<notifiers.reset[i], "own">>
                /\ \A i \in DOMAIN called : called[i][2] = "own" => i < Len(notifiers.reset)
    BY <2>5, <2>10 DEF IsWordOf, InExit
  <2>11. QED BY <2>6, <2>7, <2>8, <2>9, <2>10 DEF HooksInOrder
<1>2. QED BY <1>1, LifeInvAlways, PTL

(* Of a machine that is over no device keeps a pointer.                    *)
NoneKeepsTheMachine == stage = "over" /\ notifiers.presave # <<>> => m_machine = {}

(* When the machine is over, and its devices were about to be started, no  *)
(* device still has it: what ExitReachesAll says of where the exit leads   *)
(* (running_machine::stop_all_devices).                                    *)
THEOREM ExitLeavesNone == LifeSpec => []NoneKeepsTheMachine
<1>1. LifeInv => NoneKeepsTheMachine
  BY DEF LifeInv, ListsAre, DevicesAre, Empty, NoneKeepsTheMachine
<1>2. QED BY <1>1, LifeInvAlways, PTL
================================================================================
