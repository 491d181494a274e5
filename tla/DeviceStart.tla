------------------------------ MODULE DeviceStart ------------------------------
(***************************************************************************)
(* running_machine::start_all_devices of source/core/machine.cpp, which    *)
(* starts the devices in passes over the hierarchy: device_t::start throws *)
(* device_missing_dependencies while a device that is needed is not        *)
(* started, and the device is tried again in the next pass.                *)
(*                                                                         *)
(* The devices are numbered in the order in which device_iterator visits   *)
(* them.  What a device needs is up to its device_start, which is outside  *)
(* the repository: any relation is considered.                             *)
(***************************************************************************)
EXTENDS Integers

CONSTANT N    \* the number of devices

ASSUME DeviceStartAssumption == N \in Nat

Devices == 1 .. N

VARIABLES
  needs,               \* the devices each device needs to be started
  started,             \* the devices with m_started
  next,                \* the device the pass has come to; 0 between passes
  failed_starts,
  last_failed_starts,
  outcome              \* whether the loop goes on, or how it ended

vars == <<needs, started, next, failed_starts, last_failed_starts, outcome>>

Init ==
  /\ needs \in [Devices -> SUBSET Devices]
  /\ started = {}
  /\ next = 0
  /\ failed_starts = 0 /\ last_failed_starts = -1
  /\ outcome = "starting"

(* A device that is started, in an earlier pass, is passed over.           *)
Skip ==
  /\ outcome = "starting" /\ next \in started
  /\ next' = next + 1
  /\ UNCHANGED <<needs, started, failed_starts, last_failed_starts, outcome>>

(* Mutant: the device is marked as started before its dependencies are.    *)
MarkAlways ==
  /\ outcome = "starting" /\ next \in Devices \ started
  /\ started' = started \cup {next}
  /\ next' = next + 1
  /\ UNCHANGED <<needs, failed_starts, last_failed_starts, outcome>>

(* device_t::start gets to its end.                                        *)
Start ==
  /\ outcome = "starting" /\ next \in Devices \ started
  /\ needs[next] \subseteq started
  /\ started' = started \cup {next}
  /\ next' = next + 1
  /\ UNCHANGED <<needs, failed_starts, last_failed_starts, outcome>>

(* It throws device_missing_dependencies.                                  *)
Reschedule ==
  /\ outcome = "starting" /\ next \in Devices \ started
  /\ ~(needs[next] \subseteq started)
  /\ failed_starts' = failed_starts + 1
  /\ next' = next + 1
  /\ UNCHANGED <<needs, started, last_failed_starts, outcome>>

(* It throws anything else, as when a device registers no state to save.   *)
Error ==
  /\ outcome = "starting" /\ next \in Devices \ started
  /\ outcome' = "error"
  /\ UNCHANGED <<needs, started, next, failed_starts, last_failed_starts>>

---------------------------------------------------------------------------------
BeginPass ==
  /\ outcome = "starting" /\ next = 0 /\ last_failed_starts # 0
  /\ failed_starts' = 0
  /\ next' = 1
  /\ UNCHANGED <<needs, started, last_failed_starts, outcome>>

(* Mutant: a pass without progress is followed by another one.             *)
AlwaysRepeat ==
  /\ outcome = "starting" /\ next = N + 1
  /\ last_failed_starts' = failed_starts
  /\ next' = 0
  /\ UNCHANGED <<needs, started, failed_starts, outcome>>

(* "Each iteration should reduce the number of failed starts."             *)
EndPass ==
  /\ outcome = "starting" /\ next = N + 1
  /\ failed_starts # last_failed_starts
  /\ last_failed_starts' = failed_starts
  /\ next' = 0
  /\ UNCHANGED <<needs, started, failed_starts, outcome>>

(* Mutant: one failure like in the pass before is enough to give up.       *)
GiveUpEarly ==
  /\ outcome = "starting" /\ next = N + 1
  /\ failed_starts >= last_failed_starts - 1 /\ failed_starts > 0
  /\ outcome' = "circular"
  /\ UNCHANGED <<needs, started, next, failed_starts, last_failed_starts>>

Circular ==
  /\ outcome = "starting" /\ next = N + 1
  /\ failed_starts = last_failed_starts
  /\ outcome' = "circular"
  /\ UNCHANGED <<needs, started, next, failed_starts, last_failed_starts>>

AllStarted ==
  /\ outcome = "starting" /\ next = 0 /\ last_failed_starts = 0
  /\ outcome' = "started"
  /\ UNCHANGED <<needs, started, next, failed_starts, last_failed_starts>>

Next == Skip \/ Start \/ Reschedule \/ Error \/ BeginPass \/ EndPass \/ Circular \/ AllStarted

Spec == Init /\ [][Next]_vars

---------------------------------------------------------------------------------
TypeOK ==
  /\ needs \in [Devices -> SUBSET Devices]
  /\ started \subseteq Devices
  /\ next \in 0 .. (N + 1)
  /\ failed_starts \in 0 .. N /\ last_failed_starts \in (0 .. N) \cup {-1}
  /\ outcome \in {"starting", "started", "circular", "error"}

(* The devices that some order of starting can start: the least set that   *)
(* contains each device whose needs it contains.                           *)
Closed(S)  == \A d \in Devices : needs[d] \subseteq S => d \in S
Startable  == {d \in Devices : \A S \in SUBSET Devices : Closed(S) => d \in S}

(* The passes are as good as any order: "Circular dependency in device     *)
(* startup!" is raised only when no order starts all the devices, and then *)
(* everything that can be started has been; no device is started too soon. *)
StartsWhatCanBe ==
  /\ started \subseteq Startable
  /\ outcome = "started" => started = Devices
  /\ outcome = "circular" => started = Startable /\ Startable # Devices

(* The passes implement the order they stand for.                          *)
Promise == INSTANCE StartOrder
KeepsPromise == Promise!Spec
=================================================================================
