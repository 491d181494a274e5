------------------------------- MODULE StartOrder -------------------------------
(***************************************************************************)
(* What start_all_devices promises: the devices are started one at a time, *)
(* each after the devices it needs, until all are started; it gives up     *)
(* only when no device that is left can be started, or when one fails.     *)
(***************************************************************************)
CONSTANT Devices

VARIABLES
  needs,     \* the devices each device needs
  started,   \* the devices started
  outcome    \* "starting", and in the end "started", "circular" or "error"

Ready(d) == d \notin started /\ needs[d] \subseteq started

Init ==
  /\ needs \in [Devices -> SUBSET Devices]
  /\ started = {}
  /\ outcome = "starting"

Start ==
  /\ outcome = "starting"
  /\ \E d \in Devices : Ready(d) /\ started' = started \cup {d}
  /\ UNCHANGED <<needs, outcome>>

AllStarted ==
  /\ outcome = "starting" /\ started = Devices
  /\ outcome' = "started"
  /\ UNCHANGED <<needs, started>>

GiveUp ==
  /\ outcome = "starting" /\ started # Devices
  /\ \A d \in Devices : ~Ready(d)
  /\ outcome' = "circular"
  /\ UNCHANGED <<needs, started>>

Fail ==
  /\ outcome = "starting"
  /\ outcome' = "error"
  /\ UNCHANGED <<needs, started>>

Next == Start \/ AllStarted \/ GiveUp \/ Fail

Spec == Init /\ [][Next]_<<needs, started, outcome>>
=================================================================================
