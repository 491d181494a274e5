---------------------------- MODULE DeviceLifecycle ----------------------------
(***************************************************************************)
(* The life of the devices of a machine, from their configuration to their *)
(* stop: the hooks that device_t (source/emucore/device.cpp) calls on a    *)
(* device and on its interfaces, and the operations of running_machine     *)
(* (source/core/machine.cpp) that go over all devices, among them          *)
(* start_all_devices, which is DeviceStart.  Any hook may throw; then the  *)
(* machine exits.                                                          *)
(*                                                                         *)
(* A device registers a callback of its own for each occasion there is.    *)
(* The callbacks run in the order of their lists; for those of             *)
(* save_manager, which is outside the repository, that is assumed.         *)
(***************************************************************************)
EXTENDS DeviceStart, SequencesExt

CONSTANT EarlySets   \* bound: sets of devices that register their callbacks
                     \* before they find out that something is missing

(* A machine has a root device.                                            *)
ASSUME DeviceLifecycleAssumption == N # 0

AllDevices == 0      \* in a list, the machine's callback for all devices
Banks      == N + 1  \* memory_manager::bank_reattach

VARIABLES
  owner,             \* device -> owner; 0 for the root, which is device 1
  early,
  stage,             \* how far running_machine::run is
  op,                \* the operation on the devices that is in progress
  todo, called,      \* the hooks it has yet to call, and history: has called
  m_config_complete, m_machine, m_started,    \* devices with these set
  notifiers          \* lists of callbacks: reset, exit, presave, postload

lifeVars ==
  <<owner, early, stage, op, todo, called, m_config_complete, m_machine, m_started, notifiers>>
allVars  == <<vars, lifeVars>>

Trees == {t \in [Devices -> 0 .. N] : \A d \in Devices : t[d] < d /\ (t[d] = 0 <=> d = 1)}

(* Numbered in the order of the visit: what is below a device follows it.  *)
Preorder(t) ==
  \A d \in 2 .. N : LET line[x \in 0 .. N] == IF x = 0 THEN {} ELSE {x} \cup line[t[x]]
                    IN  t[d] \in line[d - 1]

LifeInit ==
  /\ Init
  /\ owner \in {t \in Trees : Preorder(t)} /\ early \in EarlySets
  /\ stage = "configure" /\ op = "none" /\ todo = <<>> /\ called = <<>>
  /\ m_config_complete = {} /\ m_machine = {} /\ m_started = {}
  /\ notifiers = [reset |-> <<>>, exit |-> <<>>, presave |-> <<>>, postload |-> <<>>]

---------------------------------------------------------------------------------
(* What each operation of a device calls: on the interfaces, and then on   *)
(* the device itself.  The interfaces of a device are one here.            *)

config_complete == <<"interface_config_complete", "device_config_complete">>
resolve_objects == <<"findit", "device_resolve_objects">>
pre_save        == <<"interface_pre_save", "device_pre_save">>
post_load       == <<"interface_post_load", "device_post_load">>
stop            == <<"interface_pre_stop", "device_stop", "interface_post_stop">>

(* Mutant: the hook for after the children is called before them.          *)
ResetBeforeChildren ==
  LET r[d \in Devices] ==
        << <<d, "interface_pre_reset">>, <<d, "device_reset">>, <<d, "device_reset_after_children">> >>
        \o FlattenSeq([c \in Devices |-> IF owner[c] = d THEN r[c] ELSE <<>>])
        \o << <<d, "interface_post_reset">> >>
  IN  r[1]

(* reset, which resets the subdevices too; the root's resets all.          *)
reset ==
  LET r[d \in Devices] ==
        << <<d, "interface_pre_reset">>, <<d, "device_reset">> >>
        \o FlattenSeq([c \in Devices |-> IF owner[c] = d THEN r[c] ELSE <<>>])
        \o << <<d, "device_reset_after_children">>, <<d, "interface_post_reset">> >>
  IN  r[1]

ForAll(hooks) == FlattenSeq([d \in Devices |-> [i \in DOMAIN hooks |-> <<d, hooks[i]>>]])

(* call_notifiers, and the callbacks of save_manager.                      *)
CallEach(list, all) ==
  FlattenSeq([i \in DOMAIN list |-> IF list[i] = AllDevices THEN all ELSE << <<list[i], "own">> >>])

(* A file of the NVRAM that is not there makes nvram_load a reset of it.   *)
Work(o) ==
  CASE o = "configure"  -> ForAll(config_complete)
    [] o = "resolve"    -> ForAll(resolve_objects)
    [] o = "nvram_load" -> ForAll(<<"nvram_load">>)
    [] o = "reset"      -> CallEach(notifiers.reset, reset)
    [] o = "save"       -> CallEach(notifiers.presave, ForAll(pre_save))
    [] o = "load"       -> CallEach(notifiers.postload, ForAll(post_load))
    [] o = "nvram_save" -> ForAll(<<"nvram_save">>)
    [] o = "exit"       -> CallEach(notifiers.exit, ForAll(stop))

Begin(o) == op' = o /\ todo' = Work(o) /\ called' = <<>>
Rest     == op' = "none" /\ todo' = <<>> /\ called' = <<>>

(* Mutant: a device that never started keeps the machine when it stops.    *)
StopIfStarted(d) == m_machine \ (m_started \cap {d})

(* m_machine after the end of stop.                                        *)
LeaveMachine(d) == m_machine \ {d}

Call ==
  /\ todo # <<>>
  /\ called' = Append(called, Head(todo)) /\ todo' = Tail(todo)
  /\ LET d == Head(todo)[1]  hook == Head(todo)[2]
     IN  /\ m_config_complete' = m_config_complete \cup
                                   {x \in Devices : x = d /\ hook = "device_config_complete"}
         /\ m_started' = m_started \ {x \in Devices : x = d /\ hook = "interface_post_stop"}
         /\ m_machine' = IF hook = "interface_post_stop" THEN LeaveMachine(d) ELSE m_machine
  /\ UNCHANGED <<owner, early, stage, op, notifiers, vars>>

(* A hook throws: run() catches it and calls the exit notifiers.           *)
ToExit == stage' = "exit" /\ Begin("exit")

Throw ==
  /\ todo # <<>> /\ op \notin {"configure", "exit"}
  /\ ToExit
  /\ UNCHANGED <<owner, early, m_config_complete, m_machine, m_started, notifiers, vars>>

---------------------------------------------------------------------------------
(* run() and start().                                                      *)

Unchanged(others) ==
  UNCHANGED <<owner, early, m_config_complete, vars>> /\ UNCHANGED others

Configure ==
  /\ stage = "configure" /\ stage' = "configuring" /\ Begin("configure")
  /\ Unchanged(<<m_machine, m_started, notifiers>>)

(* The constructor sets the machine on all devices.                        *)
Construct ==
  /\ stage = "configuring" /\ todo = <<>>
  /\ stage' = "memory" /\ Rest
  /\ m_machine' = Devices
  /\ Unchanged(<<m_started, notifiers>>)

(* memory_manager::initialize, at the end of which the banks register.     *)
InitializeMemory ==
  /\ stage = "memory"
  /\ \/ /\ stage' = "notifiers"
        /\ notifiers' = [notifiers EXCEPT !.postload = Append(@, Banks)]
        /\ UNCHANGED <<op, todo, called>>
     \/ ToExit /\ UNCHANGED notifiers
  /\ Unchanged(<<m_machine, m_started>>)

(* Mutant: exit notifiers are executed in the order registered, too.       *)
AddExitAtTail(list, callback) == Append(list, callback)

(* "Exit notifiers are added to the head, and executed in reverse order."  *)
AddExit(list, callback) == <<callback>> \o list

RegisterNotifiers ==
  /\ stage = "notifiers"
  /\ stage' = "resolve" /\ Begin("resolve")
  /\ notifiers' = [notifiers EXCEPT !.reset = Append(@, AllDevices), !.presave = Append(@, AllDevices),
                                    !.exit = AddExit(@, AllDevices)]
  /\ Unchanged(<<m_machine, m_started>>)

Resolved ==
  /\ stage = "resolve" /\ todo = <<>>
  /\ stage' = "start" /\ Rest
  /\ Unchanged(<<m_machine, m_started, notifiers>>)

RegisterOwn(d) ==
  notifiers' = [notifiers EXCEPT !.reset = Append(@, d), !.exit = AddExit(@, d),
                                 !.presave = Append(@, d), !.postload = Append(@, d)]

(* start_all_devices, one step of it.                                      *)
StartStep ==
  /\ stage = "start"
  /\ \/ /\ Skip \/ BeginPass \/ EndPass
        /\ UNCHANGED <<m_started, notifiers>>
     \/ /\ Start
        /\ m_started' = m_started \cup {next}
        /\ RegisterOwn(next)
     \/ /\ Reschedule
        /\ IF next \in early THEN RegisterOwn(next) ELSE UNCHANGED notifiers
        /\ UNCHANGED m_started
  /\ UNCHANGED <<owner, early, stage, op, todo, called, m_config_complete, m_machine>>

Abandon ==
  /\ stage = "start" /\ Circular
  /\ ToExit
  /\ UNCHANGED <<owner, early, m_config_complete, m_machine, m_started, notifiers>>

StartFails ==
  /\ stage = "start" /\ Error
  /\ ToExit
  /\ UNCHANGED <<owner, early, m_config_complete, m_machine, m_started, notifiers>>

(* All are started: registrations end, and the NVRAM is loaded.            *)
EndStart ==
  /\ stage = "start" /\ AllStarted
  /\ stage' = "running" /\ Begin("nvram_load")
  /\ notifiers' = [notifiers EXCEPT !.postload = Append(@, AllDevices)]
  /\ UNCHANGED <<owner, early, m_config_complete, m_machine, m_started>>

(* The end of an operation: a reset follows the NVRAM, the exit notifiers  *)
(* follow the last save of it.                                             *)
Finish ==
  /\ stage \in {"running", "exit"} /\ op # "none" /\ todo = <<>>
  /\ CASE op = "nvram_load" -> Begin("reset") /\ UNCHANGED stage
       [] op = "nvram_save" -> ToExit
       [] op = "exit"       -> Rest /\ stage' = "over"
       [] OTHER             -> Rest /\ UNCHANGED stage
  /\ Unchanged(<<m_machine, m_started, notifiers>>)

(* The machine runs, until it leaves the loop.                             *)
Request ==
  /\ stage = "running" /\ op = "none"
  /\ \E o \in {"reset", "save", "load", "nvram_save"} : Begin(o)
  /\ UNCHANGED stage
  /\ Unchanged(<<m_machine, m_started, notifiers>>)

(* Without the option to save the NVRAM it is left out.                    *)
Leave ==
  /\ stage = "running" /\ op = "none"
  /\ ToExit
  /\ Unchanged(<<m_machine, m_started, notifiers>>)

Proceed ==
  \/ Configure \/ Construct \/ InitializeMemory \/ RegisterNotifiers \/ Resolved
  \/ StartStep \/ Abandon \/ EndStart \/ Call \/ Finish

LifeNext == Proceed \/ StartFails \/ Throw \/ Request \/ Leave

(* run() goes on by itself, a request need not come.                       *)
LifeSpec == LifeInit /\ [][LifeNext]_allVars /\ WF_allVars(Proceed)

---------------------------------------------------------------------------------
(* No hook is called on a device that has no machine, the callbacks of the *)
(* devices find all of them as they were, and resets, saves and loads only *)
(* happen to devices that are all started.                                 *)
CallsFindTheMachine ==
  todo # <<>> /\ op # "configure" =>
    LET d == Head(todo)[1]
    IN  /\ d \in Devices => d \in m_machine
        /\ Head(todo)[2] = "own" => m_machine = Devices
        /\ op \notin {"resolve", "exit"} => m_started = Devices

Positions(d, hook)   == {i \in DOMAIN called : called[i] = <<d, hook>>}
Once(d, hook)        == Cardinality(Positions(d, hook)) = 1
Before(d, g, e, h)   == \A i \in Positions(d, g), j \in Positions(e, h) : i < j
Sub(d)               == {c \in Devices : owner[c] = d}

(* Each operation that comes to its end has called each hook of each       *)
(* device once and in the order the devices rely on: in a reset, a device  *)
(* before its subdevices and, in the hook for that, after them, and then   *)
(* its own callback; in a save, all hooks before the callbacks that        *)
(* devices registered; in a load, the banks, these callbacks, the hooks;   *)
(* in an exit, these callbacks, newest first, and then the hooks.          *)
ResetInOrder ==
  \A d \in Devices :
    /\ \A h \in {"interface_pre_reset", "device_reset", "device_reset_after_children",
                 "interface_post_reset"} : Once(d, h)
    /\ Before(d, "interface_pre_reset", d, "device_reset")
    /\ Before(d, "device_reset_after_children", d, "interface_post_reset")
    /\ \A c \in Sub(d) : /\ Before(d, "device_reset", c, "interface_pre_reset")
                         /\ Before(c, "interface_post_reset", d, "device_reset_after_children")
    /\ Before(1, "interface_post_reset", d, "own")

HooksInOrder ==
  todo = <<>> /\ stage \in {"running", "exit"} =>
    /\ op = "reset" => ResetInOrder
    /\ op = "save" => \A d, e \in Devices : /\ Once(d, "interface_pre_save")
                                           /\ Before(d, "interface_pre_save", d, "device_pre_save")
                                           /\ Before(d, "device_pre_save", e, "own")
    /\ op = "load" => \A d, e \in Devices : /\ Once(d, "interface_post_load") /\ Once(Banks, "own")
                                           /\ Before(d, "interface_post_load", d, "device_post_load")
                                           /\ Before(Banks, "own", d, "own")
                                           /\ Before(d, "own", e, "interface_post_load")
    /\ op = "exit" /\ notifiers.exit # <<>> => \A d, e \in Devices :
                        /\ Before(d, "own", e, "interface_pre_stop")
                        /\ Before(d, "interface_post_stop", e, "interface_pre_stop") \/ d >= e
                        /\ Once(d, "device_stop")
    /\ op = "exit" =>
         LET n == Len(notifiers.reset)
         IN  /\ \A i \in 2 .. n : called[n + 1 - i] = <<notifiers.reset[i], "own">>
             /\ \A i \in DOMAIN called : called[i][2] = "own" => i < n

(* Once the devices are about to be started, no failure and no exit leaves *)
(* a device that still has a machine, whether it was started or not: the   *)
(* devices outlive the machine.                                            *)
ExitReachesAll == (stage = "exit" /\ notifiers.presave # <<>>) ~> (stage = "over" /\ m_machine = {})

(* Passes over the devices are not repeated for ever, whatever the devices *)
(* wait for: each is better than the one before, or the last.              *)
StartupEnds == (stage = "start") ~> (stage \in {"running", "exit"})
=================================================================================
