----------------------------- MODULE RunningMachine -----------------------------
(***************************************************************************)
(* class running_machine of source/core/machine.cpp: the phases a machine  *)
(* goes through, the loop that runs it, and the requests (exit, reset,     *)
(* pause, state save, state load) that drivers, devices and the user       *)
(* interface make while it runs.                                           *)
(*                                                                         *)
(* Everything runs on one thread: a request is made by a callback inside a *)
(* timeslice (the machine runs), inside a frame update (it is paused) or   *)
(* inside a reset, and is acted upon when control is back in the loop.     *)
(* The scheduler is not part of the repository; of its timers the model    *)
(* keeps the soft reset timer and the number of anonymous timers, which    *)
(* make a state unfit to be saved (can_save).                              *)
(***************************************************************************)
EXTENDS Naturals

CONSTANTS
  Files, AutoFile,    \* state files; the one of the automatic save
  NoFile,
  Autosave,           \* whether the machine is set to save on exit
  StateOption,        \* the file the options ask to load, or NoFile
  Second,             \* timeslices in a second, at least
  MaxAnon, MaxCalls   \* bounds: anonymous timers at once; requests made

ASSUME RunningMachineAssumption ==
  /\ AutoFile \in Files /\ NoFile \notin Files
  /\ StateOption \in Files \cup {NoFile}
  /\ Autosave \in BOOLEAN
  /\ Second \in Nat /\ MaxAnon \in Nat /\ MaxCalls \in Nat

VARIABLES
  phase,               \* m_current_phase
  control,             \* where run() is
  m_paused,
  held,                \* history: the caller paused the machine on what is pending
  m_hard_reset_pending,
  m_exit_pending,
  schedule,            \* m_saveload_schedule: NONE, SAVE or LOAD
  file,                \* m_saveload_pending_file
  waited,              \* timeslices since m_saveload_schedule_time
  started,             \* whether any time has passed
  reset_timer,         \* whether m_soft_reset_timer is armed
  anonymous,           \* anonymous timers pending in the scheduler
  transfers,           \* state files written or read so far
  calls                \* requests made so far

pauseVars   == <<m_paused, held>>
requestVars == <<schedule, file, waited>>
timerVars   == <<reset_timer, anonymous, started>>
vars == <<phase, control, m_paused, held, m_hard_reset_pending, m_exit_pending,
          schedule, file, waited, started, reset_timer, anonymous, transfers, calls>>

Init ==
  /\ phase = "PREINIT" /\ control = "start"
  /\ m_paused = FALSE /\ held = FALSE
  /\ m_hard_reset_pending = FALSE /\ m_exit_pending = FALSE
  /\ schedule = "NONE" /\ file = NoFile /\ waited = 0
  /\ started = FALSE /\ reset_timer = FALSE /\ anonymous = 0
  /\ transfers = 0 /\ calls = 0

---------------------------------------------------------------------------------
(* Saving and loading.                                                     *)

Unschedule == schedule' = "NONE" /\ file' = NoFile /\ waited' = 0

(* handle_saveload with the schedule op and the file f, after w timeslices.*)
(* A file that cannot be opened, read or written ends the operation with a *)
(* message like a success.  Loading brings back the timers and the time    *)
(* that were saved.                                                        *)
Restored(op) ==
  IF op = "LOAD" THEN reset_timer' \in BOOLEAN /\ started' \in BOOLEAN
                 ELSE UNCHANGED <<reset_timer, started>>

Transfer(op) ==
  /\ anonymous = 0
  /\ transfers' = transfers + 1
  /\ Unschedule
  /\ Restored(op)

GiveUp(w) ==
  /\ anonymous > 0 /\ w > Second
  /\ Unschedule
  /\ UNCHANGED <<transfers, reset_timer, started>>

Postpone(op, f, w) ==
  /\ anonymous > 0 /\ w <= Second
  /\ schedule' = op /\ file' = f /\ waited' = w
  /\ UNCHANGED <<transfers, reset_timer, started>>

(* Mutant: the start time is noted anew at each attempt.                   *)
RestartWait(op, f, w) == Transfer(op) \/ GiveUp(w) \/ Postpone(op, f, 0)

handle_saveload(op, f, w) == Transfer(op) \/ GiveUp(w) \/ Postpone(op, f, w)

(* What waits for time to pass.                                            *)
Pending == schedule # "NONE" \/ reset_timer

---------------------------------------------------------------------------------
(* Requests, made by a callback.                                           *)

Callback ==
  /\ control \in {"reset", "slice", "frame"}
  /\ calls < MaxCalls
  /\ calls' = calls + 1
  /\ UNCHANGED <<phase, control, anonymous>>

resume == m_paused' = FALSE /\ held' = FALSE

(* set_saveload_filename, and the operation to be started by the loop.     *)
Schedule(op, f) ==
  /\ schedule' = op /\ file' = f /\ waited' = 0
  /\ resume

schedule_save(f) ==
  /\ Callback
  /\ Schedule("SAVE", f)
  /\ UNCHANGED <<m_hard_reset_pending, m_exit_pending, reset_timer, started, transfers>>

(* Mutant: the machine stays paused.                                       *)
LoadPaused(f) ==
  /\ Callback
  /\ schedule' = "LOAD" /\ file' = f /\ waited' = 0
  /\ UNCHANGED <<pauseVars, m_hard_reset_pending, m_exit_pending, reset_timer, started, transfers>>

schedule_load(f) ==
  /\ Callback
  /\ Schedule("LOAD", f)
  /\ UNCHANGED <<m_hard_reset_pending, m_exit_pending, reset_timer, started, transfers>>

immediate_save(f) ==
  /\ Callback
  /\ handle_saveload("SAVE", f, 0)
  /\ held' = (m_paused /\ Pending')
  /\ UNCHANGED <<m_paused, m_hard_reset_pending, m_exit_pending>>

immediate_load(f) ==
  /\ Callback
  /\ handle_saveload("LOAD", f, 0)
  /\ held' = (m_paused /\ Pending')
  /\ UNCHANGED <<m_paused, m_hard_reset_pending, m_exit_pending>>

schedule_exit ==
  /\ Callback
  /\ m_exit_pending' = TRUE
  /\ IF Autosave /\ started THEN Schedule("SAVE", AutoFile)
                            ELSE UNCHANGED <<requestVars, pauseVars>>
  /\ UNCHANGED <<m_hard_reset_pending, reset_timer, started, transfers>>

schedule_hard_reset ==
  /\ Callback
  /\ m_hard_reset_pending' = TRUE
  /\ UNCHANGED <<pauseVars, m_exit_pending, requestVars, reset_timer, started, transfers>>

(* Mutant: the machine stays paused and the timer does not fire.           *)
ResetPaused ==
  /\ Callback
  /\ reset_timer' = TRUE
  /\ UNCHANGED <<pauseVars, m_hard_reset_pending, m_exit_pending, requestVars, started, transfers>>

schedule_soft_reset ==
  /\ Callback
  /\ reset_timer' = TRUE
  /\ resume
  /\ UNCHANGED <<m_hard_reset_pending, m_exit_pending, requestVars, started, transfers>>

(* pause, resume and toggle_pause: the pause state is set or cleared.      *)
set_pause ==
  /\ Callback
  /\ \/ m_paused' = TRUE /\ held' = Pending
     \/ resume
  /\ UNCHANGED <<m_hard_reset_pending, m_exit_pending, requestVars, reset_timer, started, transfers>>

Request ==
  \/ \E f \in Files : \/ schedule_save(f) \/ schedule_load(f)
                      \/ immediate_save(f) \/ immediate_load(f)
  \/ schedule_exit \/ schedule_hard_reset \/ schedule_soft_reset \/ set_pause

---------------------------------------------------------------------------------
(* Timers, in the scheduler.                                               *)

InSlice == control = "slice" /\ phase = "RUNNING"

StartAnonymous ==
  /\ InSlice /\ anonymous < MaxAnon
  /\ anonymous' = anonymous + 1
  /\ UNCHANGED <<phase, control, pauseVars, m_hard_reset_pending, m_exit_pending,
                 requestVars, started, reset_timer, transfers, calls>>

FireAnonymous ==
  /\ InSlice /\ anonymous > 0
  /\ anonymous' = anonymous - 1
  /\ UNCHANGED <<phase, control, pauseVars, m_hard_reset_pending, m_exit_pending,
                 requestVars, started, reset_timer, transfers, calls>>

(* soft_reset, called by its timer: the reset callbacks, then running.     *)
FireReset ==
  /\ InSlice /\ reset_timer
  /\ reset_timer' = FALSE
  /\ phase' = "RESET"
  /\ UNCHANGED <<control, m_paused, m_hard_reset_pending, m_exit_pending, requestVars,
                 started, anonymous, transfers, calls>>
  /\ held' = (held /\ Pending')

---------------------------------------------------------------------------------
(* run(), from the top.                                                    *)

(* start, up to the startup screens and the first soft reset.  A load is   *)
(* scheduled if the options ask for one.                                   *)
start ==
  /\ control = "start"
  /\ phase' = "INIT" /\ control' = "reset"
  /\ IF StateOption # NoFile THEN Schedule("LOAD", StateOption)
     ELSE IF Autosave THEN Schedule("LOAD", AutoFile)
     ELSE UNCHANGED <<requestVars, pauseVars>>
  /\ UNCHANGED <<m_hard_reset_pending, m_exit_pending, timerVars, transfers, calls>>

FirstReset ==
  /\ control = "reset" /\ phase = "INIT"
  /\ phase' = "RESET"
  /\ UNCHANGED <<control, pauseVars, m_hard_reset_pending, m_exit_pending, requestVars,
                 timerVars, transfers, calls>>

(* The end of soft_reset, the first one or one called by the timer.        *)
ResetDone ==
  /\ phase = "RESET"
  /\ phase' = "RUNNING"
  /\ control' = IF control = "reset" THEN "first" ELSE control
  /\ UNCHANGED <<pauseVars, m_hard_reset_pending, m_exit_pending, requestVars, timerVars,
                 transfers, calls>>

(* The initial load; then hard resets asked for so far are forgotten.      *)
First ==
  /\ control = "first"
  /\ \/ schedule # "NONE" /\ handle_saveload(schedule, file, waited)
     \/ schedule = "NONE" /\ UNCHANGED <<requestVars, transfers, reset_timer, started>>
  /\ m_hard_reset_pending' = FALSE
  /\ control' = "test"
  /\ held' = (held /\ Pending')
  /\ UNCHANGED <<phase, m_paused, m_exit_pending, anonymous, calls>>

(* Mutant: a pending save or load does not keep the loop going.            *)
ContinueUnlessAsked == ~m_hard_reset_pending /\ ~m_exit_pending

Continue == (~m_hard_reset_pending /\ ~m_exit_pending) \/ schedule # "NONE"

Test ==
  /\ control = "test" /\ Continue
  /\ control' = IF m_paused THEN "frame" ELSE "slice"
  /\ UNCHANGED <<phase, pauseVars, m_hard_reset_pending, m_exit_pending, requestVars,
                 timerVars, transfers, calls>>

(* A timeslice ends when the timers that are due have fired; time passes.  *)
SliceEnds ==
  /\ InSlice /\ ~reset_timer
  /\ control' = "saveload"
  /\ started' = TRUE
  /\ waited' = IF schedule = "NONE" THEN waited ELSE waited + 1
  /\ UNCHANGED <<phase, pauseVars, m_hard_reset_pending, m_exit_pending, schedule, file,
                 reset_timer, anonymous, transfers, calls>>

FrameEnds ==
  /\ control = "frame"
  /\ control' = "saveload"
  /\ UNCHANGED <<phase, pauseVars, m_hard_reset_pending, m_exit_pending, requestVars,
                 timerVars, transfers, calls>>

Saveload ==
  /\ control = "saveload"
  /\ control' = "test"
  /\ \/ schedule # "NONE" /\ handle_saveload(schedule, file, waited)
     \/ schedule = "NONE" /\ UNCHANGED <<requestVars, transfers, reset_timer, started>>
  /\ held' = (held /\ Pending')
  /\ UNCHANGED <<phase, m_paused, m_hard_reset_pending, m_exit_pending, anonymous, calls>>

(* The exit phase saves the NVRAM and the settings.                        *)
Leave ==
  /\ control = "test" /\ ~Continue
  /\ phase' = "EXIT" /\ control' = "left"
  /\ UNCHANGED <<pauseVars, m_hard_reset_pending, m_exit_pending, requestVars, timerVars,
                 transfers, calls>>

(* An exception, thrown anywhere up to the end of the exit phase.          *)
Fatal ==
  /\ control \in {"start", "reset", "first", "slice", "frame", "saveload", "left"}
  /\ phase' = "EXIT" /\ control' = "failed"
  /\ UNCHANGED <<pauseVars, m_hard_reset_pending, m_exit_pending, requestVars, timerVars,
                 transfers, calls>>

(* The exit notifiers, which stop the devices.                             *)
NotifyExit ==
  /\ control \in {"left", "failed"}
  /\ control' = "done"
  /\ UNCHANGED <<phase, pauseVars, m_hard_reset_pending, m_exit_pending, requestVars,
                 timerVars, transfers, calls>>

Run == start \/ FirstReset \/ ResetDone \/ First \/ Test \/ SliceEnds \/ FrameEnds
         \/ Saveload \/ Leave \/ NotifyExit

Next == Run \/ Request \/ StartAnonymous \/ FireAnonymous \/ FireReset \/ Fatal

Spec == Init /\ [][Next]_vars

(* The loop goes on, and the timer of the soft reset fires when it is due. *)
FairSpec == Spec /\ WF_vars(Run) /\ WF_vars(FireReset)

---------------------------------------------------------------------------------
Phases   == {"PREINIT", "INIT", "RESET", "RUNNING", "EXIT"}
Controls == {"start", "reset", "first", "test", "slice", "frame", "saveload",
             "left", "failed", "done"}

(* The types; in particular no request is older than a second when the     *)
(* loop looks at it again: it is made or given up first.                   *)
TypeOK ==
  /\ phase \in Phases /\ control \in Controls
  /\ {m_paused, held, m_hard_reset_pending, m_exit_pending, started, reset_timer} \subseteq BOOLEAN
  /\ schedule \in {"NONE", "SAVE", "LOAD"} /\ file \in Files \cup {NoFile}
  /\ waited \in 0 .. (Second + 1)
  /\ anonymous \in 0 .. MaxAnon /\ calls \in 0 .. MaxCalls /\ transfers \in Nat

(* The loop is not left with a save or a load pending: an automatic save   *)
(* asked for together with the exit, however long it is put off, is made   *)
(* or given up before the machine is torn down.                            *)
LeavesNothingPending == control = "left" => schedule = "NONE" /\ file = NoFile

(* Only a running machine lets time pass and timers fire: a save or a load *)
(* that waits, or a soft reset that is due, finds the machine running,     *)
(* unless the caller paused it meanwhile or made the request at once,      *)
(* without scheduling it, on a paused machine.                             *)
WaitsOnlyWhileRunning == Pending /\ m_paused => held

(* immediate_save and immediate_load: "jump right into the save, anonymous *)
(* timers can't hurt us!", the operation is made before the caller goes on.*)
ImmediateIsDone ==
  [][(\E f \in Files : immediate_save(f) \/ immediate_load(f)) => transfers' = transfers + 1]_vars

(* What follows is promised to callers that do not keep the machine paused *)
(* on what they asked for.                                                 *)
Released == <>[]~held

(* Every save and load that was asked for comes to an end, also when an    *)
(* anonymous timer never fires (handle_saveload).                          *)
RequestsServed == Released => (schedule # "NONE" ~> (schedule = "NONE" \/ control = "done"))

(* An exit, and a hard reset asked for in the loop, bring the machine down *)
(* (run, schedule_exit, schedule_hard_reset).                              *)
Asked == \/ m_exit_pending
         \/ m_hard_reset_pending /\ control \in {"test", "slice", "frame", "saveload"}
StopsWhenAsked == Released => (Asked ~> control = "done")

(* A soft reset that was asked for happens, unless the machine stops or a  *)
(* load brings back timers among which it is not (schedule_soft_reset).    *)
SoftResetHappens ==
  Released => (reset_timer ~> (~reset_timer \/ control \in {"left", "failed", "done"}))

(* schedule_exit: "schedule a clean exit", whatever else was asked for.    *)
ExitCompletes == m_exit_pending ~> control = "done"
=================================================================================
