------------------------------- MODULE CoreProofs -------------------------------
(***************************************************************************)
(* Proofs about source/core: RunningMachine, for every set of files, every *)
(* length of the second and every bound; Fifo, for every size and every    *)
(* set of values; LruCache, for every size and every set of nodes;         *)
(* SimpleList, for every finite set of objects and every set of lists;     *)
(* Attotime, for every size of its numbers in the proportions of the code, *)
(* and every set of factors and operands.                                  *)
(***************************************************************************)
EXTENDS RunningMachine, SimpleList, LruCache, Fifo, Attotime, ExtremeLemmas, SequenceTheorems

(* A request older than a second is seen only by the loop, right after the *)
(* slice that made it so old.                                              *)
OldOnlyInLoop == waited > Second => control \in {"saveload", "failed", "done"}

(* Without a request there is no file and no time that has been waited.    *)
IdleIsBlank == schedule = "NONE" => file = NoFile /\ waited = 0

TypeInv == TypeOK /\ OldOnlyInLoop /\ IdleIsBlank

(* What handle_saveload leaves, of a request it is given.                  *)
LEMMA SaveloadTypes ==
  ASSUME TypeOK, NEW op \in {"SAVE", "LOAD"}, NEW f \in Files \cup {NoFile},
         NEW w \in 0 .. (Second + 1), handle_saveload(op, f, w)
  PROVE  /\ schedule' \in {"NONE", "SAVE", "LOAD"} /\ file' \in Files \cup {NoFile}
         /\ waited' \in 0 .. Second /\ transfers' \in Nat
         /\ reset_timer' \in BOOLEAN /\ started' \in BOOLEAN
         /\ schedule' = "NONE" => file' = NoFile /\ waited' = 0
<1>1. Second \in Nat
  BY RunningMachineAssumption
<1>2. CASE Transfer(op)
  BY <1>1, <1>2 DEF Transfer, Unschedule, Restored, TypeOK
<1>3. CASE GiveUp(w)
  BY <1>1, <1>3 DEF GiveUp, Unschedule, TypeOK
<1>4. CASE Postpone(op, f, w)
  BY <1>1, <1>4 DEF Postpone, TypeOK
<1> QED
  BY <1>2, <1>3, <1>4 DEF handle_saveload

(* What scheduling a request leaves.                                       *)
LEMMA ScheduleTypes ==
  ASSUME TypeOK, NEW op \in {"SAVE", "LOAD"}, NEW f \in Files, Schedule(op, f)
  PROVE  /\ schedule' \in {"NONE", "SAVE", "LOAD"} /\ file' \in Files \cup {NoFile}
         /\ waited' \in 0 .. Second /\ m_paused' = FALSE /\ held' = FALSE
         /\ schedule' # "NONE"
  BY RunningMachineAssumption DEF Schedule, resume

(* Every step of the machine keeps the types and what a request that is    *)
(* none looks like.                                                        *)
LEMMA TypeInvStep ==
  ASSUME TypeInv, [Next]_vars
  PROVE  TypeInv'
<1> DEFINE Small == waited \in 0 .. Second
<1>1. /\ Second \in Nat /\ MaxAnon \in Nat /\ MaxCalls \in Nat
      /\ AutoFile \in Files /\ StateOption \in Files \cup {NoFile}
      /\ TypeOK /\ OldOnlyInLoop /\ IdleIsBlank
  BY RunningMachineAssumption DEF TypeInv
<1>2. control \notin {"saveload", "failed", "done"} => Small
  BY <1>1 DEF TypeOK, OldOnlyInLoop
<1>3. CASE Request
  <2>1. /\ control \in {"reset", "slice", "frame"} /\ calls < MaxCalls
        /\ calls' = calls + 1 /\ UNCHANGED <<phase, control, anonymous>>
    BY <1>3 DEF Request, schedule_save, schedule_load, immediate_save, immediate_load,
                schedule_exit, schedule_hard_reset, schedule_soft_reset, set_pause, Callback
  <2>2. calls' \in 0 .. MaxCalls
    BY <1>1, <2>1 DEF TypeOK
  <2> DEFINE Rest == /\ schedule' \in {"NONE", "SAVE", "LOAD"}
                     /\ file' \in Files \cup {NoFile} /\ waited' \in 0 .. Second
                     /\ transfers' \in Nat
                     /\ {m_paused', held', m_hard_reset_pending', m_exit_pending',
                         started', reset_timer'} \subseteq BOOLEAN
                     /\ IdleIsBlank'
  <2>3. ASSUME NEW f \in Files, schedule_save(f) PROVE Rest
    BY <1>1, <2>3, ScheduleTypes DEF schedule_save, TypeOK, IdleIsBlank
  <2>4. ASSUME NEW f \in Files, schedule_load(f) PROVE Rest
    BY <1>1, <2>4, ScheduleTypes DEF schedule_load, TypeOK, IdleIsBlank
  <2>5. 0 \in 0 .. (Second + 1)
    BY <1>1
  <2>6. ASSUME NEW f \in Files, immediate_save(f) PROVE Rest
    BY <1>1, <2>5, <2>6, SaveloadTypes DEF immediate_save, TypeOK, IdleIsBlank
  <2>7. ASSUME NEW f \in Files, immediate_load(f) PROVE Rest
    BY <1>1, <2>5, <2>7, SaveloadTypes DEF immediate_load, TypeOK, IdleIsBlank
  <2>8. ASSUME schedule_exit PROVE Rest
    <3>1. CASE Autosave /\ started
      BY <1>1, <2>8, <3>1, ScheduleTypes DEF schedule_exit, TypeOK, IdleIsBlank
    <3>2. CASE ~(Autosave /\ started)
      BY <1>1, <1>2, <2>1, <2>8, <3>2 DEF schedule_exit, requestVars, pauseVars, TypeOK,
                                          IdleIsBlank
    <3> QED
      BY <3>1, <3>2
  <2>9. ASSUME schedule_hard_reset PROVE Rest
    BY <1>1, <1>2, <2>1, <2>9 DEF schedule_hard_reset, requestVars, pauseVars, TypeOK,
                                  IdleIsBlank
  <2>10. ASSUME schedule_soft_reset PROVE Rest
    BY <1>1, <1>2, <2>1, <2>10 DEF schedule_soft_reset, resume, requestVars, pauseVars, TypeOK,
                                   IdleIsBlank
  <2>11. ASSUME set_pause PROVE Rest
    BY <1>1, <1>2, <2>1, <2>11 DEF set_pause, Pending, resume, requestVars, TypeOK,
                                   IdleIsBlank
  <2>12. Rest
    BY <1>3, <2>3, <2>4, <2>6, <2>7, <2>8, <2>9, <2>10, <2>11 DEF Request
  <2> QED
    BY <1>1, <2>1, <2>2, <2>12 DEF TypeInv, TypeOK, OldOnlyInLoop, IdleIsBlank
<1>4. CASE StartAnonymous
  BY <1>1, <1>2, <1>4 DEF StartAnonymous, InSlice, requestVars, pauseVars, TypeInv, TypeOK,
                          OldOnlyInLoop, IdleIsBlank
<1>5. CASE FireAnonymous
  BY <1>1, <1>2, <1>5 DEF FireAnonymous, InSlice, requestVars, pauseVars, TypeInv, TypeOK,
                          OldOnlyInLoop, IdleIsBlank
<1>6. CASE FireReset
  BY <1>1, <1>2, <1>6 DEF FireReset, InSlice, requestVars, pauseVars, TypeInv, TypeOK,
                          OldOnlyInLoop, IdleIsBlank, Phases
<1>7. CASE Fatal
  BY <1>1, <1>7 DEF Fatal, requestVars, pauseVars, timerVars, TypeInv, TypeOK, OldOnlyInLoop,
                    IdleIsBlank, Phases, Controls
<1>8. CASE start
  <2>1. /\ phase' = "INIT" /\ control' = "reset"
        /\ UNCHANGED <<m_hard_reset_pending, m_exit_pending, timerVars, transfers, calls>>
    BY <1>8 DEF start
  <2>2. /\ schedule' \in {"NONE", "SAVE", "LOAD"} /\ file' \in Files \cup {NoFile}
        /\ waited' \in 0 .. Second /\ {m_paused', held'} \subseteq BOOLEAN
        /\ IdleIsBlank'
    <3>1. CASE StateOption # NoFile
      BY <1>1, <1>8, <3>1, ScheduleTypes DEF start, IdleIsBlank
    <3>2. CASE StateOption = NoFile /\ Autosave
      BY <1>1, <1>8, <3>2, ScheduleTypes DEF start, IdleIsBlank
    <3>3. CASE StateOption = NoFile /\ ~Autosave
      BY <1>1, <1>2, <1>8, <3>3 DEF start, requestVars, pauseVars, TypeOK, IdleIsBlank
    <3> QED
      BY <3>1, <3>2, <3>3
  <2> QED
    BY <1>1, <2>1, <2>2 DEF timerVars, TypeInv, TypeOK, OldOnlyInLoop, IdleIsBlank,
                            Phases, Controls
<1>9. CASE FirstReset
  BY <1>1, <1>2, <1>9 DEF FirstReset, requestVars, pauseVars, timerVars, TypeInv, TypeOK,
                          OldOnlyInLoop, IdleIsBlank,
                          Phases
<1>10. CASE ResetDone
  BY <1>1, <1>2, <1>10 DEF ResetDone, requestVars, pauseVars, timerVars, TypeInv, TypeOK,
                           OldOnlyInLoop, IdleIsBlank,
                           Phases, Controls
<1>11. CASE First \/ Saveload
  <2>1. CASE schedule # "NONE" /\ handle_saveload(schedule, file, waited)
    <3>1. /\ schedule \in {"SAVE", "LOAD"} /\ file \in Files \cup {NoFile}
          /\ waited \in 0 .. (Second + 1)
      BY <1>1, <2>1 DEF TypeOK
    <3>2. /\ schedule' \in {"NONE", "SAVE", "LOAD"} /\ file' \in Files \cup {NoFile}
          /\ waited' \in 0 .. Second /\ transfers' \in Nat
          /\ reset_timer' \in BOOLEAN /\ started' \in BOOLEAN
          /\ IdleIsBlank'
      BY <1>1, <2>1, <3>1, SaveloadTypes DEF IdleIsBlank
    <3>3. /\ control' \in Controls /\ {held', m_hard_reset_pending'} \subseteq BOOLEAN
          /\ UNCHANGED <<phase, m_paused, m_exit_pending, anonymous, calls>>
      BY <1>1, <1>11 DEF First, Saveload, Controls, TypeOK
    <3>4. TypeOK'
      BY <1>1, <3>2, <3>3 DEF TypeOK
    <3> QED
      BY <1>1, <3>2, <3>4 DEF TypeInv, OldOnlyInLoop, IdleIsBlank
  <2>2. CASE schedule = "NONE" /\ UNCHANGED <<requestVars, transfers, reset_timer, started>>
    <3>1. /\ control' \in Controls /\ {held', m_hard_reset_pending'} \subseteq BOOLEAN
          /\ UNCHANGED <<phase, m_paused, m_exit_pending, anonymous, calls>>
      BY <1>1, <1>11 DEF First, Saveload, Controls, TypeOK
    <3>2. /\ UNCHANGED <<schedule, file, waited, transfers, reset_timer, started>>
          /\ waited = 0
      BY <1>1, <2>2 DEF requestVars, pauseVars, IdleIsBlank
    <3>3. TypeOK'
      BY <1>1, <3>1, <3>2 DEF TypeOK
    <3> QED
      BY <1>1, <3>2, <3>3 DEF TypeInv, OldOnlyInLoop, IdleIsBlank
  <2> QED
    BY <1>11, <2>1, <2>2 DEF First, Saveload
<1>12. CASE Test
  BY <1>1, <1>2, <1>12 DEF Test, requestVars, pauseVars, timerVars, TypeInv, TypeOK, OldOnlyInLoop,
                           IdleIsBlank, Controls
<1>13. CASE SliceEnds
  <2>1. waited' \in 0 .. (Second + 1)
    BY <1>1, <1>2, <1>13 DEF SliceEnds, InSlice
  <2> QED
    BY <1>1, <1>13, <2>1 DEF SliceEnds, pauseVars, TypeInv, TypeOK, OldOnlyInLoop, IdleIsBlank,
                             Controls
<1>14. CASE FrameEnds
  BY <1>1, <1>2, <1>14 DEF FrameEnds, requestVars, pauseVars, timerVars, TypeInv, TypeOK,
                           OldOnlyInLoop, IdleIsBlank,
                           Controls
<1>15. CASE Leave
  BY <1>1, <1>2, <1>15 DEF Leave, requestVars, pauseVars, timerVars, TypeInv, TypeOK,
                           OldOnlyInLoop, IdleIsBlank,
                           Phases, Controls
<1>16. CASE NotifyExit
  BY <1>1, <1>16 DEF NotifyExit, requestVars, pauseVars, timerVars, TypeInv, TypeOK, OldOnlyInLoop,
                     IdleIsBlank, Controls
<1>17. CASE UNCHANGED vars
  BY <1>1, <1>17 DEF vars, TypeInv, TypeOK, OldOnlyInLoop, IdleIsBlank
<1> QED
  BY <1>3, <1>4, <1>5, <1>6, <1>7, <1>8, <1>9, <1>10, <1>11, <1>12, <1>13, <1>14, <1>15, <1>16,
     <1>17 DEF Next, Run

(* They hold before the machine runs.                                      *)
LEMMA InitTypeInv == Init => TypeInv
<1> SUFFICES ASSUME Init PROVE TypeInv
  OBVIOUS
<1>1. Second \in Nat /\ MaxAnon \in Nat /\ MaxCalls \in Nat
  BY RunningMachineAssumption
<1>2. /\ schedule = "NONE" /\ file = NoFile /\ waited = 0 /\ anonymous = 0 /\ calls = 0
      /\ transfers = 0 /\ phase \in Phases /\ control \in Controls
  BY DEF Init, Phases, Controls
<1>3. {m_paused, held, m_hard_reset_pending, m_exit_pending, started, reset_timer} \subseteq BOOLEAN
  BY DEF Init
<1>4. TypeOK
  BY <1>1, <1>2, <1>3 DEF TypeOK
<1> QED
  BY <1>1, <1>2, <1>4 DEF TypeInv, OldOnlyInLoop, IdleIsBlank

(* They hold throughout.                                                   *)
LEMMA TypeInvAlways == Spec => []TypeInv
<1>1. Init => TypeInv
  BY InitTypeInv
<1>2. TypeInv /\ [Next]_vars => TypeInv'
  BY TypeInvStep
<1> QED
  BY <1>1, <1>2, PTL DEF Spec

(* Type correctness, and with it that no request of handle_saveload is     *)
(* older than a second when it is looked at: it is then made or given up.  *)
THEOREM TypesCorrect == Spec => []TypeOK
<1>1. TypeInv => TypeOK
  BY DEF TypeInv
<1> QED
  BY <1>1, TypeInvAlways, PTL

---------------------------------------------------------------------------------
(* Only Leave comes to the exit phase by the loop, and there nothing makes *)
(* a request any more.                                                     *)
LeftIdle == control = "left" => schedule = "NONE"

(* A machine that has left its loop asks for nothing more: every step      *)
(* keeps that.                                                             *)
LEMMA LeftIdleStep ==
  ASSUME LeftIdle, [Next]_vars
  PROVE  LeftIdle'
<1>1. CASE Request
  <2>1. control' # "left"
    BY <1>1 DEF Request, schedule_save, schedule_load, immediate_save, immediate_load,
                schedule_exit, schedule_hard_reset, schedule_soft_reset, set_pause, Callback
  <2> QED
    BY <2>1 DEF LeftIdle
<1>2. CASE StartAnonymous \/ FireAnonymous \/ FireReset \/ ResetDone \/ FirstReset
  BY <1>2 DEF StartAnonymous, FireAnonymous, FireReset, ResetDone, FirstReset, InSlice,
              requestVars, pauseVars, LeftIdle
<1>3. CASE Fatal \/ NotifyExit \/ start \/ First \/ Test \/ SliceEnds \/ FrameEnds \/ Saveload
  BY <1>3 DEF Fatal, NotifyExit, start, First, Test, SliceEnds, FrameEnds, Saveload, LeftIdle
<1>4. CASE Leave
  BY <1>4 DEF Leave, Continue, requestVars, pauseVars, LeftIdle
<1>5. CASE UNCHANGED vars
  BY <1>5 DEF vars, LeftIdle
<1> QED
  BY <1>1, <1>2, <1>3, <1>4, <1>5 DEF Next, Run

(* The loop of run() is never left with a save or a load pending, however  *)
(* the requests, the pauses and the timers interleave.                     *)
THEOREM NothingLeftPending == Spec => []LeavesNothingPending
<1>1. Init => LeftIdle
  BY DEF Init, LeftIdle
<1>2. LeftIdle /\ [Next]_vars => LeftIdle'
  BY LeftIdleStep
<1>3. TypeInv /\ LeftIdle => LeavesNothingPending
  BY DEF TypeInv, IdleIsBlank, LeftIdle, LeavesNothingPending
<1> QED
  BY <1>1, <1>2, <1>3, TypeInvAlways, PTL DEF Spec

---------------------------------------------------------------------------------
(* Every step keeps it that only a running machine has a request waiting.  *)
LEMMA WaitsStep ==
  ASSUME WaitsOnlyWhileRunning, [Next]_vars
  PROVE  WaitsOnlyWhileRunning'
<1>1. ASSUME NEW f \in Files, schedule_save(f) \/ schedule_load(f)
      PROVE  WaitsOnlyWhileRunning'
  BY <1>1 DEF schedule_save, schedule_load, Schedule, resume, WaitsOnlyWhileRunning
<1>2. ASSUME NEW f \in Files, immediate_save(f) \/ immediate_load(f)
      PROVE  WaitsOnlyWhileRunning'
  BY <1>2 DEF immediate_save, immediate_load, WaitsOnlyWhileRunning
<1>3. CASE schedule_exit
  BY <1>3 DEF schedule_exit, Schedule, resume, requestVars, pauseVars, Pending,
              WaitsOnlyWhileRunning
<1>4. CASE schedule_hard_reset
  BY <1>4 DEF schedule_hard_reset, requestVars, pauseVars, Pending, WaitsOnlyWhileRunning
<1>5. CASE schedule_soft_reset
  BY <1>5 DEF schedule_soft_reset, resume, WaitsOnlyWhileRunning
<1>6. CASE set_pause
  BY <1>6 DEF set_pause, resume, requestVars, Pending, WaitsOnlyWhileRunning
<1>7. CASE Request
  BY <1>1, <1>2, <1>3, <1>4, <1>5, <1>6, <1>7 DEF Request
<1>8. CASE First \/ Saveload
  <2>1. m_paused' = m_paused /\ held' = (held /\ Pending')
    BY <1>8 DEF First, Saveload
  <2>2. CASE schedule # "NONE"
    BY <2>1, <2>2 DEF Pending, WaitsOnlyWhileRunning
  <2>3. CASE schedule = "NONE"
    BY <1>8, <2>1, <2>3 DEF First, Saveload, requestVars, Pending, WaitsOnlyWhileRunning
  <2> QED
    BY <2>2, <2>3
<1>9. CASE start
  BY <1>9 DEF start, Schedule, resume, requestVars, pauseVars, timerVars, Pending,
              WaitsOnlyWhileRunning
<1>10. CASE FireReset
  BY <1>10 DEF FireReset, requestVars, Pending, WaitsOnlyWhileRunning
<1>11. CASE StartAnonymous \/ FireAnonymous \/ ResetDone \/ FirstReset
  BY <1>11 DEF StartAnonymous, FireAnonymous, ResetDone, FirstReset,
               requestVars, pauseVars, timerVars, Pending, WaitsOnlyWhileRunning
<1>12. CASE Fatal \/ NotifyExit \/ Test \/ SliceEnds \/ FrameEnds \/ Leave
  BY <1>12 DEF Fatal, NotifyExit, Test, SliceEnds, FrameEnds, Leave,
               requestVars, pauseVars, timerVars, Pending, WaitsOnlyWhileRunning
<1>13. CASE UNCHANGED vars
  BY <1>13 DEF vars, Pending, WaitsOnlyWhileRunning
<1> QED
  BY <1>7, <1>8, <1>9, <1>10, <1>11, <1>12, <1>13 DEF Next, Run

(* "We can't be paused since we need to clear out anonymous timers"        *)
(* (machine.cpp, set_saveload_filename): a machine with a save, a load or  *)
(* a soft reset pending is only paused if the caller paused it on what is  *)
(* pending or made an immediate request of a paused machine; no scheduled  *)
(* request, no exit and no load that brings a reset timer back does it.    *)
THEOREM WaitingMachineRuns == Spec => []WaitsOnlyWhileRunning
<1>1. Init => WaitsOnlyWhileRunning
  BY DEF Init, WaitsOnlyWhileRunning
<1>2. WaitsOnlyWhileRunning /\ [Next]_vars => WaitsOnlyWhileRunning'
  BY WaitsStep
<1> QED
  BY <1>1, <1>2, PTL DEF Spec

---------------------------------------------------------------------------------
(* The ring.                                                               *)

(* How many places are between the head and the tail, and the k-th of them.*)
Held == IF m_empty THEN 0 ELSE IF f_tail > f_head THEN f_tail - f_head ELSE f_tail + Size - f_head

Ring(h, k) == IF h + k - 1 < Size THEN h + k - 1 ELSE h + k - 1 - Size

FifoInv ==
  /\ wraps.write \in BOOLEAN /\ wraps.read \in BOOLEAN
  /\ DOMAIN slots = Slots /\ f_head \in Slots /\ f_tail \in Slots /\ m_empty \in BOOLEAN
  /\ m_empty => f_head = f_tail
  /\ queue = [k \in 1 .. Held |-> slots[Ring(f_head, k)]]

(* The remainders that the code takes are these places.                    *)
LEMMA RingPlaces ==
  ASSUME NEW h \in Slots
  PROVE  /\ \A k \in 1 .. Size : (h + k - 1) % Size = Ring(h, k) /\ Ring(h, k) \in Slots
         /\ Wrapped(h) \in Slots /\ Wrapped(h) = IF h + 1 = Size THEN 0 ELSE h + 1
         /\ \A k \in 1 .. (Size - 1) : Ring(Wrapped(h), k) = Ring(h, k + 1)
                                       /\ (h + k) % Size = Ring(h, k + 1)
<1>1. Size \in Nat \ {0} /\ h \in 0 .. (Size - 1)
  BY FifoAssumption DEF Slots
<1>2. ASSUME NEW x \in 0 .. (2 * Size - 1)
      PROVE  x % Size = IF x < Size THEN x ELSE x - Size
  <2>1. CASE x < Size
    <3>1. x \in 0 .. (Size - 1) /\ 0 \in Nat
      BY <1>1, <2>1
    <3>2. (0 * Size + x) % Size = x
      BY <1>1, <3>1, DivisionIsUnique
    <3>3. 0 * Size + x = x
      BY <1>1, <3>1
    <3>4. QED BY <2>1, <3>2, <3>3
  <2>2. CASE x >= Size
    <3> DEFINE r == x - Size
    <3>1. r \in 0 .. (Size - 1) /\ 1 * Size + r = x
      BY <1>1, <2>2
    <3> HIDE DEF r
    <3>2. PICK one \in Nat : one = 1
      OBVIOUS
    <3>3. (one * Size + r) % Size = r
      BY <1>1, <3>1, DivisionIsUnique
    <3>4. x % Size = r
      BY <3>1, <3>2, <3>3
    <3>5. ~ (x < Size)
      BY <1>1, <2>2
    <3>6. QED BY <3>4, <3>5 DEF r
  <2>3. QED BY <1>1, <2>1, <2>2
<1>3. \A k \in 1 .. Size : (h + k - 1) % Size = Ring(h, k) /\ Ring(h, k) \in Slots
  <2> TAKE k \in 1 .. Size
  <2>1. PICK x \in 0 .. (2 * Size - 1) : x = h + k - 1
    BY <1>1
  <2>2. (h + k - 1) % Size = Ring(h, k)
    <3>1. x % Size = IF x < Size THEN x ELSE x - Size
      BY <1>2
    <3>2. QED BY <1>1, <2>1, <3>1 DEF Ring
  <2>3. Ring(h, k) \in Slots
    BY <1>1 DEF Ring, Slots
  <2>4. QED BY <2>2, <2>3
<1>4. Wrapped(h) = IF h + 1 = Size THEN 0 ELSE h + 1
  <2>1. PICK x \in 0 .. (2 * Size - 1) : x = h + 1
    BY <1>1
  <2>2. (h + 1) % Size = IF h + 1 < Size THEN h + 1 ELSE h + 1 - Size
    <3>1. x % Size = IF x < Size THEN x ELSE x - Size
      BY <1>2
    <3>2. QED BY <1>1, <2>1, <3>1
  <2>3. QED BY <1>1, <2>2 DEF Wrapped
<1>5. Wrapped(h) \in Slots
  BY <1>1, <1>4 DEF Slots
<1>6. \A k \in 1 .. (Size - 1) : Ring(Wrapped(h), k) = Ring(h, k + 1)
                                 /\ (h + k) % Size = Ring(h, k + 1)
  <2> TAKE k \in 1 .. (Size - 1)
  <2>1. Ring(Wrapped(h), k) = Ring(h, k + 1)
    BY <1>1, <1>4 DEF Ring
  <2>2. k + 1 \in 1 .. Size /\ h + (k + 1) - 1 = h + k
    BY <1>1
  <2>3. (h + (k + 1) - 1) % Size = Ring(h, k + 1)
    BY <1>3, <2>2
  <2>4. QED BY <2>1, <2>2, <2>3
<1>7. QED BY <1>3, <1>4, <1>5, <1>6

(* A place is held once, and the tail is the one after them.               *)
LEMMA RingHolds ==
  ASSUME FifoInv
  PROVE  /\ Held \in 0 .. Size /\ Len(queue) = Held
         /\ Held = 0 <=> m_empty = TRUE
         /\ Held = Size <=> m_empty = FALSE /\ f_head = f_tail
         /\ Held < Size => f_tail = Ring(f_head, Held + 1)
         /\ \A j, k \in 1 .. Size : Ring(f_head, j) = Ring(f_head, k) => j = k
         /\ f_head = Ring(f_head, 1)
<1>1. /\ Size \in Nat \ {0} /\ f_head \in 0 .. (Size - 1) /\ f_tail \in 0 .. (Size - 1)
      /\ m_empty \in BOOLEAN /\ (m_empty => f_head = f_tail)
  BY FifoAssumption DEF FifoInv, Slots
<1>2. Held \in 0 .. Size
  BY <1>1 DEF Held
<1>3. Held = 0 <=> m_empty = TRUE
  BY <1>1 DEF Held
<1>4. Held = Size <=> m_empty = FALSE /\ f_head = f_tail
  BY <1>1 DEF Held
<1>5. Held < Size => f_tail = Ring(f_head, Held + 1)
  BY <1>1 DEF Held, Ring
<1>6. \A j, k \in 1 .. Size : Ring(f_head, j) = Ring(f_head, k) => j = k
  BY <1>1 DEF Ring
<1>7. f_head = Ring(f_head, 1)
  BY <1>1 DEF Ring
<1>8. Len(queue) = Held
  <2> DEFINE n == Held
             F(k) == slots[Ring(f_head, k)]
  <2>1. n \in Nat /\ queue = [k \in 1 .. n |-> F(k)]
    BY <1>2 DEF FifoInv
  <2> HIDE DEF n, F
  <2>2. Len(queue) = n
    BY <2>1
  <2>3. QED BY <2>2 DEF n
<1>9. QED BY <1>2, <1>3, <1>4, <1>5, <1>6, <1>7, <1>8

(* What a step leaves is the ring of a queue when it has its length and    *)
(* its elements.                                                           *)
(* A fifo starts empty, with its head at the first cell.                   *)
LEMMA FifoStarts == FifoInit => FifoInv
<1> SUFFICES ASSUME FifoInit PROVE FifoInv
  OBVIOUS
<1>1. 0 \in Slots
  BY FifoAssumption DEF Slots
<1>2. wraps.write \in BOOLEAN /\ wraps.read \in BOOLEAN /\ DOMAIN slots = Slots
  BY DEF FifoInit
<1>3. f_head = 0 /\ f_tail = 0 /\ m_empty = TRUE /\ queue = <<>>
  BY DEF FifoInit
<1>4. Held = 0
  BY <1>3 DEF Held
<1>5. [k \in 1 .. 0 |-> slots[Ring(f_head, k)]] = <<>>
  OBVIOUS
<1>6. QED BY <1>1, <1>2, <1>3, <1>4, <1>5 DEF FifoInv

(* A write puts its value behind the queue, or makes the whole of it.      *)
LEMMA EnqueueStep ==
  ASSUME FifoInv, NEW v \in Values, enqueue(v)
  PROVE  FifoInv'
<1> DEFINE n == Held
<1>1. /\ Size \in Nat \ {0} /\ f_head \in 0 .. (Size - 1) /\ f_tail \in 0 .. (Size - 1)
      /\ m_empty \in BOOLEAN /\ f_head \in Slots /\ f_tail \in Slots /\ DOMAIN slots = Slots
      /\ wraps.write \in BOOLEAN /\ UNCHANGED <<wraps, f_head>>
  BY FifoAssumption DEF FifoInv, Slots, enqueue
<1>2. /\ n \in 0 .. Size /\ Len(queue) = n
      /\ n = 0 <=> m_empty = TRUE
      /\ n = Size <=> m_empty = FALSE /\ f_head = f_tail
      /\ n < Size => f_tail = Ring(f_head, n + 1)
      /\ \A j, k \in 1 .. Size : Ring(f_head, j) = Ring(f_head, k) => j = k
      /\ f_head = Ring(f_head, 1)
  BY RingHolds
<1>3. queue = [k \in 1 .. n |-> slots[Ring(f_head, k)]]
  BY DEF FifoInv
<1>4. Wrapped(f_tail) \in Slots /\ Wrapped(f_tail) = IF f_tail + 1 = Size THEN 0 ELSE f_tail + 1
  BY <1>1, RingPlaces
<1>5. \A k \in 1 .. Size : Ring(f_head, k) \in Slots
  BY <1>1, RingPlaces
<1>6. CASE wraps.write \/ m_empty \/ f_head # f_tail
  <2>1. slots' = [slots EXCEPT ![f_tail] = v] /\ f_tail' = Wrapped(f_tail) /\ m_empty' = FALSE
    BY <1>6 DEF enqueue
  <2>2. DOMAIN slots' = Slots /\ slots'[f_tail] = v /\ \A x \in Slots : x # f_tail => slots'[x] = slots[x]
    BY <1>1, <2>1
  <2>3. CASE n < Size
    <3>1. Held' = n + 1
      <4>1. m_empty = TRUE => f_head = f_tail
        BY DEF FifoInv
      <4>2. ~m_empty' /\ (f_head = f_tail => m_empty = TRUE)
        BY <1>1, <1>2, <2>1, <2>3
      <4>3. QED BY <1>1, <1>4, <2>1, <4>1, <4>2 DEF Held
    <3>2. queue' = Append(queue, v)
      BY <1>2, <2>3 DEF enqueue
    <3> HIDE DEF n
    <3>3. \A k \in 1 .. (n + 1) : slots'[Ring(f_head, k)] = IF k = n + 1 THEN v ELSE slots[Ring(f_head, k)]
      <4> TAKE k \in 1 .. (n + 1)
      <4>1. k \in 1 .. Size /\ n + 1 \in 1 .. Size /\ f_tail = Ring(f_head, n + 1)
        BY <1>1, <1>2, <2>3
      <4>2. k # n + 1 => Ring(f_head, k) # f_tail
        BY <1>2, <4>1
      <4>3. Ring(f_head, k) \in Slots
        BY <1>5, <4>1
      <4>4. QED BY <2>2, <4>1, <4>2, <4>3
    <3> DEFINE F == [k \in 1 .. Size |-> slots[Ring(f_head, k)]]
               G == [k \in 1 .. Size |-> slots'[Ring(f_head, k)]]
    <3>a. \A k \in 1 .. n : F[k] = slots[Ring(f_head, k)]
      BY <1>1, <1>2
    <3>4. queue = [k \in 1 .. n |-> F[k]]
      <4> HIDE DEF F
      <4>1. QED BY <1>3, <3>a
    <3>5. \A k \in 1 .. (n + 1) : G[k] = IF k = n + 1 THEN v ELSE F[k]
      BY <1>1, <1>2, <2>3, <3>3
    <3> HIDE DEF F, G
    <3>6. queue' = [k \in 1 .. (n + 1) |-> IF k = n + 1 THEN v ELSE F[k]]
      BY <1>2, <3>2, <3>4
    <3>7. queue' = [k \in 1 .. (n + 1) |-> G[k]]
      BY <3>5, <3>6
    <3>8. \A k \in 1 .. (n + 1) : G[k] = slots'[Ring(f_head, k)]
      BY <1>1, <1>2, <2>3 DEF G
    <3>9. queue' = [k \in 1 .. (n + 1) |-> slots'[Ring(f_head, k)]]
      BY <3>7, <3>8
    <3>10. f_tail' \in Slots /\ m_empty' = FALSE
      BY <1>4, <2>1
    <3>11. FifoInv' = (/\ wraps'.write \in BOOLEAN /\ wraps'.read \in BOOLEAN
                       /\ DOMAIN slots' = Slots /\ f_head' \in Slots /\ f_tail' \in Slots
                       /\ m_empty' \in BOOLEAN /\ (m_empty' => f_head' = f_tail')
                       /\ queue' = [k \in 1 .. Held' |-> slots'[Ring(f_head', k)]])
      BY DEF FifoInv
    <3>12. wraps'.write \in BOOLEAN /\ wraps'.read \in BOOLEAN
      BY <1>1 DEF FifoInv
    <3>13. QED BY <1>1, <2>2, <3>1, <3>9, <3>10, <3>11, <3>12
  <2>4. CASE n = Size
    <3>1. f_head = f_tail /\ m_empty = FALSE /\ wraps.write
      BY <1>2, <1>6, <2>4
    <3>2. queue' = <<v>>
      BY <1>1, <1>2, <2>4, <3>1 DEF enqueue
    <3>3. Held' = 1
      BY <1>1, <1>4, <2>1, <3>1 DEF Held
    <3>4. slots'[Ring(f_head, 1)] = v
      BY <1>2, <2>2, <3>1
    <3>5. [k \in 1 .. 1 |-> slots'[Ring(f_head, k)]] = <<v>>
      BY <3>4
    <3>6. f_tail' \in Slots /\ m_empty' = FALSE
      BY <1>4, <2>1
    <3>7. wraps'.write \in BOOLEAN /\ wraps'.read \in BOOLEAN
      BY <1>1 DEF FifoInv
    <3>8. QED BY <1>1, <2>2, <3>2, <3>3, <3>5, <3>6, <3>7 DEF FifoInv
  <2>5. QED BY <1>1, <1>2, <2>3, <2>4
<1>7. CASE ~ (wraps.write \/ m_empty \/ f_head # f_tail)
  <2>1. UNCHANGED <<slots, f_tail, m_empty>> /\ n = Size
    BY <1>2, <1>7 DEF enqueue, FifoInv
  <2>2. queue' = queue
    BY <1>1, <1>2, <1>7, <2>1 DEF enqueue
  <2>3. QED BY <1>1, <2>1, <2>2 DEF FifoInv, Held
<1>8. QED BY <1>6, <1>7

(* A read takes the first of the queue, or brings back the other places.   *)
LEMMA DequeueStep ==
  ASSUME FifoInv, dequeue
  PROVE  FifoInv'
<1> DEFINE n == Held
           F == [k \in 1 .. Size |-> slots[Ring(f_head, k)]]
           G == [k \in 1 .. Size |-> slots[Ring(f_head', k)]]
<1>1. /\ Size \in Nat \ {0} /\ f_head \in 0 .. (Size - 1) /\ f_tail \in 0 .. (Size - 1)
      /\ m_empty \in BOOLEAN /\ f_head \in Slots /\ f_tail \in Slots /\ DOMAIN slots = Slots
      /\ UNCHANGED <<wraps, slots, f_tail>>
  BY FifoAssumption DEF FifoInv, Slots, dequeue
<1>2. /\ n \in 0 .. Size /\ Len(queue) = n
      /\ n = 0 <=> m_empty = TRUE
      /\ n = Size <=> m_empty = FALSE /\ f_head = f_tail
  BY RingHolds
<1>3. queue = [k \in 1 .. n |-> F[k]]
  <2>1. \A k \in 1 .. n : F[k] = slots[Ring(f_head, k)]
    BY <1>1, <1>2
  <2> HIDE DEF F
  <2>2. QED BY <2>1 DEF FifoInv
<1>4. /\ Wrapped(f_head) \in Slots /\ Wrapped(f_head) = IF f_head + 1 = Size THEN 0 ELSE f_head + 1
      /\ \A k \in 1 .. (Size - 1) : Ring(Wrapped(f_head), k) = Ring(f_head, k + 1)
                                    /\ (f_head + k) % Size = Ring(f_head, k + 1)
  BY <1>1, RingPlaces
<1>5. wraps'.write \in BOOLEAN /\ wraps'.read \in BOOLEAN
  BY <1>1 DEF FifoInv
<1>6. CASE wraps.read \/ ~m_empty
  <2>1. f_head' = Wrapped(f_head) /\ m_empty' = (f_head' = f_tail)
    BY <1>6 DEF dequeue
  <2>2. f_head' \in Slots /\ m_empty' \in BOOLEAN /\ (m_empty' => f_head' = f_tail')
    BY <1>1, <1>4, <2>1
  <2>3. \A k \in 1 .. (Size - 1) : G[k] = F[k + 1]
    BY <1>1, <1>4, <2>1
  <2>4. Held' = IF n = 0 THEN Size - 1 ELSE n - 1
    <3> DEFINE next == Wrapped(f_head)
    <3>1. next \in 0 .. (Size - 1) /\ next = IF f_head + 1 = Size THEN 0 ELSE f_head + 1
      BY <1>1, <1>4
    <3> HIDE DEF next
    <3>2. m_empty = TRUE => f_head = f_tail
      BY DEF FifoInv
    <3>3. CASE next = f_tail
      <4>1. m_empty' = TRUE
        BY <2>1, <3>3 DEF next
      <4>2. Held' = 0
        BY <4>1 DEF Held
      <4>3. (IF n = 0 THEN Size - 1 ELSE n - 1) = 0
        BY <1>1, <1>2, <3>1, <3>2, <3>3 DEF Held
      <4>4. QED BY <4>2, <4>3
    <3>4. CASE next # f_tail
      <4>1. m_empty' = FALSE /\ f_head' = next
        BY <2>1, <3>4 DEF next
      <4>2. Held' = IF f_tail > next THEN f_tail - next ELSE f_tail + Size - next
        BY <1>1, <4>1 DEF Held
      <4>3. QED BY <1>1, <1>2, <3>1, <3>2, <3>4, <4>2 DEF Held
    <3>5. QED BY <3>3, <3>4
  <2>5. queue' = [k \in 1 .. Held' |-> G[k]]
    <3>1. CASE n # 0
      <4>1. queue # <<>> /\ queue' = Tail(queue)
        BY <1>2, <3>1 DEF dequeue
      <4> HIDE DEF n, F, G
      <4>2. queue' = [k \in 1 .. (n - 1) |-> F[k + 1]]
        BY <1>2, <1>3, <3>1, <4>1
      <4>3. \A k \in 1 .. (n - 1) : F[k + 1] = G[k]
        BY <1>1, <1>2, <2>3
      <4>4. queue' = [k \in 1 .. (n - 1) |-> G[k]]
        BY <4>2, <4>3
      <4>5. QED BY <2>4, <3>1, <4>4
    <3>2. CASE n = 0
      <4>1. queue = <<>> /\ wraps.read
        BY <1>2, <1>3, <1>6, <3>2
      <4>2. queue' = [k \in 1 .. (Size - 1) |-> slots[(f_head + k) % Size]]
        BY <4>1 DEF dequeue
      <4>3. \A k \in 1 .. (Size - 1) : slots[(f_head + k) % Size] = G[k]
        BY <1>1, <1>4, <2>1
      <4> HIDE DEF G
      <4>4. queue' = [k \in 1 .. (Size - 1) |-> G[k]]
        BY <4>2, <4>3
      <4>5. QED BY <2>4, <3>2, <4>4
    <3>3. QED BY <3>1, <3>2
  <2>6. \A k \in 1 .. Held' : G[k] = slots'[Ring(f_head', k)]
    BY <1>1, <1>2, <2>4
  <2> HIDE DEF G
  <2>7. queue' = [k \in 1 .. Held' |-> slots'[Ring(f_head', k)]]
    BY <2>5, <2>6
  <2>8. QED BY <1>1, <1>5, <2>2, <2>7 DEF FifoInv
<1>7. CASE ~ (wraps.read \/ ~m_empty)
  <2>1. UNCHANGED <<f_head, m_empty>> /\ n = 0
    BY <1>2, <1>7 DEF dequeue
  <2>2. queue = <<>>
    BY <1>3, <2>1
  <2>3. queue' = queue
    BY <1>7, <2>2 DEF dequeue
  <2>4. QED BY <1>1, <2>1, <2>3 DEF FifoInv, Held
<1>8. QED BY <1>6, <1>7

(* What poke writes is in the queue only if the queue fills the ring.      *)
LEMMA PokeStep ==
  ASSUME FifoInv, NEW v \in Values, poke(v)
  PROVE  FifoInv'
<1> DEFINE n == Held
           F == [k \in 1 .. Size |-> slots[Ring(f_head, k)]]
           G == [k \in 1 .. Size |-> slots'[Ring(f_head, k)]]
<1>1. /\ Size \in Nat \ {0} /\ f_head \in Slots /\ f_tail \in Slots /\ DOMAIN slots = Slots
      /\ UNCHANGED <<wraps, f_head, f_tail, m_empty>> /\ slots' = [slots EXCEPT ![f_tail] = v]
  BY FifoAssumption DEF FifoInv, poke
<1>2. /\ n \in 0 .. Size /\ Len(queue) = n
      /\ n = Size <=> m_empty = FALSE /\ f_head = f_tail
      /\ n < Size => f_tail = Ring(f_head, n + 1)
      /\ \A j, k \in 1 .. Size : Ring(f_head, j) = Ring(f_head, k) => j = k
      /\ f_head = Ring(f_head, 1)
  BY RingHolds
<1>3. queue = [k \in 1 .. n |-> F[k]]
  <2>1. \A k \in 1 .. n : F[k] = slots[Ring(f_head, k)]
    BY <1>1, <1>2
  <2> HIDE DEF F
  <2>2. QED BY <2>1 DEF FifoInv
<1>4. \A k \in 1 .. Size : Ring(f_head, k) \in Slots
  BY <1>1, RingPlaces
<1>5. Held' = n
  BY <1>1 DEF Held
<1> HIDE DEF n
<1>6. \A k \in 1 .. n : G[k] = IF n = Size /\ k = 1 THEN v ELSE F[k]
  <2> TAKE k \in 1 .. n
  <2>1. k \in 1 .. Size /\ 1 \in 1 .. Size
    BY <1>1, <1>2
  <2>2. Ring(f_head, k) = f_tail <=> n = Size /\ k = 1
    <3>1. CASE n = Size
      BY <1>2, <2>1, <3>1
    <3>2. CASE n # Size
      <4>1. n + 1 \in 1 .. Size /\ k # n + 1 /\ f_tail = Ring(f_head, n + 1)
        BY <1>1, <1>2, <3>2
      <4>2. QED BY <1>2, <2>1, <3>2, <4>1
    <3>3. QED BY <3>1, <3>2
  <2>3. G[k] = slots'[Ring(f_head, k)] /\ F[k] = slots[Ring(f_head, k)]
    BY <2>1
  <2>4. Ring(f_head, k) \in Slots
    BY <1>4, <2>1
  <2>5. QED BY <1>1, <2>2, <2>3, <2>4
<1>7. \A k \in 1 .. n : G[k] = slots'[Ring(f_head, k)]
  BY <1>1, <1>2
<1> HIDE DEF F, G
<1>8. queue' = [k \in 1 .. n |-> G[k]]
  <2>1. CASE n = Size
    <3>1. queue' = [queue EXCEPT ![1] = v]
      BY <1>2, <2>1 DEF poke
    <3>2. queue' = [k \in 1 .. n |-> IF k = 1 THEN v ELSE F[k]]
      BY <1>3, <3>1
    <3>3. \A k \in 1 .. n : (IF k = 1 THEN v ELSE F[k]) = G[k]
      BY <1>6, <2>1
    <3>4. QED BY <3>2, <3>3
  <2>2. CASE n # Size
    <3>1. queue' = queue
      BY <1>2, <2>2 DEF poke
    <3>2. \A k \in 1 .. n : F[k] = G[k]
      BY <1>6, <2>2
    <3>3. QED BY <1>3, <3>1, <3>2
  <2>3. QED BY <2>1, <2>2
<1>9. queue' = [k \in 1 .. n |-> slots'[Ring(f_head, k)]]
  BY <1>7, <1>8
<1>10. DOMAIN slots' = Slots
  BY <1>1
<1>11. QED BY <1>1, <1>5, <1>9, <1>10 DEF FifoInv

(* The ring is a bounded queue, of every size and with every choice of     *)
(* what wraps around, whatever is put in, taken out, poked and cleared.    *)
THEOREM FifoHolds == FifoSpec => []FifoIsQueue
<1>1. FifoInv /\ [FifoNext]_fifoVars => FifoInv'
  <2> SUFFICES ASSUME FifoInv, [FifoNext]_fifoVars PROVE FifoInv'
    OBVIOUS
  <2>1. CASE clear
    <3>1. 0 \in Slots
      BY FifoAssumption DEF Slots
    <3>2. /\ f_head' = 0 /\ f_tail' = 0 /\ m_empty' = TRUE /\ queue' = <<>>
          /\ UNCHANGED <<wraps, slots>>
      BY <2>1 DEF clear
    <3>3. Held' = 0
      BY <3>2 DEF Held
    <3>4. [k \in 1 .. 0 |-> slots[Ring(f_head', k)]] = <<>>
      OBVIOUS
    <3>5. QED BY <3>1, <3>2, <3>3, <3>4 DEF FifoInv
  <2>2. CASE UNCHANGED fifoVars
    BY <2>2 DEF fifoVars, FifoInv, Held
  <2>3. QED BY <2>1, <2>2, EnqueueStep, DequeueStep, PokeStep DEF FifoNext
<1>2. FifoInv => FifoIsQueue
  <2> SUFFICES ASSUME FifoInv PROVE FifoIsQueue
    OBVIOUS
  <2> DEFINE n == IF m_empty THEN 0 ELSE IF f_tail > f_head THEN f_tail - f_head
                                    ELSE f_tail + Size - f_head
  <2>1. n = Held
    BY DEF Held
  <2>2. /\ Held \in 0 .. Size /\ Len(queue) = Held
        /\ Held = Size <=> m_empty = FALSE /\ f_head = f_tail
    BY RingHolds
  <2>3. \A k \in 1 .. Held : slots[Ring(f_head, k)] = slots[(f_head + k - 1) % Size]
    <3>1. f_head \in Slots /\ \A k \in 1 .. Held : k \in 1 .. Size
      BY <2>2, FifoAssumption DEF FifoInv
    <3>2. QED BY <3>1, RingPlaces
  <2>4. queue = [k \in 1 .. Held |-> slots[(f_head + k - 1) % Size]]
    BY <2>3 DEF FifoInv
  <2>5. full <=> Len(queue) = Size
    BY <2>2 DEF full, FifoInv
  <2>6. m_empty => f_head = f_tail
    BY DEF FifoInv
  <2> HIDE DEF n
  <2>7. queue = [k \in 1 .. n |-> slots[(f_head + k - 1) % Size]]
    BY <2>1, <2>4
  <2>8. QED BY <2>5, <2>6, <2>7 DEF FifoIsQueue, n
<1>3. QED BY <1>1, <1>2, FifoStarts, PTL DEF FifoSpec

(***************************************************************************)
(* The cache.  Its three structures tell the same story: the elements, all *)
(* different, are the nodes of the mapping, one for a key, and the keys in *)
(* the order of the elements are those used last.                          *)
(***************************************************************************)
Arranged(E, K, M, size, R) ==
  /\ E \in Seq(Nodes) /\ R \in Seq(Nat) /\ Len(R) = Len(E) /\ size = Len(E)
  /\ \A i \in 1 .. Len(E) : R[i] = K[E[i]]
  /\ \A i, j \in 1 .. Len(E) : E[i] = E[j] => i = j
  /\ M = {E[i] : i \in 1 .. Len(E)}
  /\ \A m, n \in M : K[m] = K[n] => m = n

CacheInv ==
  /\ Arranged(m_elements, key, m_mapping, m_size, recent)
  /\ key \in [Nodes -> Nat] /\ m_size <= m_max_size /\ hinted = TRUE

(* Without elements there is nothing to tell.                              *)
LEMMA NothingArranged ==
  ASSUME NEW K
  PROVE  Arranged(<<>>, K, {}, 0, <<>>)
BY DEF Arranged

(* The mapping is as large as there are elements.                          *)
LEMMA MappingSize ==
  ASSUME NEW E, NEW K, NEW M, NEW size, NEW R, Arranged(E, K, M, size, R)
  PROVE  /\ M \subseteq Nodes /\ IsFiniteSet(M) /\ size \in Nat /\ Cardinality(M) = size
         /\ size = Len(E) /\ Len(R) = size
<1>1. E \in Seq(Nodes) /\ \A i, j \in 1 .. Len(E) : E[i] = E[j] => i = j
  BY DEF Arranged
<1>2. /\ IsFiniteSet({E[i] : i \in 1 .. Len(E)})
      /\ Cardinality({E[i] : i \in 1 .. Len(E)}) = Len(E)
  BY <1>1, DistinctCount
<1>3. {E[i] : i \in 1 .. Len(E)} \subseteq Nodes
  BY <1>1
<1>4. M = {E[i] : i \in 1 .. Len(E)} /\ size = Len(E) /\ Len(R) = Len(E)
  BY DEF Arranged
<1>5. Len(E) \in Nat
  BY <1>1
<1>6. QED BY <1>2, <1>3, <1>4, <1>5

(* What is erased leaves the rest arranged as it was.                      *)
LEMMA TakenOut ==
  ASSUME NEW E, NEW K, NEW M, NEW size, NEW R, Arranged(E, K, M, size, R), NEW gone \in SUBSET M
  PROVE  Arranged(Without(E, gone), K, M \ gone, Cardinality(M \ gone),
                  Without(R, {K[n] : n \in gone}))
<1> DEFINE lost == {K[n] : n \in gone}
           w == Without(E, gone)
           v == Without(R, lost)
           L == Len(w)
<1>1. /\ E \in Seq(Nodes) /\ R \in Seq(Nat) /\ Len(R) = Len(E)
      /\ \A i \in 1 .. Len(E) : R[i] = K[E[i]] /\ E[i] \in M
      /\ \A i, j \in 1 .. Len(E) : E[i] = E[j] => i = j
      /\ \A m \in M : \E i \in 1 .. Len(E) : m = E[i]
      /\ \A m, n \in M : K[m] = K[n] => m = n
  BY DEF Arranged
<1>2. \A p \in 1 .. Len(E) : E[p] \in gone <=> R[p] \in lost
  BY <1>1
<1> HIDE DEF lost
<1>3. w \in Seq(Nodes) /\ v \in Seq(Nat) /\ \E o : Leaves(E, gone, w, R, v, o)
  <2>1. KeepAlike(E, gone, R, lost, Len(E))
    BY <1>2 DEF KeepAlike
  <2> HIDE DEF w, v
  <2>2. /\ Without(E, gone) \in Seq(Nodes) /\ Without(R, lost) \in Seq(Nat)
        /\ \E o : Leaves(E, gone, Without(E, gone), R, Without(R, lost), o)
    BY <1>1, <2>1, WithoutBoth
  <2>3. QED BY <2>2 DEF w, v
<1>4. PICK o : Leaves(E, gone, w, R, v, o)
  BY <1>3
<1> HIDE DEF w, v
<1>5. L \in Nat /\ Len(E) \in Nat /\ Len(v) = L /\ \A i \in 1 .. L : o[i] \in 1 .. Len(E)
  <2>1. L \in Nat /\ Len(E) \in Nat
    BY <1>1, <1>3
  <2> HIDE DEF L
  <2>2. Len(v) = L /\ o \in [1 .. L -> 1 .. Len(E)]
    BY <1>4 DEF Leaves, L
  <2>3. QED BY <2>1, <2>2
<1> HIDE DEF L
<1>6. /\ \A i \in 1 .. L : w[i] = E[o[i]] /\ v[i] = R[o[i]] /\ E[o[i]] \notin gone
      /\ \A i, j \in 1 .. L : i < j => o[i] < o[j]
      /\ \A p \in 1 .. Len(E) : E[p] \notin gone => \E i \in 1 .. L : o[i] = p
  BY <1>4 DEF Leaves, L
<1>7. \A i \in 1 .. L : v[i] = K[w[i]]
  <2>1. \A p \in 1 .. Len(E) : R[p] = K[E[p]]
    BY <1>1
  <2>2. QED BY <1>5, <1>6, <2>1
<1>8. ASSUME NEW i \in 1 .. L, NEW j \in 1 .. L, w[i] = w[j] PROVE i = j
  <2>1. o[i] = o[j]
    BY <1>1, <1>5, <1>6, <1>8
  <2>2. ~ (i < j) /\ ~ (j < i)
    BY <1>5, <1>6, <2>1
  <2>3. QED BY <1>5, <2>2
<1>9. M \ gone = {w[i] : i \in 1 .. L}
  <2>1. ASSUME NEW m \in M \ gone PROVE \E i \in 1 .. L : m = w[i]
    <3>1. PICK p \in 1 .. Len(E) : m = E[p]
      BY <1>1
    <3>2. PICK i \in 1 .. L : o[i] = p
      BY <1>6, <3>1
    <3>3. QED BY <1>6, <3>1, <3>2
  <2>2. ASSUME NEW i \in 1 .. L PROVE w[i] \in M \ gone
    <3>1. o[i] \in 1 .. Len(E) /\ w[i] = E[o[i]] /\ E[o[i]] \notin gone
      BY <1>5, <1>6
    <3>2. QED BY <1>1, <3>1
  <2>3. QED BY <2>1, <2>2
<1>10. Cardinality(M \ gone) = L
  <2>1. \A i, j \in 1 .. Len(w) : w[i] = w[j] => i = j
    BY <1>8 DEF L
  <2>2. Cardinality({w[i] : i \in 1 .. Len(w)}) = Len(w)
    BY <1>3, <2>1, DistinctCount
  <2>3. QED BY <1>9, <2>2 DEF L
<1>11. \A m, n \in M \ gone : K[m] = K[n] => m = n
  BY <1>1
<1>12. Arranged(w, K, M \ gone, Cardinality(M \ gone), v)
  BY <1>3, <1>5, <1>7, <1>8, <1>9, <1>10, <1>11 DEF Arranged, L
<1>13. QED BY <1>12 DEF w, v, lost

(* A node with a key of its own can be put at the end.                     *)
LEMMA PutLast ==
  ASSUME NEW E, NEW K, NEW M, NEW size, NEW R, Arranged(E, K, M, size, R),
         NEW n \in Nodes, n \notin M, NEW k \in Nat, \A m \in M : K[m] # k,
         NEW L, \A m \in M : L[m] = K[m], L[n] = k
  PROVE  Arranged(Append(E, n), L, M \cup {n}, size + 1, Append(R, k))
<1> DEFINE len == Len(E)
           F == Append(E, n)
           Q == Append(R, k)
<1>1. /\ E \in Seq(Nodes) /\ R \in Seq(Nat) /\ Len(R) = len /\ size = len /\ len \in Nat
      /\ \A i \in 1 .. len : R[i] = K[E[i]] /\ E[i] \in M
      /\ \A i, j \in 1 .. len : E[i] = E[j] => i = j
      /\ \A m \in M : \E i \in 1 .. len : m = E[i]
      /\ \A m, q \in M : K[m] = K[q] => m = q
  BY DEF Arranged
<1>2. /\ F \in Seq(Nodes) /\ Len(F) = len + 1 /\ F[len + 1] = n
      /\ \A i \in 1 .. len : F[i] = E[i]
  BY <1>1
<1>3. /\ Q \in Seq(Nat) /\ Len(Q) = len + 1 /\ Q[len + 1] = k
      /\ \A i \in 1 .. len : Q[i] = R[i]
  BY <1>1
<1> HIDE DEF F, Q, len
<1>4. \A i \in 1 .. (len + 1) : i \in 1 .. len \/ i = len + 1
  BY <1>1
<1>5. \A i \in 1 .. (len + 1) : Q[i] = L[F[i]]
  BY <1>1, <1>2, <1>3, <1>4
<1>6. \A i, j \in 1 .. (len + 1) : F[i] = F[j] => i = j
  BY <1>1, <1>2, <1>4
<1>7. M \cup {n} = {F[i] : i \in 1 .. (len + 1)}
  <2>1. len + 1 \in 1 .. (len + 1) /\ \A i \in 1 .. len : i \in 1 .. (len + 1)
    BY <1>1
  <2>2. \A i \in 1 .. (len + 1) : F[i] \in M \cup {n}
    BY <1>1, <1>2, <1>4
  <2>3. \A m \in M \cup {n} : \E i \in 1 .. (len + 1) : m = F[i]
    BY <1>1, <1>2, <2>1
  <2>4. QED BY <2>2, <2>3
<1>8. \A m, q \in M \cup {n} : L[m] = L[q] => m = q
  BY <1>1
<1>9. Arranged(F, L, M \cup {n}, size + 1, Q)
  BY <1>1, <1>2, <1>3, <1>5, <1>6, <1>7, <1>8 DEF Arranged
<1>10. QED BY <1>9 DEF F, Q

(* The first element, which was used longest ago, can be dropped.          *)
LEMMA FirstDropped ==
  ASSUME NEW E, NEW K, NEW M, NEW size, NEW R, Arranged(E, K, M, size, R), size > 0
  PROVE  /\ Head(E) \in M
         /\ Arranged(Tail(E), K, M \ {Head(E)}, size - 1, Tail(R))
<1> DEFINE len == Len(E)
           T == Tail(E)
           Q == Tail(R)
           h == Head(E)
<1>1. /\ E \in Seq(Nodes) /\ R \in Seq(Nat) /\ Len(R) = len /\ size = len /\ len \in Nat
      /\ len > 0
      /\ \A i \in 1 .. len : R[i] = K[E[i]] /\ E[i] \in M
      /\ \A i, j \in 1 .. len : E[i] = E[j] => i = j
      /\ \A m \in M : \E i \in 1 .. len : m = E[i]
      /\ \A m, q \in M : K[m] = K[q] => m = q
  BY DEF Arranged
<1>2. E # <<>> /\ R # <<>>
  BY <1>1
<1>3. T \in Seq(Nodes) /\ Len(T) = len - 1 /\ h = E[1] /\ \A i \in 1 .. (len - 1) : T[i] = E[i + 1]
  BY <1>1, <1>2
<1>4. Q \in Seq(Nat) /\ Len(Q) = len - 1 /\ \A i \in 1 .. (len - 1) : Q[i] = R[i + 1]
  BY <1>1, <1>2
<1> HIDE DEF T, Q, len, h
<1>5. /\ 1 \in 1 .. len /\ len - 1 \in Nat
      /\ \A i \in 1 .. (len - 1) : i + 1 \in 1 .. len /\ i + 1 # 1
      /\ \A i, j \in 1 .. (len - 1) : i + 1 = j + 1 => i = j
      /\ \A i \in 1 .. len : i = 1 \/ \E j \in 1 .. (len - 1) : i = j + 1
  <2>1. ASSUME NEW i \in 1 .. len, i # 1 PROVE \E j \in 1 .. (len - 1) : i = j + 1
    <3>1. i - 1 \in 1 .. (len - 1) /\ i = (i - 1) + 1
      BY <1>1, <2>1
    <3>2. QED BY <3>1
  <2>2. QED BY <1>1, <2>1
<1>6. h \in M
  BY <1>1, <1>3, <1>5
<1>7. ASSUME NEW i \in 1 .. (len - 1) PROVE Q[i] = K[T[i]] /\ T[i] \in M /\ T[i] # h
  <2>1. i + 1 \in 1 .. len /\ i + 1 # 1 /\ T[i] = E[i + 1] /\ Q[i] = R[i + 1]
    BY <1>3, <1>4, <1>5
  <2>2. E[i + 1] # E[1]
    <3> DEFINE p == i + 1
    <3>1. p \in 1 .. len /\ p # 1
      BY <2>1
    <3> HIDE DEF p
    <3>2. E[p] # E[1]
      BY <1>1, <1>5, <3>1
    <3>3. QED BY <3>2 DEF p
  <2>3. QED BY <1>1, <1>3, <2>1, <2>2
<1>8. ASSUME NEW i \in 1 .. (len - 1), NEW j \in 1 .. (len - 1), T[i] = T[j] PROVE i = j
  <2>1. i + 1 \in 1 .. len /\ T[i] = E[i + 1] /\ j + 1 \in 1 .. len /\ T[j] = E[j + 1]
    BY <1>3, <1>5
  <2>2. i + 1 = j + 1
    BY <1>1, <1>8, <2>1
  <2>3. QED BY <1>5, <2>2
<1>9. M \ {h} = {T[i] : i \in 1 .. (len - 1)}
  <2>1. ASSUME NEW m \in M \ {h} PROVE \E i \in 1 .. (len - 1) : m = T[i]
    <3>1. PICK p \in 1 .. len : m = E[p]
      BY <1>1
    <3>2. p # 1
      BY <1>3, <3>1
    <3>3. PICK i \in 1 .. (len - 1) : p = i + 1
      BY <1>5, <3>2
    <3>4. QED BY <1>3, <3>1, <3>3
  <2>2. QED BY <1>7, <2>1
<1>10. Arranged(T, K, M \ {h}, size - 1, Q)
  <2>1. /\ T \in Seq(Nodes) /\ Q \in Seq(Nat) /\ Len(T) = len - 1 /\ Len(Q) = Len(T)
        /\ size - 1 = Len(T) /\ \A m, q \in M \ {h} : K[m] = K[q] => m = q
    BY <1>1, <1>3, <1>4
  <2>2. /\ \A i \in 1 .. Len(T) : Q[i] = K[T[i]]
        /\ \A i, j \in 1 .. Len(T) : T[i] = T[j] => i = j
        /\ M \ {h} = {T[i] : i \in 1 .. Len(T)}
    BY <1>3, <1>7, <1>8, <1>9
  <2>3. QED BY <2>1, <2>2 DEF Arranged
<1>11. QED BY <1>6, <1>10 DEF T, Q, h

(* The lowest of some nodes is one of them, and none has a lower key.      *)
LEMMA LowestIs ==
  ASSUME key \in [Nodes -> Nat], NEW S \in SUBSET Nodes, S # {}
  PROVE  Lowest(S) \in S /\ \A m \in S : key[Lowest(S)] <= key[m]
<1> DEFINE T == {key[m] : m \in S}
<1>1. T \in SUBSET Nat /\ T # {}
  OBVIOUS
<1>2. PICK x \in T : \A y \in T : x <= y
  <2> HIDE DEF T
  <2>1. QED BY <1>1, LeastExists
<1>3. \E n \in S : \A m \in S : key[n] <= key[m]
  BY <1>2
<1>4. QED BY <1>3 DEF Lowest

(* The position of a key is that of the node that has it, if one does, and *)
(* else a position of the mapping or its end.                              *)
LEMMA PositionIs ==
  ASSUME CacheInv, NEW k \in Nat
  PROVE  /\ lower_bound(k) \in m_mapping \cup {End}
         /\ Found(k) # {} => Found(k) = {lower_bound(k)}
<1> DEFINE at == {n \in m_mapping : key[n] >= k}
<1>1. /\ m_mapping \subseteq Nodes /\ key \in [Nodes -> Nat]
      /\ \A m, n \in m_mapping : key[m] = key[n] => m = n
  <2>1. Arranged(m_elements, key, m_mapping, m_size, recent) /\ key \in [Nodes -> Nat]
    BY DEF CacheInv
  <2>2. m_mapping \subseteq Nodes
    BY <2>1, MappingSize
  <2>3. QED BY <2>1, <2>2 DEF Arranged
<1>2. lower_bound(k) = IF at = {} THEN End ELSE Lowest(at)
  BY DEF lower_bound
<1>3. at # {} => Lowest(at) \in at /\ \A m \in at : key[Lowest(at)] <= key[m]
  <2>1. at \in SUBSET Nodes
    BY <1>1
  <2> HIDE DEF at
  <2>2. QED BY <1>1, <2>1, LowestIs
<1>4. ASSUME NEW n \in Found(k) PROVE Found(k) = {n} /\ lower_bound(k) = n
  <2>1. n \in m_mapping /\ key[n] = k /\ n \in at
    BY DEF Found
  <2>2. key[Lowest(at)] = k /\ Lowest(at) \in m_mapping
    <3>1. Lowest(at) \in at /\ key[Lowest(at)] <= key[n]
      BY <1>3, <2>1
    <3>2. Lowest(at) \in m_mapping /\ key[Lowest(at)] >= k /\ key[Lowest(at)] \in Nat
      BY <1>1, <3>1
    <3>3. QED BY <2>1, <3>1, <3>2
  <2>3. Lowest(at) = n
    BY <1>1, <2>1, <2>2
  <2>4. \A m \in Found(k) : m = n
    BY <1>1, <2>1 DEF Found
  <2>5. QED BY <1>2, <2>1, <2>3, <2>4
<1>5. QED BY <1>2, <1>3, <1>4

(* The position after a node is another one of the mapping, or its end.    *)
LEMMA NextIs ==
  ASSUME CacheInv, NEW n
  PROVE  NextOf(n) \in (m_mapping \ {n}) \cup {End}
<1> DEFINE at == {m \in m_mapping : key[m] > key[n]}
<1>1. m_mapping \subseteq Nodes /\ key \in [Nodes -> Nat]
  BY MappingSize DEF CacheInv
<1>2. NextOf(n) = IF at = {} THEN End ELSE Lowest(at)
  BY DEF NextOf
<1>3. CASE at = {}
  BY <1>2, <1>3
<1>4. CASE at # {}
  <2>1. at \in SUBSET Nodes
    BY <1>1
  <2>2. Lowest(at) \in at
    <3> HIDE DEF at
    <3>1. QED BY <1>1, <1>4, <2>1, LowestIs
  <2>3. Lowest(at) \in m_mapping /\ key[Lowest(at)] > key[n] /\ Lowest(at) \in Nodes
    BY <1>1, <2>2
  <2>4. Lowest(at) # n
    <3>1. SUFFICES ASSUME Lowest(at) = n PROVE FALSE
      OBVIOUS
    <3>2. key[n] > key[n] /\ key[n] \in Nat
      BY <1>1, <2>3, <3>1
    <3>3. QED BY <3>2
  <2>5. QED BY <1>2, <1>4, <2>3, <2>4
<1>5. QED BY <1>3, <1>4

(* There is always a node that is not in use.                              *)
LEMMA FreeNode ==
  ASSUME CacheInv
  PROVE  Min(Nodes \ ToSet(m_elements)) \in Nodes \ m_mapping
<1>1. /\ m_max_size \in Nat \ {0} /\ m_size <= m_max_size
      /\ Arranged(m_elements, key, m_mapping, m_size, recent)
  BY LruCacheAssumption DEF CacheInv
<1>2. /\ m_mapping \subseteq Nodes /\ IsFiniteSet(m_mapping) /\ m_size \in Nat
      /\ Cardinality(m_mapping) = m_size
  BY <1>1, MappingSize
<1>3. m_mapping = ToSet(m_elements)
  <2>1. m_elements \in Seq(Nodes) /\ m_mapping = {m_elements[i] : i \in 1 .. Len(m_elements)}
    BY <1>1 DEF Arranged
  <2>2. QED BY <2>1 DEF ToSet
<1>4. Cardinality(Nodes) = m_max_size + 1
  <2>1. 1 \in Int /\ m_max_size + 1 \in Int
    BY <1>1
  <2>2. Cardinality(Nodes) = IF 1 > m_max_size + 1 THEN 0 ELSE (m_max_size + 1) - 1 + 1
    BY <2>1, FS_Interval DEF Nodes
  <2>3. ~ (1 > m_max_size + 1) /\ (m_max_size + 1) - 1 + 1 = m_max_size + 1
    BY <1>1
  <2>4. QED BY <2>2, <2>3
<1> DEFINE free == Nodes \ m_mapping
<1>5. free # {} /\ free \in SUBSET Nat
  <2>1. m_mapping # Nodes
    BY <1>1, <1>2, <1>4
  <2>2. Nodes \subseteq Nat
    BY <1>1 DEF Nodes
  <2>3. QED BY <1>2, <2>1, <2>2
<1> HIDE DEF free
<1>6. Min(free) \in free
  BY <1>5, MinIsLeast
<1>7. QED BY <1>3, <1>6 DEF free

(* Erasing leaves the invariant.                                           *)
LEMMA ErasingKeeps ==
  ASSUME CacheInv, NEW gone \in SUBSET m_mapping,
         m_elements' = Without(m_elements, gone), m_mapping' = m_mapping \ gone,
         m_size' = m_size - Cardinality(gone), UNCHANGED <<key, hinted>>,
         recent' = Without(recent, {key[n] : n \in gone})
  PROVE  CacheInv'
<1>1. /\ Arranged(m_elements, key, m_mapping, m_size, recent)
      /\ key \in [Nodes -> Nat] /\ m_size <= m_max_size /\ hinted = TRUE /\ m_max_size \in Nat
  BY LruCacheAssumption DEF CacheInv
<1>2. IsFiniteSet(m_mapping) /\ m_size \in Nat /\ Cardinality(m_mapping) = m_size
  BY <1>1, MappingSize
<1>3. IsFiniteSet(gone) /\ Cardinality(gone) \in Nat
  BY <1>2, FS_Subset, FS_CardinalityType
<1>4. Cardinality(m_mapping \ gone) = m_size - Cardinality(gone)
  <2>1. m_mapping \cap gone = gone
    OBVIOUS
  <2>2. Cardinality(m_mapping \ gone) = Cardinality(m_mapping) - Cardinality(m_mapping \cap gone)
    BY <1>2, FS_Difference
  <2>3. QED BY <1>2, <2>1, <2>2
<1>5. Arranged(m_elements', key, m_mapping', m_size', recent')
  <2>1. Arranged(Without(m_elements, gone), key, m_mapping \ gone, Cardinality(m_mapping \ gone),
                 Without(recent, {key[n] : n \in gone}))
    BY <1>1, TakenOut
  <2>2. QED BY <1>4, <2>1
<1>6. m_size' <= m_max_size
  BY <1>1, <1>2, <1>3
<1>7. QED BY <1>1, <1>5, <1>6 DEF CacheInv

(* What is freshened becomes the last of the elements and of the keys.     *)
LEMMA FresheningKeeps ==
  ASSUME CacheInv, NEW k \in Nat, Found(k) # {}, Freshen(lower_bound(k)), Use(k)
  PROVE  CacheInv'
<1> DEFINE n == lower_bound(k)
           w == Without(m_elements, {n})
           v == Without(recent, {k})
           c == Cardinality(m_mapping \ {n})
<1>1. /\ Arranged(m_elements, key, m_mapping, m_size, recent)
      /\ key \in [Nodes -> Nat] /\ m_size <= m_max_size /\ hinted = TRUE /\ m_max_size \in Nat
  BY LruCacheAssumption DEF CacheInv
<1>2. /\ IsFiniteSet(m_mapping) /\ m_size \in Nat /\ Cardinality(m_mapping) = m_size
      /\ m_mapping \subseteq Nodes
  BY <1>1, MappingSize
<1>3. Found(k) = {n}
  BY PositionIs
<1>4. n \in m_mapping /\ key[n] = k
  BY <1>3 DEF Found
<1> HIDE DEF n
<1>5. c = m_size - 1
  BY <1>2, <1>4, FS_RemoveElement
<1>6. Arranged(w, key, m_mapping \ {n}, c, v)
  <2>1. {n} \in SUBSET m_mapping /\ {key[q] : q \in {n}} = {k}
    BY <1>4
  <2>2. Arranged(Without(m_elements, {n}), key, m_mapping \ {n}, Cardinality(m_mapping \ {n}),
                 Without(recent, {key[q] : q \in {n}}))
    BY <1>1, <2>1, TakenOut
  <2>3. QED BY <2>1, <2>2
<1> HIDE DEF w, v, c
<1>7. Len(v) = c
  BY <1>6, MappingSize
<1>8. Len(v) # m_max_size
  BY <1>1, <1>2, <1>5, <1>7
<1>9. /\ m_elements' = Append(w, n) /\ recent' = Append(v, k)
      /\ UNCHANGED <<key, m_mapping, m_size, hinted>>
  BY <1>8 DEF Freshen, Use, w, v, n
<1>10. Arranged(Append(w, n), key, (m_mapping \ {n}) \cup {n}, c + 1, Append(v, k))
  <2>1. \A m \in m_mapping \ {n} : key[m] # k
    BY <1>1, <1>4 DEF Arranged
  <2>2. n \in Nodes /\ n \notin m_mapping \ {n}
    BY <1>2, <1>4
  <2>3. \A m \in m_mapping \ {n} : key[m] = key[m]
    OBVIOUS
  <2>4. QED BY <1>4, <1>6, <2>1, <2>2, <2>3, PutLast
<1>11. (m_mapping \ {n}) \cup {n} = m_mapping /\ c + 1 = m_size
  BY <1>2, <1>4, <1>5
<1>12. Arranged(m_elements', key', m_mapping', m_size', recent')
  BY <1>9, <1>10, <1>11
<1>13. QED BY <1>1, <1>9, <1>12 DEF CacheInv

(* What make_space leaves: a free place, and a position that is still one. *)
SpaceLeft(room, R) ==
  /\ Arranged(room.elements, key, room.mapping, room.size, R)
  /\ room.mapping \subseteq m_mapping /\ room.size < m_max_size
  /\ room.existing \in room.mapping \cup {End}

(* make_space takes the element at the end of the list, and only when the  *)
(* cache is full.                                                          *)
LEMMA SpaceIsMade ==
  ASSUME CacheInv, NEW existing \in m_mapping \cup {End}
  PROVE  SpaceLeft(make_space(existing), IF Len(recent) = m_max_size THEN Tail(recent) ELSE recent)
<1> DEFINE oldest == Head(m_elements)
           room == make_space(existing)
<1>1. /\ Arranged(m_elements, key, m_mapping, m_size, recent)
      /\ key \in [Nodes -> Nat] /\ m_size <= m_max_size /\ m_max_size \in Nat /\ m_max_size > 0
  BY LruCacheAssumption DEF CacheInv
<1>2. m_size \in Nat /\ Len(recent) = m_size /\ m_mapping \subseteq Nodes
  BY <1>1, MappingSize
<1>3. CASE m_size = m_max_size
  <2>1. /\ room.elements = Tail(m_elements) /\ room.mapping = m_mapping \ {oldest}
        /\ room.size = m_size - 1
        /\ room.existing = IF existing = oldest THEN NextOf(existing) ELSE existing
    BY <1>1, <1>3 DEF make_space
  <2>2. oldest \in m_mapping
        /\ Arranged(Tail(m_elements), key, m_mapping \ {oldest}, m_size - 1, Tail(recent))
    BY <1>1, <1>3, FirstDropped
  <2>3. room.existing \in room.mapping \cup {End}
    <3> HIDE DEF oldest, room
    <3>1. CASE existing = oldest
      BY <2>1, <3>1, NextIs
    <3>2. CASE existing # oldest
      BY <2>1, <3>2
    <3>3. QED BY <3>1, <3>2
  <2> HIDE DEF room, oldest
  <2>4. room.size < m_max_size /\ room.mapping \subseteq m_mapping
    BY <1>1, <1>3, <2>1
  <2>5. (IF Len(recent) = m_max_size THEN Tail(recent) ELSE recent) = Tail(recent)
    BY <1>2, <1>3
  <2>6. Arranged(room.elements, key, room.mapping, room.size, Tail(recent))
    BY <2>1, <2>2
  <2>7. QED BY <2>3, <2>4, <2>5, <2>6 DEF SpaceLeft, room
<1>4. CASE m_size # m_max_size
  <2>1. ~ (m_max_size <= m_size) /\ m_size < m_max_size
    BY <1>1, <1>2, <1>4
  <2>2. /\ room.elements = m_elements /\ room.mapping = m_mapping
        /\ room.size = m_size /\ room.existing = existing
    BY <2>1 DEF make_space
  <2>3. (IF Len(recent) = m_max_size THEN Tail(recent) ELSE recent) = recent
    BY <1>2, <1>4
  <2>4. QED BY <1>1, <2>1, <2>2, <2>3 DEF SpaceLeft
<1>5. QED BY <1>3, <1>4

(* What is new is put at the end, on a node that was free, at a position   *)
(* that is valid.                                                          *)
LEMMA InsertingKeeps ==
  ASSUME CacheInv, NEW k \in Nat, Found(k) = {}, InsertNew(k), Use(k)
  PROVE  CacheInv'
<1> DEFINE n == Min(Nodes \ ToSet(m_elements))
           room == make_space(lower_bound(k))
           R == IF Len(recent) = m_max_size THEN Tail(recent) ELSE recent
<1>1. /\ Arranged(m_elements, key, m_mapping, m_size, recent)
      /\ key \in [Nodes -> Nat] /\ m_size <= m_max_size /\ hinted = TRUE /\ m_max_size \in Nat
  BY LruCacheAssumption DEF CacheInv
<1>2. n \in Nodes /\ n \notin m_mapping
  BY FreeNode
<1>3. SpaceLeft(room, R)
  BY PositionIs, SpaceIsMade
<1>4. \A m \in m_mapping : key[m] # k
  BY DEF Found
<1>5. Without(recent, {k}) = recent
  <2>1. /\ recent \in Seq(Nat) /\ Len(recent) = Len(m_elements)
        /\ \A p \in 1 .. Len(m_elements) : recent[p] = key[m_elements[p]] /\ m_elements[p] \in m_mapping
    BY <1>1 DEF Arranged
  <2>2. \A p \in 1 .. Len(recent) : recent[p] \notin {k}
    BY <1>4, <2>1
  <2>3. QED BY <2>1, <2>2, WithoutNone
<1>6. /\ m_elements' = Append(room.elements, n) /\ key' = [key EXCEPT ![n] = k]
      /\ m_mapping' = room.mapping \cup {n} /\ m_size' = room.size + 1
      /\ hinted' = (hinted /\ room.existing \in room.mapping \cup {End})
  BY DEF InsertNew
<1>7. recent' = Append(R, k)
  BY <1>5 DEF Use
<1> HIDE DEF n, room, R
<1>8. /\ Arranged(room.elements, key, room.mapping, room.size, R)
      /\ room.mapping \subseteq m_mapping /\ room.size < m_max_size
      /\ room.existing \in room.mapping \cup {End}
  BY <1>3 DEF SpaceLeft
<1>9. /\ key' \in [Nodes -> Nat] /\ key'[n] = k /\ \A m \in room.mapping : key'[m] = key[m]
      /\ n \notin room.mapping
  <2>1. room.mapping \subseteq Nodes
    BY <1>8, MappingSize
  <2>2. QED BY <1>1, <1>2, <1>6, <1>8, <2>1
<1>10. Arranged(m_elements', key', m_mapping', m_size', recent')
  <2>1. \A m \in room.mapping : key[m] # k
    BY <1>4, <1>8
  <2>2. Arranged(Append(room.elements, n), key', room.mapping \cup {n}, room.size + 1, Append(R, k))
    BY <1>2, <1>8, <1>9, <2>1, PutLast
  <2>3. QED BY <1>6, <1>7, <2>2
<1>11. m_size' <= m_max_size
  <2>1. room.size \in Nat
    BY <1>8, MappingSize
  <2>2. QED BY <1>1, <1>6, <1>8, <2>1
<1>12. hinted' = TRUE
  BY <1>1, <1>6, <1>8
<1>13. QED BY <1>9, <1>10, <1>11, <1>12 DEF CacheInv

(* Every operation keeps the list and the map of the cache in step with    *)
(* the order of use.                                                       *)
LEMMA CacheStep ==
  ASSUME CacheInv, [CacheNext]_cacheVars
  PROVE  CacheInv'
<1>1. /\ Arranged(m_elements, key, m_mapping, m_size, recent)
      /\ key \in [Nodes -> Nat] /\ m_size <= m_max_size /\ hinted = TRUE /\ m_max_size \in Nat
      /\ Keys \subseteq Nat
  BY LruCacheAssumption DEF CacheInv
<1>2. CASE clear_cache
  <2>1. /\ m_elements' = <<>> /\ m_mapping' = {} /\ m_size' = 0 /\ recent' = <<>>
        /\ key' = key /\ hinted' = hinted
    BY <1>2 DEF clear_cache
  <2>2. Arranged(m_elements', key', m_mapping', m_size', recent')
    BY <2>1, NothingArranged
  <2>3. QED BY <1>1, <2>1, <2>2 DEF CacheInv
<1>3. ASSUME NEW k \in Keys, insert(k) PROVE CacheInv'
  <2>1. k \in Nat /\ Use(k)
    BY <1>1, <1>3 DEF insert
  <2>2. CASE Found(k) # {}
    <3>1. Freshen(lower_bound(k))
      BY <1>3, <2>2 DEF insert
    <3>2. QED BY <2>1, <2>2, <3>1, FresheningKeeps
  <2>3. CASE Found(k) = {}
    <3>1. InsertNew(k)
      BY <1>3, <2>3 DEF insert
    <3>2. QED BY <2>1, <2>3, <3>1, InsertingKeeps
  <2>4. QED BY <2>2, <2>3
<1>4. CASE UNCHANGED cacheVars
  BY <1>4 DEF CacheInv, cacheVars, Arranged
<1>5. ASSUME NEW k \in Keys, find_key(k) PROVE CacheInv'
  <2>1. CASE Found(k) # {}
    <3>1. k \in Nat /\ Use(k) /\ Freshen(lower_bound(k))
      BY <1>1, <1>5, <2>1 DEF find_key
    <3>2. QED BY <2>1, <3>1, FresheningKeeps
  <2>2. CASE Found(k) = {}
    BY <1>4, <1>5, <2>2 DEF find_key
  <2>3. QED BY <2>1, <2>2
<1>6. ASSUME NEW k \in Keys, erase_key(k) PROVE CacheInv'
  <2> DEFINE n == lower_bound(k)
  <2>1. /\ Found(k) # {} /\ m_elements' = Without(m_elements, Found(k))
        /\ m_mapping' = m_mapping \ Found(k) /\ m_size' = m_size - 1
        /\ recent' = Without(recent, {k}) /\ UNCHANGED <<key, hinted>>
    BY <1>6 DEF erase_key
  <2>2. Found(k) = {n}
    BY <1>1, <2>1, PositionIs
  <2>3. n \in m_mapping /\ key[n] = k
    BY <2>2 DEF Found
  <2> HIDE DEF n
  <2>4. {n} \in SUBSET m_mapping /\ {key[q] : q \in {n}} = {k} /\ Cardinality({n}) = 1
    <3>1. Cardinality({n}) = 1
      BY FS_Singleton
    <3>2. QED BY <2>3, <3>1
  <2>5. m_size' = m_size - Cardinality({n}) /\ recent' = Without(recent, {key[q] : q \in {n}})
    BY <2>1, <2>4
  <2>6. QED BY <2>1, <2>2, <2>4, <2>5, ErasingKeeps
<1>7. ASSUME NEW first \in 1 .. (m_max_size + 1), NEW last \in 1 .. (m_max_size + 1),
             erase_range(first, last)
      PROVE  CacheInv'
  <2> DEFINE gone == {m_elements[i] : i \in first .. (last - 1)}
  <2>1. /\ 1 <= first /\ first < last /\ last <= Len(m_elements) + 1
        /\ m_elements' = Without(m_elements, gone) /\ m_mapping' = m_mapping \ gone
        /\ m_size' = m_size - Cardinality(gone) /\ UNCHANGED <<key, hinted>>
        /\ recent' = Without(recent, {key[n] : n \in gone})
    BY <1>7 DEF erase_range
  <2>2. gone \in SUBSET m_mapping
    <3>1. /\ Len(m_elements) \in Nat
          /\ m_mapping = {m_elements[i] : i \in 1 .. Len(m_elements)}
      BY <1>1 DEF Arranged
    <3>2. \A i \in first .. (last - 1) : i \in 1 .. Len(m_elements)
      BY <1>1, <2>1, <3>1
    <3>3. QED BY <3>1, <3>2
  <2> HIDE DEF gone
  <2>3. QED BY <2>1, <2>2, ErasingKeeps
<1>8. QED BY <1>2, <1>3, <1>4, <1>5, <1>6, <1>7 DEF CacheNext

(* The cache is coherent, whatever the keys and its size: what is asked of *)
(* it is what is there, and what goes is what was used longest ago.        *)
THEOREM CacheHolds == CacheSpec => []CacheCoherent
<1>1. CacheInit => CacheInv
  <2> SUFFICES ASSUME CacheInit PROVE CacheInv
    OBVIOUS
  <2>2. /\ m_elements = <<>> /\ m_mapping = {} /\ m_size = 0 /\ recent = <<>> /\ hinted = TRUE
        /\ key \in [Nodes -> Nat] /\ m_max_size \in Nat
    <3>1. key = [n \in Nodes |-> 0] /\ m_max_size \in Nat
      BY LruCacheAssumption DEF CacheInit
    <3>2. key \in [Nodes -> Nat]
      BY <3>1
    <3>3. m_elements = <<>> /\ m_mapping = {} /\ m_size = 0 /\ recent = <<>> /\ hinted = TRUE
      BY DEF CacheInit
    <3>4. QED BY <3>1, <3>2, <3>3
  <2>3. Arranged(m_elements, key, m_mapping, m_size, recent)
    BY <2>2, NothingArranged
  <2>4. QED BY <2>2, <2>3 DEF CacheInv
<1>2. CacheInv /\ [CacheNext]_cacheVars => CacheInv'
  BY CacheStep
<1>3. CacheInv => CacheCoherent
  <2> SUFFICES ASSUME CacheInv PROVE CacheCoherent
    OBVIOUS
  <2>2. Arranged(m_elements, key, m_mapping, m_size, recent) /\ m_size <= m_max_size /\ hinted
    <3>1. hinted = TRUE
      BY DEF CacheInv
    <3>2. hinted
      BY <3>1, Zenon
    <3>3. Arranged(m_elements, key, m_mapping, m_size, recent) /\ m_size <= m_max_size
      BY DEF CacheInv
    <3>4. QED BY <3>2, <3>3
  <2>3. m_size = Cardinality(m_mapping) /\ m_size = Len(m_elements)
    BY <2>2, MappingSize
  <2> DEFINE len == Len(m_elements)
  <2>4. /\ m_elements \in Seq(Nodes) /\ recent \in Seq(Nat) /\ Len(recent) = len /\ len \in Nat
        /\ m_mapping = {m_elements[i] : i \in 1 .. len}
        /\ \A i \in 1 .. len : recent[i] = key[m_elements[i]]
        /\ \A m, n \in m_mapping : key[m] = key[n] => m = n
    BY <2>2 DEF Arranged
  <2>5. DOMAIN m_elements = 1 .. len /\ recent = [i \in 1 .. len |-> recent[i]]
    BY <2>4
  <2> HIDE DEF len
  <2>6. [i \in DOMAIN m_elements |-> key[m_elements[i]]] = recent
    BY <2>4, <2>5
  <2>7. m_mapping = ToSet(m_elements)
    BY <2>4, <2>5 DEF ToSet
  <2>8. QED BY <2>2, <2>3, <2>4, <2>6, <2>7 DEF CacheCoherent
<1>4. QED BY <1>1, <1>2, <1>3, PTL DEF CacheSpec

---------------------------------------------------------------------------------
(* Lists.  The objects s are linked by nx from h to t.                     *)
Chain(s, h, t, nx) ==
  /\ s \in Seq(Objects)
  /\ \A i, j \in 1 .. Len(s) : s[i] = s[j] => i = j
  /\ \A i \in 1 .. (Len(s) - 1) : nx[s[i]] = s[i + 1]
  /\ s = <<>> => h = Null /\ t = Null
  /\ s # <<>> => h = s[1] /\ t = s[Len(s)] /\ nx[t] = Null

(* v is s with o at position i, without what is there, or with o there.    *)
Inserted(v, s, i, o) ==
  /\ v \in Seq(Objects) /\ Len(v) = Len(s) + 1 /\ v[i] = o
  /\ \A j \in 1 .. Len(s) : v[IF j < i THEN j ELSE j + 1] = s[j]

Removed(v, s, i) ==
  /\ v \in Seq(Objects) /\ Len(v) = Len(s) - 1
  /\ \A j \in 1 .. (Len(s) - 1) : v[j] = s[IF j < i THEN j ELSE j + 1]

Replaced(v, s, i, o) ==
  /\ v \in Seq(Objects) /\ Len(v) = Len(s) /\ v[i] = o
  /\ \A j \in 1 .. Len(s) : j # i => v[j] = s[j]

(* The elements of a sequence of objects.                                  *)
LEMMA ElementsAre ==
  ASSUME NEW s \in Seq(Objects)
  PROVE  /\ Len(s) \in Nat /\ DOMAIN s = 1 .. Len(s) /\ ToSet(s) = {s[i] : i \in 1 .. Len(s)}
         /\ \A i \in 1 .. Len(s) : s[i] \in Objects /\ s[i] \in ToSet(s) /\ s[i] # Null
         /\ s = <<>> <=> Len(s) = 0
         /\ \A x \in ToSet(s) : \E i \in 1 .. Len(s) : s[i] = x
BY SimpleListAssumption DEF ToSet

(* A list does not change with the links of objects that are not in it.    *)
LEMMA ChainFrame ==
  ASSUME NEW s, NEW h, NEW t, NEW nx, Chain(s, h, t, nx), NEW ny,
         \A x \in ToSet(s) : ny[x] = nx[x]
  PROVE  Chain(s, h, t, ny)
<1>1. s \in Seq(Objects)
  BY DEF Chain
<1>2. Len(s) \in Nat /\ \A i \in 1 .. Len(s) : ny[s[i]] = nx[s[i]]
  BY <1>1, ElementsAre
<1>3. \A i \in 1 .. (Len(s) - 1) : i \in 1 .. Len(s)
  BY <1>2
<1>4. s # <<>> => Len(s) \in 1 .. Len(s)
  BY <1>1, <1>2, ElementsAre
<1>5. QED BY <1>1, <1>2, <1>3, <1>4 DEF Chain

(* The places of a sequence with one more element.                         *)
LEMMA InsertedHas ==
  ASSUME NEW s \in Seq(Objects), NEW i \in 1 .. (Len(s) + 1), NEW o, NEW v, Inserted(v, s, i, o)
  PROVE  /\ \A j \in 1 .. (i - 1) : v[j] = s[j]
         /\ v[i] = o
         /\ \A j \in (i + 1) .. (Len(s) + 1) : v[j] = s[j - 1]
         /\ Len(v) = Len(s) + 1 /\ Len(s) \in Nat /\ v \in Seq(Objects)
<1>1. Len(s) \in Nat /\ Len(v) = Len(s) + 1 /\ v \in Seq(Objects)
  BY DEF Inserted
<1>2. \A j \in 1 .. (i - 1) : v[j] = s[j]
  BY <1>1 DEF Inserted
<1>3. ASSUME NEW j \in (i + 1) .. (Len(s) + 1) PROVE v[j] = s[j - 1]
  <2>1. j - 1 \in 1 .. Len(s) /\ ~(j - 1 < i) /\ (j - 1) + 1 = j
    BY <1>1
  <2>2. QED BY <2>1 DEF Inserted
<1>4. QED BY <1>1, <1>2, <1>3 DEF Inserted

(* An object goes into a list: it is linked to the one behind it, and the  *)
(* one before it to it.                                                    *)
LEMMA ChainInsert ==
  ASSUME NEW s, NEW h, NEW t, NEW nx, Chain(s, h, t, nx), NEW i \in 1 .. (Len(s) + 1),
         NEW o \in Objects, o \notin ToSet(s), NEW v, Inserted(v, s, i, o), NEW ny,
         ny[o] = IF i <= Len(s) THEN s[i] ELSE Null,
         i > 1 => ny[s[i - 1]] = o,
         \A x \in ToSet(s) : (i > 1 /\ x = s[i - 1]) \/ ny[x] = nx[x]
  PROVE  /\ Chain(v, IF i = 1 THEN o ELSE h, IF i = Len(s) + 1 THEN o ELSE t, ny)
         /\ ToSet(v) = ToSet(s) \cup {o} /\ Len(v) = Len(s) + 1
<1>1. s \in Seq(Objects)
  BY DEF Chain
<1>2. /\ Len(s) \in Nat /\ \A j \in 1 .. Len(s) : s[j] \in Objects /\ s[j] \in ToSet(s) /\ s[j] # Null /\ s[j] # o
      /\ s = <<>> <=> Len(s) = 0
  BY <1>1, ElementsAre
<1>3. /\ \A j \in 1 .. (i - 1) : v[j] = s[j]
      /\ v[i] = o
      /\ \A j \in (i + 1) .. (Len(s) + 1) : v[j] = s[j - 1]
      /\ Len(v) = Len(s) + 1 /\ v \in Seq(Objects)
  BY <1>1, InsertedHas
<1>4. ToSet(v) = ToSet(s) \cup {o}
  <2>1. \A j \in 1 .. Len(v) : v[j] \in ToSet(s) \cup {o}
    <3>1. ASSUME NEW j \in 1 .. (Len(s) + 1), j > i PROVE v[j] \in ToSet(s)
      <4>1. j \in (i + 1) .. (Len(s) + 1) /\ j - 1 \in 1 .. Len(s)
        BY <1>2, <3>1
      <4>2. QED BY <1>2, <1>3, <4>1
    <3>2. ASSUME NEW j \in 1 .. (Len(s) + 1), j < i PROVE v[j] \in ToSet(s)
      <4>1. j \in 1 .. (i - 1) /\ j \in 1 .. Len(s)
        BY <1>2, <3>2
      <4>2. QED BY <1>2, <1>3, <4>1
    <3>3. QED BY <1>2, <1>3, <3>1, <3>2
  <2>2. \A x \in ToSet(v) : x \in ToSet(s) \cup {o}
    BY <1>3, <2>1, ElementsAre
  <2>3. ASSUME NEW j \in 1 .. Len(s) PROVE \E k \in 1 .. Len(v) : v[k] = s[j]
    <3>1. (IF j < i THEN j ELSE j + 1) \in 1 .. (Len(s) + 1)
      BY <1>2
    <3>2. QED BY <1>3, <3>1 DEF Inserted
  <2>4. \A j \in 1 .. Len(v) : v[j] \in ToSet(v)
    BY <1>3, ElementsAre
  <2>5. \A x \in ToSet(s) : x \in ToSet(v)
    BY <1>1, <2>3, <2>4, ElementsAre
  <2>6. o \in ToSet(v)
    BY <1>2, <1>3, <2>4
  <2>7. QED BY <2>2, <2>5, <2>6
<1>5. ASSUME NEW j \in 1 .. Len(v), NEW k \in 1 .. Len(v), v[j] = v[k] PROVE j = k
  <2>1. \A m \in 1 .. Len(v) : \/ m < i /\ m \in 1 .. Len(s) /\ v[m] = s[m]
                               \/ m = i /\ v[m] = o
                               \/ m > i /\ m - 1 \in 1 .. Len(s) /\ v[m] = s[m - 1]
    BY <1>2, <1>3
  <2>2. \A m, n \in 1 .. Len(s) : s[m] = s[n] => m = n
    BY DEF Chain
  <2> HIDE DEF Chain
  <2>3. j < i /\ k < i => j = k
    BY <1>5, <2>1, <2>2
  <2>4. j > i /\ k > i => j = k
    <3>1. SUFFICES ASSUME j > i, k > i PROVE j = k
      OBVIOUS
    <3>2. j - 1 \in 1 .. Len(s) /\ v[j] = s[j - 1] /\ k - 1 \in 1 .. Len(s) /\ v[k] = s[k - 1]
      BY <2>1, <3>1
    <3>3. j - 1 = k - 1
      BY <1>5, <2>2, <3>2
    <3>4. QED BY <3>3, <1>2, <1>3
  <2>5. ~ (j < i /\ k > i) /\ ~ (j > i /\ k < i)
    <3>1. ASSUME j < i, k > i PROVE j = k - 1
      <4>1. j \in 1 .. Len(s) /\ v[j] = s[j] /\ k - 1 \in 1 .. Len(s) /\ v[k] = s[k - 1]
        BY <2>1, <3>1
      <4>2. QED BY <1>5, <2>2, <4>1
    <3>2. ASSUME j > i, k < i PROVE j - 1 = k
      <4>1. j - 1 \in 1 .. Len(s) /\ v[j] = s[j - 1] /\ k \in 1 .. Len(s) /\ v[k] = s[k]
        BY <2>1, <3>2
      <4>2. QED BY <1>5, <2>2, <4>1
    <3>3. QED BY <3>1, <3>2, <1>2, <1>3
  <2>6. j = i => k = i
    BY <1>5, <1>2, <2>1
  <2>7. k = i => j = i
    BY <1>5, <1>2, <2>1
  <2>8. QED BY <2>3, <2>4, <2>5, <2>6, <2>7, <1>2, <1>3
<1>6. ASSUME NEW j \in 1 .. (Len(v) - 1) PROVE ny[v[j]] = v[j + 1]
  <2>1. CASE j < i - 1
    <3>1. j \in 1 .. (i - 1) /\ j + 1 \in 1 .. (i - 1) /\ j \in 1 .. (Len(s) - 1) /\ j \in 1 .. Len(s)
          /\ i - 1 \in 1 .. Len(s) /\ j # i - 1
      BY <1>2, <2>1
    <3>2. s[j] # s[i - 1] /\ nx[s[j]] = s[j + 1]
      BY <3>1 DEF Chain
    <3>3. QED BY <1>2, <1>3, <3>1, <3>2
  <2>2. CASE j = i - 1
    BY <1>2, <1>3, <2>2
  <2>3. CASE j = i
    <3>1. i \in 1 .. Len(s) /\ j + 1 \in (i + 1) .. (Len(s) + 1) /\ (j + 1) - 1 = i
      BY <1>2, <1>3, <2>3
    <3>2. QED BY <1>2, <1>3, <2>3, <3>1
  <2>4. CASE j > i
    <3>1. /\ j \in (i + 1) .. (Len(s) + 1) /\ j + 1 \in (i + 1) .. (Len(s) + 1) /\ (j + 1) - 1 = (j - 1) + 1
          /\ j - 1 \in 1 .. (Len(s) - 1) /\ j - 1 \in 1 .. Len(s)
          /\ i > 1 => i - 1 \in 1 .. Len(s) /\ j - 1 # i - 1
      BY <1>2, <1>3, <2>4
    <3>2. nx[s[j - 1]] = s[(j - 1) + 1] /\ (i > 1 => s[j - 1] # s[i - 1])
      BY <3>1 DEF Chain
    <3>3. v[j] = s[j - 1] /\ v[j + 1] = s[(j - 1) + 1]
      BY <1>3, <3>1
    <3>4. QED BY <1>2, <3>1, <3>2, <3>3
  <2>5. QED BY <2>1, <2>2, <2>3, <2>4, <1>2, <1>3
<1>7. v # <<>> /\ v[1] = (IF i = 1 THEN o ELSE h)
  <2>1. i # 1 => 1 \in 1 .. (i - 1) /\ s # <<>>
    BY <1>2
  <2>2. i # 1 => v[1] = h
    BY <1>3, <2>1 DEF Chain
  <2>3. QED BY <1>2, <1>3, <2>2, ElementsAre
<1>8. v[Len(v)] = (IF i = Len(s) + 1 THEN o ELSE t) /\ ny[v[Len(v)]] = Null
  <2>1. CASE i = Len(s) + 1
    BY <1>2, <1>3, <2>1
  <2>2. CASE i # Len(s) + 1
    <3>1. Len(v) \in (i + 1) .. (Len(s) + 1) /\ Len(v) - 1 = Len(s) /\ Len(s) \in 1 .. Len(s) /\ s # <<>>
      BY <1>2, <1>3, <2>2
    <3>2. v[Len(v)] = s[Len(s)] /\ t = s[Len(s)] /\ nx[t] = Null
      BY <1>3, <3>1 DEF Chain
    <3>3. i > 1 => i - 1 \in 1 .. Len(s) /\ i - 1 # Len(s)
      BY <1>2, <2>2
    <3>4. i > 1 => s[Len(s)] # s[i - 1]
      BY <3>1, <3>3 DEF Chain
    <3>5. QED BY <1>2, <2>2, <3>1, <3>2, <3>4
  <2>3. QED BY <2>1, <2>2
<1>9. QED BY <1>3, <1>4, <1>5, <1>6, <1>7, <1>8 DEF Chain

(* The places of a sequence with one element less.                         *)
LEMMA RemovedHas ==
  ASSUME NEW s \in Seq(Objects), NEW i \in 1 .. Len(s), NEW v, Removed(v, s, i)
  PROVE  /\ \A j \in 1 .. (i - 1) : v[j] = s[j]
         /\ \A j \in i .. (Len(s) - 1) : v[j] = s[j + 1]
         /\ Len(v) = Len(s) - 1 /\ Len(s) \in Nat /\ v \in Seq(Objects)
<1>1. Len(s) \in Nat /\ Len(v) = Len(s) - 1 /\ v \in Seq(Objects)
  BY DEF Removed
<1>2. QED BY <1>1 DEF Removed

(* An object is taken out: the one before is linked to the one behind.     *)
LEMMA ChainRemove ==
  ASSUME NEW s, NEW h, NEW t, NEW nx, Chain(s, h, t, nx), NEW i \in 1 .. Len(s),
         NEW v, Removed(v, s, i), NEW ny,
         i > 1 => ny[s[i - 1]] = nx[s[i]],
         \A x \in ToSet(s) : x = s[i] \/ (i > 1 /\ x = s[i - 1]) \/ ny[x] = nx[x]
  PROVE  /\ Chain(v, IF i = 1 THEN nx[s[i]] ELSE h,
                     IF i # Len(s) THEN t ELSE IF i = 1 THEN Null ELSE s[i - 1], ny)
         /\ ToSet(v) = ToSet(s) \ {s[i]} /\ Len(v) = Len(s) - 1
<1>1. s \in Seq(Objects)
  BY DEF Chain
<1>2. /\ Len(s) \in Nat /\ \A j \in 1 .. Len(s) : s[j] \in Objects /\ s[j] \in ToSet(s) /\ s[j] # Null
      /\ \A j \in 1 .. Len(s) : j # i => s[j] # s[i]
      /\ i > 1 => i - 1 \in 1 .. Len(s) /\ \A j \in 1 .. Len(s) : j # i - 1 => s[j] # s[i - 1]
      /\ h = s[1] /\ t = s[Len(s)] /\ nx[s[Len(s)]] = Null
      /\ \A j \in 1 .. (Len(s) - 1) : nx[s[j]] = s[j + 1]
  <2>1. Len(s) \in Nat /\ s # <<>> /\ \A j \in 1 .. Len(s) : s[j] \in Objects /\ s[j] \in ToSet(s) /\ s[j] # Null
    BY <1>1, ElementsAre
  <2>2. i > 1 => i - 1 \in 1 .. Len(s)
    BY <2>1
  <2>3. QED BY <2>1, <2>2 DEF Chain
<1>3. /\ \A j \in 1 .. (i - 1) : v[j] = s[j]
      /\ \A j \in i .. (Len(s) - 1) : v[j] = s[j + 1]
      /\ Len(v) = Len(s) - 1 /\ v \in Seq(Objects)
  BY <1>1, RemovedHas
<1>4. \A m \in 1 .. Len(v) : \/ m < i /\ m \in 1 .. Len(s) /\ v[m] = s[m]
                             \/ m >= i /\ m + 1 \in 1 .. Len(s) /\ v[m] = s[m + 1]
  BY <1>2, <1>3
<1>5. ToSet(v) = ToSet(s) \ {s[i]}
  <2>1. ToSet(v) = {v[j] : j \in 1 .. (Len(s) - 1)} /\ ToSet(s) = {s[j] : j \in 1 .. Len(s)}
    BY <1>1, <1>3, ElementsAre
  <2>2. \A m \in 1 .. (Len(s) - 1) : v[m] \in ToSet(s) \ {s[i]}
    BY <1>2, <1>3, <1>4
  <2>3. ASSUME NEW j \in 1 .. Len(s), j # i PROVE \E m \in 1 .. (Len(s) - 1) : v[m] = s[j]
    <3>1. CASE j < i
      <4>1. j \in 1 .. (i - 1) /\ j \in 1 .. (Len(s) - 1)
        BY <1>2, <3>1
      <4>2. QED BY <1>3, <4>1
    <3>2. CASE j > i
      <4>1. j - 1 \in i .. (Len(s) - 1) /\ j - 1 \in 1 .. (Len(s) - 1) /\ (j - 1) + 1 = j
        BY <1>2, <3>2
      <4>2. QED BY <1>3, <4>1
    <3>3. QED BY <2>3, <3>1, <3>2, <1>2
  <2>4. QED BY <2>1, <2>2, <2>3
<1>6. ASSUME NEW j \in 1 .. Len(v), NEW k \in 1 .. Len(v), v[j] = v[k] PROVE j = k
  <2>1. \A m, n \in 1 .. Len(s) : s[m] = s[n] => m = n
    BY DEF Chain
  <2>2. j < i /\ k < i => j = k
    BY <1>4, <1>6, <2>1
  <2>3. j >= i /\ k >= i => j + 1 = k + 1
    BY <1>4, <1>6, <2>1
  <2>4. j < i /\ k >= i => j = k + 1
    BY <1>4, <1>6, <2>1
  <2>5. j >= i /\ k < i => j + 1 = k
    BY <1>4, <1>6, <2>1
  <2>6. QED BY <1>2, <1>3, <2>2, <2>3, <2>4, <2>5
<1>7. ASSUME NEW j \in 1 .. (Len(v) - 1) PROVE ny[v[j]] = v[j + 1]
  <2>1. CASE j < i - 1
    <3>1. j \in 1 .. (i - 1) /\ j + 1 \in 1 .. (i - 1) /\ j \in 1 .. (Len(s) - 1) /\ j \in 1 .. Len(s) /\ j # i /\ j # i - 1
      BY <1>2, <2>1
    <3>2. QED BY <1>2, <1>3, <3>1
  <2>2. CASE j = i - 1
    <3>1. j \in 1 .. (i - 1) /\ j + 1 = i /\ i \in i .. (Len(s) - 1) /\ i \in 1 .. (Len(s) - 1) /\ i > 1
      BY <1>2, <1>3, <2>2
    <3>2. QED BY <1>2, <1>3, <2>2, <3>1
  <2>3. CASE j >= i
    <3>1. j \in i .. (Len(s) - 1) /\ j + 1 \in i .. (Len(s) - 1) /\ j + 1 \in 1 .. (Len(s) - 1) /\ j + 1 \in 1 .. Len(s)
          /\ j + 1 # i /\ j + 1 # i - 1
      BY <1>2, <1>3, <2>3
    <3>2. QED BY <1>2, <1>3, <3>1
  <2>4. QED BY <2>1, <2>2, <2>3, <1>2, <1>3
<1>8. v # <<>> => v[1] = (IF i = 1 THEN nx[s[i]] ELSE h)
  <2>1. v # <<>> => Len(s) - 1 >= 1
    BY <1>2, <1>3, ElementsAre
  <2>2. Len(s) - 1 >= 1 /\ i = 1 => 1 \in i .. (Len(s) - 1) /\ 1 \in 1 .. (Len(s) - 1)
    BY <1>2
  <2>3. i # 1 => 1 \in 1 .. (i - 1)
    BY <1>2
  <2>4. QED BY <1>2, <1>3, <2>1, <2>2, <2>3
<1>9. v = <<>> => Len(s) = 1 /\ i = 1
  <2>1. v = <<>> => Len(v) = 0
    BY <1>3, ElementsAre
  <2>2. Len(s) \in Nat /\ Len(v) = Len(s) - 1
    BY <1>2, <1>3
  <2>3. v = <<>> => Len(s) - 1 = 0
    BY <2>1, <2>2
  <2>4. Len(s) - 1 = 0 => Len(s) = 1
    <3>1. \A n \in Nat : n - 1 = 0 => n = 1
      OBVIOUS
    <3>2. QED BY <2>2, <3>1
  <2>5. Len(s) = 1 => i = 1
    OBVIOUS
  <2>6. QED BY <2>3, <2>4, <2>5
<1>10. v # <<>> => /\ v[Len(v)] = (IF i # Len(s) THEN t ELSE IF i = 1 THEN Null ELSE s[i - 1])
                   /\ ny[v[Len(v)]] = Null
  <2>1. SUFFICES ASSUME Len(s) - 1 >= 1
                 PROVE  /\ v[Len(v)] = (IF i # Len(s) THEN t ELSE IF i = 1 THEN Null ELSE s[i - 1])
                        /\ ny[v[Len(v)]] = Null
    BY <1>2, <1>3, ElementsAre
  <2>2. CASE i # Len(s)
    <3>1. Len(v) \in i .. (Len(s) - 1) /\ Len(v) + 1 = Len(s) /\ Len(s) \in 1 .. Len(s) /\ Len(s) # i - 1
      BY <1>2, <1>3, <2>1, <2>2
    <3>2. QED BY <1>2, <1>3, <2>2, <3>1
  <2>3. CASE i = Len(s)
    <3>1. i > 1 /\ Len(v) \in 1 .. (i - 1) /\ Len(v) = i - 1
      BY <1>2, <1>3, <2>1, <2>3
    <3>2. QED BY <1>2, <1>3, <2>3, <3>1
  <2>4. QED BY <2>2, <2>3
<1>11. v = <<>> => (IF i # Len(s) THEN t ELSE IF i = 1 THEN Null ELSE s[i - 1]) = Null
                   /\ (IF i = 1 THEN nx[s[i]] ELSE h) = Null
  BY <1>2, <1>9
<1>12. QED BY <1>3, <1>5, <1>6, <1>7, <1>8, <1>10, <1>11 DEF Chain

(* An object takes the place of another.                                   *)
LEMMA ChainReplace ==
  ASSUME NEW s, NEW h, NEW t, NEW nx, Chain(s, h, t, nx), NEW i \in 1 .. Len(s),
         NEW o \in Objects, o \notin ToSet(s), NEW v, Replaced(v, s, i, o), NEW ny,
         ny[o] = nx[s[i]], i > 1 => ny[s[i - 1]] = o,
         \A x \in ToSet(s) : x = s[i] \/ (i > 1 /\ x = s[i - 1]) \/ ny[x] = nx[x]
  PROVE  /\ Chain(v, IF i = 1 THEN o ELSE h, IF i = Len(s) THEN o ELSE t, ny)
         /\ ToSet(v) = (ToSet(s) \ {s[i]}) \cup {o} /\ Len(v) = Len(s)
<1>1. s \in Seq(Objects)
  BY DEF Chain
<1>2. /\ Len(s) \in Nat /\ \A j \in 1 .. Len(s) : s[j] \in Objects /\ s[j] \in ToSet(s) /\ s[j] # Null /\ s[j] # o
      /\ \A j \in 1 .. Len(s) : j # i => s[j] # s[i]
      /\ i > 1 => i - 1 \in 1 .. Len(s) /\ \A j \in 1 .. Len(s) : j # i - 1 => s[j] # s[i - 1]
      /\ h = s[1] /\ t = s[Len(s)] /\ nx[s[Len(s)]] = Null
      /\ \A j \in 1 .. (Len(s) - 1) : nx[s[j]] = s[j + 1]
  <2>1. Len(s) \in Nat /\ s # <<>> /\ \A j \in 1 .. Len(s) : s[j] \in Objects /\ s[j] \in ToSet(s) /\ s[j] # Null /\ s[j] # o
    BY <1>1, ElementsAre
  <2>2. i > 1 => i - 1 \in 1 .. Len(s)
    BY <2>1
  <2>3. QED BY <2>1, <2>2 DEF Chain
<1>3. /\ v \in Seq(Objects) /\ Len(v) = Len(s) /\ v[i] = o
      /\ \A j \in 1 .. Len(s) : j # i => v[j] = s[j]
  BY DEF Replaced
<1>4. ToSet(v) = (ToSet(s) \ {s[i]}) \cup {o}
  <2>1. \A j \in 1 .. Len(v) : v[j] \in ToSet(v)
    BY <1>3, ElementsAre
  <2>2. \A x \in ToSet(v) : x \in (ToSet(s) \ {s[i]}) \cup {o}
    <3>1. \A x \in ToSet(v) : \E j \in 1 .. Len(v) : v[j] = x
      BY <1>3, ElementsAre
    <3>2. QED BY <1>2, <1>3, <3>1
  <2>3. ASSUME NEW x \in ToSet(s), x # s[i] PROVE x \in ToSet(v)
    <3>1. PICK j \in 1 .. Len(s) : s[j] = x
      BY <1>1, ElementsAre
    <3>2. QED BY <1>3, <2>1, <2>3, <3>1
  <2>4. QED BY <1>3, <2>1, <2>2, <2>3
<1>5. \A j, k \in 1 .. Len(v) : v[j] = v[k] => j = k
  <2>1. \A m, n \in 1 .. Len(s) : s[m] = s[n] => m = n
    BY DEF Chain
  <2>2. QED BY <1>2, <1>3, <2>1
<1>6. ASSUME NEW j \in 1 .. (Len(v) - 1) PROVE ny[v[j]] = v[j + 1]
  <2>1. j \in 1 .. Len(s) /\ j + 1 \in 1 .. Len(s) /\ j \in 1 .. (Len(s) - 1)
    BY <1>2, <1>3
  <2>2. QED BY <1>2, <1>3, <2>1
<1>7. Len(s) \in 1 .. Len(s) /\ 1 \in 1 .. Len(s) /\ v # <<>>
  BY <1>2, <1>3, ElementsAre
<1>8. v[1] = (IF i = 1 THEN o ELSE h)
  BY <1>2, <1>3, <1>7
<1>9. v[Len(v)] = (IF i = Len(s) THEN o ELSE t) /\ ny[v[Len(v)]] = Null
  BY <1>2, <1>3, <1>7
<1>10. QED BY <1>3, <1>4, <1>5, <1>6, <1>7, <1>8, <1>9 DEF Chain

(* Two lists become one: the last object of the first is linked to the     *)
(* first of the second.                                                    *)
LEMMA ChainConcat ==
  ASSUME NEW s, NEW h, NEW t, NEW r, NEW g, NEW u, NEW nx, Chain(s, h, t, nx), Chain(r, g, u, nx),
         ToSet(s) \cap ToSet(r) = {}, NEW ny,
         s # <<>> => ny[t] = g,
         \A x \in ToSet(s) \cup ToSet(r) : (s # <<>> /\ x = t) \/ ny[x] = nx[x]
  PROVE  /\ Chain(s \o r, IF s = <<>> THEN g ELSE h, IF r = <<>> THEN t ELSE u, ny)
         /\ ToSet(s \o r) = ToSet(s) \cup ToSet(r) /\ Len(s \o r) = Len(s) + Len(r)
<1> DEFINE v == s \o r
<1>1. s \in Seq(Objects) /\ r \in Seq(Objects)
  BY DEF Chain
<1>2. /\ Len(s) \in Nat /\ \A j \in 1 .. Len(s) : s[j] \in Objects /\ s[j] \in ToSet(s) /\ s[j] # Null
      /\ s = <<>> <=> Len(s) = 0
  BY <1>1, ElementsAre
<1>3. /\ Len(r) \in Nat /\ \A j \in 1 .. Len(r) : r[j] \in Objects /\ r[j] \in ToSet(r) /\ r[j] # Null
      /\ r = <<>> <=> Len(r) = 0
  BY <1>1, ElementsAre
<1>4. /\ v \in Seq(Objects) /\ Len(v) = Len(s) + Len(r)
      /\ \A i \in 1 .. (Len(s) + Len(r)) : v[i] = IF i <= Len(s) THEN s[i] ELSE r[i - Len(s)]
  BY <1>1, ConcatProperties
<1> HIDE DEF v
<1>5. \A m \in 1 .. Len(v) : \/ m <= Len(s) /\ m \in 1 .. Len(s) /\ v[m] = s[m]
                             \/ m > Len(s) /\ m - Len(s) \in 1 .. Len(r) /\ v[m] = r[m - Len(s)]
  BY <1>2, <1>3, <1>4
<1>6. \A j \in 1 .. Len(s), k \in 1 .. Len(r) : s[j] # r[k]
  BY <1>2, <1>3
<1>7. /\ \A m, n \in 1 .. Len(s) : s[m] = s[n] => m = n
      /\ \A m, n \in 1 .. Len(r) : r[m] = r[n] => m = n
      /\ \A j \in 1 .. (Len(s) - 1) : nx[s[j]] = s[j + 1]
      /\ \A j \in 1 .. (Len(r) - 1) : nx[r[j]] = r[j + 1]
      /\ IF s = <<>> THEN h = Null /\ t = Null ELSE h = s[1] /\ t = s[Len(s)] /\ nx[t] = Null
      /\ IF r = <<>> THEN g = Null /\ u = Null ELSE g = r[1] /\ u = r[Len(r)] /\ nx[u] = Null
  BY DEF Chain
<1>8. ToSet(v) = ToSet(s) \cup ToSet(r)
  <2>1. \A m \in 1 .. Len(v) : v[m] \in ToSet(v)
    BY <1>4, ElementsAre
  <2>2. \A x \in ToSet(v) : x \in ToSet(s) \cup ToSet(r)
    <3>1. \A x \in ToSet(v) : \E m \in 1 .. Len(v) : v[m] = x
      BY <1>4, ElementsAre
    <3>2. QED BY <1>2, <1>3, <1>5, <3>1
  <2>3. ASSUME NEW x \in ToSet(s) PROVE x \in ToSet(v)
    <3>1. PICK j \in 1 .. Len(s) : s[j] = x
      BY <1>1, ElementsAre
    <3>2. j \in 1 .. Len(v) /\ v[j] = x
      BY <1>2, <1>3, <1>4, <3>1
    <3>3. QED BY <2>1, <3>2
  <2>4. ASSUME NEW x \in ToSet(r) PROVE x \in ToSet(v)
    <3>1. PICK j \in 1 .. Len(r) : r[j] = x
      BY <1>1, ElementsAre
    <3>2. j + Len(s) \in 1 .. (Len(s) + Len(r)) /\ ~ (j + Len(s) <= Len(s)) /\ (j + Len(s)) - Len(s) = j
      BY <1>2, <1>3, <3>1
    <3>3. v[j + Len(s)] = x /\ j + Len(s) \in 1 .. Len(v)
      BY <1>4, <3>1, <3>2
    <3>4. QED BY <2>1, <3>3
  <2>5. QED BY <2>2, <2>3, <2>4
<1>9. ASSUME NEW j \in 1 .. Len(v), NEW k \in 1 .. Len(v), v[j] = v[k] PROVE j = k
  <2>1. j <= Len(s) /\ k <= Len(s) => j = k
    BY <1>5, <1>7, <1>9
  <2>2. j > Len(s) /\ k > Len(s) => j - Len(s) = k - Len(s)
    <3>1. SUFFICES ASSUME j > Len(s), k > Len(s) PROVE j - Len(s) = k - Len(s)
      OBVIOUS
    <3>2. ~ (j <= Len(s)) /\ ~ (k <= Len(s)) /\ Len(s) \in Nat
      BY <1>2, <1>4, <3>1
    <3>3. j - Len(s) \in 1 .. Len(r) /\ v[j] = r[j - Len(s)]
      BY <1>5, <3>2
    <3>4. k - Len(s) \in 1 .. Len(r) /\ v[k] = r[k - Len(s)]
      BY <1>5, <3>2
    <3>5. QED BY <1>7, <1>9, <3>3, <3>4
  <2>3. ~ (j <= Len(s) /\ k > Len(s)) /\ ~ (j > Len(s) /\ k <= Len(s))
    BY <1>5, <1>6, <1>9
  <2>4. QED BY <1>2, <1>3, <1>4, <2>1, <2>2, <2>3
<1>10. ASSUME NEW j \in 1 .. (Len(v) - 1) PROVE ny[v[j]] = v[j + 1]
  <2>1. CASE j < Len(s)
    <3>1. j \in 1 .. (Len(s) - 1) /\ j \in 1 .. Len(s) /\ Len(s) \in 1 .. Len(s) /\ j + 1 <= Len(s) /\ j <= Len(s) /\ j # Len(s)
          /\ j \in 1 .. (Len(s) + Len(r)) /\ j + 1 \in 1 .. (Len(s) + Len(r))
      BY <1>2, <1>3, <2>1
    <3>2. s[j] # s[Len(s)] /\ s # <<>>
      BY <1>2, <1>7, <3>1
    <3>3. QED BY <1>2, <1>4, <1>7, <3>1, <3>2
  <2>2. CASE j = Len(s)
    <3>1. s # <<>> /\ r # <<>> /\ j \in 1 .. (Len(s) + Len(r)) /\ j + 1 \in 1 .. (Len(s) + Len(r))
          /\ ~ (j + 1 <= Len(s)) /\ (j + 1) - Len(s) = 1 /\ j <= Len(s)
      BY <1>2, <1>3, <1>4, <2>2
    <3>2. QED BY <1>4, <1>7, <2>2, <3>1
  <2>3. CASE j > Len(s)
    <3>1. /\ j - Len(s) \in 1 .. (Len(r) - 1) /\ j - Len(s) \in 1 .. Len(r) /\ (j + 1) - Len(s) = (j - Len(s)) + 1
          /\ j \in 1 .. (Len(s) + Len(r)) /\ j + 1 \in 1 .. (Len(s) + Len(r)) /\ ~ (j <= Len(s)) /\ ~ (j + 1 <= Len(s))
      BY <1>2, <1>3, <1>4, <2>3
    <3>2. v[j] = r[j - Len(s)] /\ v[j + 1] = r[(j - Len(s)) + 1]
      BY <1>4, <3>1
    <3>3. s # <<>> => Len(s) \in 1 .. Len(s) /\ t = s[Len(s)]
      BY <1>2, <1>7
    <3>4. ny[r[j - Len(s)]] = nx[r[j - Len(s)]]
      BY <1>3, <1>6, <3>1, <3>3
    <3>5. QED BY <1>7, <3>1, <3>2, <3>4
  <2>4. QED BY <2>1, <2>2, <2>3, <1>2, <1>3, <1>4
<1>11. v # <<>> => v[1] = (IF s = <<>> THEN g ELSE h)
  <2>1. v # <<>> => Len(s) + Len(r) >= 1
    BY <1>2, <1>3, <1>4, ElementsAre
  <2>2. Len(s) + Len(r) >= 1 => 1 \in 1 .. (Len(s) + Len(r))
    BY <1>2, <1>3
  <2>3. CASE s = <<>>
    <3>1. Len(s) + Len(r) >= 1 => r # <<>> /\ v[1] = r[1]
      <4>1. Len(s) = 0 /\ ~ (1 <= Len(s)) /\ 1 - Len(s) = 1
        BY <1>2, <2>3
      <4>2. QED BY <1>3, <1>4, <2>2, <4>1
    <3>2. QED BY <1>7, <2>1, <2>3, <3>1
  <2>4. CASE s # <<>>
    <3>1. 1 <= Len(s)
      BY <1>2, <2>4
    <3>2. QED BY <1>4, <1>7, <2>1, <2>2, <2>4, <3>1
  <2>5. QED BY <2>3, <2>4
<1>12. v = <<>> <=> s = <<>> /\ r = <<>>
  BY <1>2, <1>3, <1>4, ElementsAre
<1>13. v # <<>> => v[Len(v)] = (IF r = <<>> THEN t ELSE u) /\ ny[v[Len(v)]] = Null
  <2>1. CASE r # <<>>
    <3>1. /\ Len(v) \in 1 .. (Len(s) + Len(r)) /\ ~ (Len(v) <= Len(s)) /\ Len(v) - Len(s) = Len(r)
          /\ Len(r) \in 1 .. Len(r)
      BY <1>2, <1>3, <1>4, <2>1
    <3>2. v[Len(v)] = r[Len(r)] /\ u = r[Len(r)] /\ nx[u] = Null
      BY <1>4, <1>7, <2>1, <3>1
    <3>3. s # <<>> => Len(s) \in 1 .. Len(s) /\ t = s[Len(s)]
      BY <1>2, <1>7
    <3>4. ny[r[Len(r)]] = nx[r[Len(r)]]
      BY <1>3, <1>6, <3>1, <3>3
    <3>5. QED BY <2>1, <3>2, <3>4
  <2>2. CASE r = <<>> /\ s # <<>>
    <3>1. Len(v) = Len(s) /\ Len(s) <= Len(s) /\ Len(s) \in 1 .. (Len(s) + Len(r))
      BY <1>2, <1>3, <1>4, <2>2
    <3>2. QED BY <1>4, <1>7, <2>2, <3>1
  <2>3. QED BY <1>12, <2>1, <2>2
<1>14. Chain(v, IF s = <<>> THEN g ELSE h, IF r = <<>> THEN t ELSE u, ny)
  <2>1. v = <<>> => (IF s = <<>> THEN g ELSE h) = Null /\ (IF r = <<>> THEN t ELSE u) = Null
    BY <1>7, <1>12
  <2>2. QED BY <1>4, <1>9, <1>10, <1>11, <1>13, <2>1 DEF Chain
<1>15. QED BY <1>4, <1>8, <1>14 DEF v

(* The sequences that the operations make.                                 *)
LEMMA SequencesMade ==
  ASSUME NEW s \in Seq(Objects), NEW o \in Objects
  PROVE  /\ Inserted(<<o>> \o s, s, 1, o)
         /\ Inserted(Append(s, o), s, Len(s) + 1, o)
         /\ \A i \in 1 .. (Len(s) + 1) : Inserted(InsertAt(s, i, o), s, i, o)
         /\ \A i \in 1 .. Len(s) : Removed(RemoveAt(s, i), s, i)
         /\ \A i \in 1 .. Len(s) : Replaced(ReplaceAt(s, i, o), s, i, o)
         /\ s # <<>> => Removed(Tail(s), s, 1)
<1>1. /\ Len(s) \in Nat /\ <<o>> \in Seq(Objects) /\ Len(<<o>>) = 1 /\ <<o>>[1] = o
      /\ \A j \in 1 .. Len(s) : s[j] \in Objects
  BY ElementsAre
<1>2. Inserted(<<o>> \o s, s, 1, o)
  <2> DEFINE e == <<o>>
             v == e \o s
  <2>1. v \in Seq(Objects) /\ Len(v) = 1 + Len(s)
        /\ \A j \in 1 .. (1 + Len(s)) : v[j] = IF j <= 1 THEN e[j] ELSE s[j - 1]
    BY <1>1, ConcatProperties
  <2> HIDE DEF v
  <2>2. v[1] = o
    BY <1>1, <2>1
  <2>3. ASSUME NEW j \in 1 .. Len(s) PROVE v[IF j < 1 THEN j ELSE j + 1] = s[j]
    <3>1. j + 1 \in 1 .. (1 + Len(s)) /\ ~ (j + 1 <= 1) /\ (j + 1) - 1 = j /\ ~ (j < 1)
      BY <1>1
    <3>2. QED BY <2>1, <3>1
  <2>4. Len(v) = Len(s) + 1
    BY <1>1, <2>1
  <2>5. Inserted(v, s, 1, o)
    BY <2>1, <2>2, <2>3, <2>4 DEF Inserted
  <2>6. QED BY <2>5 DEF v
<1>3. Inserted(Append(s, o), s, Len(s) + 1, o)
  <2> DEFINE v == Append(s, o)
  <2>1. /\ v \in Seq(Objects) /\ Len(v) = Len(s) + 1 /\ v[Len(s) + 1] = o
        /\ \A j \in 1 .. Len(s) : v[j] = s[j]
    BY AppendProperties
  <2> HIDE DEF v
  <2>2. \A j \in 1 .. Len(s) : j < Len(s) + 1
    BY <1>1
  <2>3. Inserted(v, s, Len(s) + 1, o)
    BY <2>1, <2>2 DEF Inserted
  <2>4. QED BY <2>3 DEF v
<1>4. ASSUME NEW i \in 1 .. (Len(s) + 1) PROVE Inserted(InsertAt(s, i, o), s, i, o)
  <2> DEFINE a == SubSeq(s, 1, i - 1)
             e == <<o>>
             b == SubSeq(s, i, Len(s))
             c == a \o e
             v == c \o b
  <2>1. a \in Seq(Objects) /\ Len(a) = i - 1 /\ \A j \in 1 .. (i - 1) : a[j] = s[j]
    <3>1. \A j \in 1 .. (i - 1) : s[j] \in Objects
      BY <1>1
    <3>2. i - 1 \in Int /\ 1 \in Int
      BY <1>1
    <3>3. /\ a \in Seq(Objects) /\ Len(a) = (IF 1 <= i - 1 THEN (i - 1) - 1 + 1 ELSE 0)
          /\ \A j \in 1 .. ((i - 1) - 1 + 1) : a[j] = s[1 + j - 1]
      BY <3>1, <3>2, SubSeqProperties
    <3> HIDE DEF a
    <3>4. (i - 1) - 1 + 1 = i - 1 /\ (IF 1 <= i - 1 THEN (i - 1) - 1 + 1 ELSE 0) = i - 1
          /\ \A j \in 1 .. (i - 1) : 1 + j - 1 = j
      BY <1>1
    <3>5. QED BY <3>3, <3>4
  <2>2. b \in Seq(Objects) /\ Len(b) = Len(s) - i + 1 /\ \A j \in 1 .. (Len(s) - i + 1) : b[j] = s[i + j - 1]
    <3>1. \A j \in i .. Len(s) : s[j] \in Objects
      BY <1>1
    <3>2. i \in Int /\ Len(s) \in Int
      BY <1>1
    <3>3. /\ b \in Seq(Objects) /\ Len(b) = (IF i <= Len(s) THEN Len(s) - i + 1 ELSE 0)
          /\ \A j \in 1 .. (Len(s) - i + 1) : b[j] = s[i + j - 1]
      BY <3>1, <3>2, SubSeqProperties
    <3>4. ~ (i <= Len(s)) => Len(s) - i + 1 = 0
      BY <1>1
    <3>5. QED BY <3>3, <3>4
  <2> HIDE DEF a, b
  <2>3. /\ c \in Seq(Objects) /\ Len(c) = Len(a) + Len(e)
        /\ \A j \in 1 .. (Len(a) + Len(e)) : c[j] = IF j <= Len(a) THEN a[j] ELSE e[j - Len(a)]
    BY <1>1, <2>1, ConcatProperties
  <2>4. /\ Len(c) = i /\ c[i] = o /\ \A j \in 1 .. (i - 1) : c[j] = s[j]
    <3> HIDE DEF c, e
    <3>1. i \in 1 .. (Len(a) + Len(e)) /\ ~ (i <= Len(a)) /\ i - Len(a) = 1 /\ Len(e) = 1 /\ e[1] = o
      BY <1>1, <2>1 DEF e
    <3>2. \A j \in 1 .. (i - 1) : j \in 1 .. (Len(a) + Len(e)) /\ j <= Len(a)
      BY <1>1, <2>1, <3>1
    <3>3. Len(a) + Len(e) = i
      BY <2>1, <3>1
    <3>4. QED BY <2>1, <2>3, <3>1, <3>2, <3>3
  <2> HIDE DEF c
  <2>5. /\ v \in Seq(Objects) /\ Len(v) = Len(c) + Len(b)
        /\ \A j \in 1 .. (Len(c) + Len(b)) : v[j] = IF j <= Len(c) THEN c[j] ELSE b[j - Len(c)]
    <3>1. c \in Seq(Objects) /\ b \in Seq(Objects)
      BY <2>2, <2>3
    <3>2. QED BY <3>1, ConcatProperties
  <2> HIDE DEF v
  <2>6. Len(v) = Len(s) + 1 /\ Len(c) + Len(b) = Len(s) + 1
    BY <1>1, <2>2, <2>4, <2>5
  <2>7. v[i] = o
    BY <1>1, <2>4, <2>5, <2>6
  <2>8. ASSUME NEW j \in 1 .. Len(s) PROVE v[IF j < i THEN j ELSE j + 1] = s[j]
    <3>1. CASE j < i
      <4>1. j \in 1 .. (i - 1) /\ j \in 1 .. (Len(s) + 1) /\ j <= Len(c)
        BY <1>1, <2>4, <3>1
      <4>2. QED BY <2>4, <2>5, <2>6, <3>1, <4>1
    <3>2. CASE ~ (j < i)
      <4> DEFINE k == (j + 1) - i
      <4>1. j + 1 \in 1 .. (Len(s) + 1) /\ ~ (j + 1 <= i) /\ k \in 1 .. (Len(s) - i + 1) /\ i + k - 1 = j
        BY <1>1, <3>2
      <4>2. v[j + 1] = b[k]
        BY <2>4, <2>5, <2>6, <4>1
      <4> HIDE DEF k
      <4>3. b[k] = s[i + k - 1]
        BY <2>2, <4>1
      <4>4. QED BY <3>2, <4>1, <4>2, <4>3
    <3>3. QED BY <3>1, <3>2
  <2>9. Inserted(v, s, i, o)
    BY <2>5, <2>6, <2>7, <2>8 DEF Inserted
  <2>10. QED BY <2>9 DEF InsertAt, v, c, a, b
<1>5. ASSUME NEW i \in 1 .. Len(s) PROVE Removed(RemoveAt(s, i), s, i)
  <2> DEFINE a == SubSeq(s, 1, i - 1)
             b == SubSeq(s, i + 1, Len(s))
             v == a \o b
  <2>1. a \in Seq(Objects) /\ Len(a) = i - 1 /\ \A j \in 1 .. (i - 1) : a[j] = s[j]
    <3>1. \A j \in 1 .. (i - 1) : s[j] \in Objects
      BY <1>1
    <3>2. i - 1 \in Int /\ 1 \in Int
      BY <1>1
    <3>3. /\ a \in Seq(Objects) /\ Len(a) = (IF 1 <= i - 1 THEN (i - 1) - 1 + 1 ELSE 0)
          /\ \A j \in 1 .. ((i - 1) - 1 + 1) : a[j] = s[1 + j - 1]
      BY <3>1, <3>2, SubSeqProperties
    <3> HIDE DEF a
    <3>4. (i - 1) - 1 + 1 = i - 1 /\ (IF 1 <= i - 1 THEN (i - 1) - 1 + 1 ELSE 0) = i - 1
          /\ \A j \in 1 .. (i - 1) : 1 + j - 1 = j
      BY <1>1
    <3>5. QED BY <3>3, <3>4
  <2>2. b \in Seq(Objects) /\ Len(b) = Len(s) - i /\ \A j \in 1 .. (Len(s) - i) : b[j] = s[i + j]
    <3>1. \A j \in (i + 1) .. Len(s) : s[j] \in Objects
      BY <1>1
    <3>2. i + 1 \in Int /\ Len(s) \in Int
      BY <1>1
    <3>3. /\ b \in Seq(Objects) /\ Len(b) = (IF i + 1 <= Len(s) THEN Len(s) - (i + 1) + 1 ELSE 0)
          /\ \A j \in 1 .. (Len(s) - (i + 1) + 1) : b[j] = s[(i + 1) + j - 1]
      BY <3>1, <3>2, SubSeqProperties
    <3> HIDE DEF b
    <3>4. Len(s) - (i + 1) + 1 = Len(s) - i /\ (IF i + 1 <= Len(s) THEN Len(s) - (i + 1) + 1 ELSE 0) = Len(s) - i
          /\ \A j \in 1 .. (Len(s) - i) : (i + 1) + j - 1 = i + j
      BY <1>1
    <3>5. QED BY <3>3, <3>4
  <2> HIDE DEF a, b
  <2>3. /\ v \in Seq(Objects) /\ Len(v) = Len(a) + Len(b)
        /\ \A j \in 1 .. (Len(a) + Len(b)) : v[j] = IF j <= Len(a) THEN a[j] ELSE b[j - Len(a)]
    BY <2>1, <2>2, ConcatProperties
  <2> HIDE DEF v
  <2>4. Len(a) + Len(b) = Len(s) - 1
    BY <1>1, <2>1, <2>2
  <2>5. ASSUME NEW j \in 1 .. (Len(s) - 1) PROVE v[j] = s[IF j < i THEN j ELSE j + 1]
    <3>1. CASE j < i
      <4>1. j \in 1 .. (i - 1) /\ j <= Len(a)
        BY <1>1, <2>1, <3>1
      <4>2. QED BY <2>1, <2>3, <2>4, <3>1, <4>1
    <3>2. CASE ~ (j < i)
      <4> DEFINE k == j - (i - 1)
      <4>1. ~ (j <= i - 1) /\ k \in 1 .. (Len(s) - i) /\ i + k = j + 1
        BY <1>1, <3>2
      <4>2. v[j] = b[k]
        BY <2>1, <2>3, <2>4, <4>1
      <4> HIDE DEF k
      <4>3. b[k] = s[i + k]
        BY <2>2, <4>1
      <4>4. QED BY <3>2, <4>1, <4>2, <4>3
    <3>3. QED BY <3>1, <3>2
  <2>6. Removed(v, s, i)
    BY <2>3, <2>4, <2>5 DEF Removed
  <2>7. QED BY <2>6 DEF RemoveAt, v, a, b
<1>6. ASSUME NEW i \in 1 .. Len(s) PROVE Replaced(ReplaceAt(s, i, o), s, i, o)
  BY <1>1 DEF ReplaceAt, Replaced
<1>7. ASSUME s # <<>> PROVE Removed(Tail(s), s, 1)
  <2>1. /\ Tail(s) \in Seq(Objects) /\ Len(Tail(s)) = Len(s) - 1
        /\ \A j \in 1 .. Len(Tail(s)) : Tail(s)[j] = s[j + 1]
    BY <1>7, HeadTailProperties
  <2>2. \A j \in 1 .. (Len(s) - 1) : ~ (j < 1)
    BY <1>1
  <2>3. QED BY <2>1, <2>2 DEF Removed
<1>8. QED BY <1>2, <1>3, <1>4, <1>5, <1>6, <1>7

(* What the pointers of the lists say.                                     *)
OneKept(ord, H, T, C, nx, al, l) ==
  /\ Chain(ord[l], H[l], T[l], nx) /\ C[l] = Len(ord[l]) /\ ToSet(ord[l]) \subseteq al
  /\ \A k \in Lists \ {l} : ToSet(ord[l]) \cap ToSet(ord[k]) = {}

Kept(ord, H, T, C, nx, al) ==
  /\ DOMAIN ord = Lists /\ DOMAIN H = Lists /\ DOMAIN T = Lists /\ DOMAIN C = Lists
  /\ DOMAIN nx = Objects /\ al \subseteq Objects
  /\ \A l \in Lists : OneKept(ord, H, T, C, nx, al, l)

(* A value of a function changes, or none does.                            *)
Put(f, l, x, g) ==
  /\ DOMAIN g = Lists /\ g[l] = x
  /\ \A k \in Lists \ {l} : g[k] = f[k]

(* One list changes.                                                       *)
LEMMA OneChanges ==
  ASSUME NEW ord, NEW H, NEW T, NEW C, NEW nx, NEW al, Kept(ord, H, T, C, nx, al),
         NEW l \in Lists, NEW s, NEW h, NEW t, NEW ny, NEW am, Chain(s, h, t, ny),
         NEW ord2, Put(ord, l, s, ord2), NEW H2, Put(H, l, h, H2), NEW T2, Put(T, l, t, T2),
         NEW C2, Put(C, l, Len(s), C2), DOMAIN ny = Objects, am \subseteq Objects, ToSet(s) \subseteq am,
         \A k \in Lists \ {l} : \A x \in ToSet(ord[k]) : x \notin ToSet(s) /\ ny[x] = nx[x] /\ x \in am
  PROVE  Kept(ord2, H2, T2, C2, ny, am)
<1>1. /\ DOMAIN ord2 = Lists /\ DOMAIN H2 = Lists /\ DOMAIN T2 = Lists /\ DOMAIN C2 = Lists
      /\ ord2[l] = s /\ H2[l] = h /\ T2[l] = t /\ C2[l] = Len(s)
      /\ \A k \in Lists \ {l} : ord2[k] = ord[k] /\ H2[k] = H[k] /\ T2[k] = T[k] /\ C2[k] = C[k]
  BY DEF Put
<1>2. \A k \in Lists : OneKept(ord, H, T, C, nx, al, k)
  BY DEF Kept
<1>3. OneKept(ord2, H2, T2, C2, ny, am, l)
  BY <1>1 DEF OneKept
<1>4. ASSUME NEW k \in Lists \ {l} PROVE OneKept(ord2, H2, T2, C2, ny, am, k)
  <2>1. ord2[k] = ord[k] /\ H2[k] = H[k] /\ T2[k] = T[k] /\ C2[k] = C[k]
    BY <1>1
  <2>2. Chain(ord[k], H[k], T[k], nx) /\ C[k] = Len(ord[k])
    BY <1>2 DEF OneKept
  <2>3. Chain(ord[k], H[k], T[k], ny)
    BY <2>2, ChainFrame
  <2>4. ToSet(ord[k]) \subseteq am
    OBVIOUS
  <2>5. ASSUME NEW m \in Lists \ {k} PROVE ToSet(ord[k]) \cap ToSet(ord2[m]) = {}
    <3>1. CASE m = l
      BY <1>1, <3>1
    <3>2. CASE m # l
      BY <1>1, <1>2, <3>2 DEF OneKept
    <3>3. QED BY <3>1, <3>2
  <2>6. QED BY <2>1, <2>2, <2>3, <2>4, <2>5 DEF OneKept
<1>5. QED BY <1>1, <1>3, <1>4 DEF Kept

(* Nothing changes in the lists.                                           *)
LEMMA NoneChanges ==
  ASSUME NEW ord, NEW H, NEW T, NEW C, NEW nx, NEW al, Kept(ord, H, T, C, nx, al),
         NEW ny, NEW am, DOMAIN ny = Objects, am \subseteq Objects,
         \A k \in Lists : \A x \in ToSet(ord[k]) : ny[x] = nx[x] /\ x \in am
  PROVE  Kept(ord, H, T, C, ny, am)
<1>1. ASSUME NEW k \in Lists PROVE OneKept(ord, H, T, C, ny, am, k)
  <2>1. OneKept(ord, H, T, C, nx, al, k)
    BY DEF Kept
  <2>2. Chain(ord[k], H[k], T[k], nx)
    BY <2>1 DEF OneKept
  <2>3. Chain(ord[k], H[k], T[k], ny)
    BY <2>2, ChainFrame
  <2>4. ToSet(ord[k]) \subseteq am
    OBVIOUS
  <2>5. QED BY <2>1, <2>3, <2>4 DEF OneKept
<1>2. QED BY <1>1 DEF Kept

(* The parts of a list, and what is in the others.                         *)
LEMMA ListHas ==
  ASSUME NEW ord, NEW H, NEW T, NEW C, NEW nx, NEW al, Kept(ord, H, T, C, nx, al), NEW l \in Lists
  PROVE  /\ Chain(ord[l], H[l], T[l], nx) /\ C[l] = Len(ord[l]) /\ ToSet(ord[l]) \subseteq al
         /\ \A k \in Lists \ {l} : \A x \in ToSet(ord[k]) : x \notin ToSet(ord[l]) /\ x \in al /\ x \in Objects
         /\ \A x \in ToSet(ord[l]) : x \in al /\ x \in Objects
<1>1. al \subseteq Objects /\ \A k \in Lists : OneKept(ord, H, T, C, nx, al, k)
  BY DEF Kept
<1>2. OneKept(ord, H, T, C, nx, al, l)
  BY <1>1
<1>3. ASSUME NEW k \in Lists \ {l} PROVE ToSet(ord[k]) \subseteq al /\ ToSet(ord[l]) \cap ToSet(ord[k]) = {}
  BY <1>1, <1>2 DEF OneKept
<1>4. QED BY <1>1, <1>2, <1>3 DEF OneKept

(* An object goes into a list.                                             *)
LEMMA OneInserted ==
  ASSUME NEW ord, NEW H, NEW T, NEW C, NEW nx, NEW al, Kept(ord, H, T, C, nx, al),
         NEW l \in Lists, NEW o \in al, \A k \in Lists : o \notin ToSet(ord[k]),
         NEW i \in 1 .. (Len(ord[l]) + 1), NEW v, Inserted(v, ord[l], i, o),
         NEW ny, DOMAIN ny = Objects,
         ny[o] = IF i <= Len(ord[l]) THEN ord[l][i] ELSE Null,
         i > 1 => ny[ord[l][i - 1]] = o,
         \A x \in Objects \ {o} : (i > 1 /\ x = ord[l][i - 1]) \/ ny[x] = nx[x],
         NEW ord2, Put(ord, l, v, ord2), NEW H2, Put(H, l, IF i = 1 THEN o ELSE H[l], H2),
         NEW T2, Put(T, l, IF i = Len(ord[l]) + 1 THEN o ELSE T[l], T2),
         NEW C2, Put(C, l, Len(ord[l]) + 1, C2)
  PROVE  Kept(ord2, H2, T2, C2, ny, al)
<1> DEFINE s == ord[l]
<1>1. /\ Chain(s, H[l], T[l], nx) /\ C[l] = Len(s) /\ ToSet(s) \subseteq al
      /\ \A k \in Lists \ {l} : \A x \in ToSet(ord[k]) : x \notin ToSet(s) /\ x \in al /\ x \in Objects
      /\ \A x \in ToSet(s) : x \in al /\ x \in Objects
  BY ListHas
<1>2. al \subseteq Objects /\ o \in Objects /\ o \notin ToSet(s)
  BY DEF Kept
<1>3. i > 1 => s[i - 1] \in ToSet(s)
  <2>1. s \in Seq(Objects)
    BY <1>1 DEF Chain
  <2>2. Len(s) \in Nat /\ \A j \in 1 .. Len(s) : s[j] \in ToSet(s)
    BY <2>1, ElementsAre
  <2>3. i > 1 => i - 1 \in 1 .. Len(s)
    BY <2>2
  <2>4. QED BY <2>2, <2>3
<1>4. \A x \in ToSet(s) : (i > 1 /\ x = s[i - 1]) \/ ny[x] = nx[x]
  BY <1>1, <1>2
<1>5. /\ Chain(v, IF i = 1 THEN o ELSE H[l], IF i = Len(s) + 1 THEN o ELSE T[l], ny)
      /\ ToSet(v) = ToSet(s) \cup {o} /\ Len(v) = Len(s) + 1
  BY <1>1, <1>2, <1>4, ChainInsert
<1>6. \A k \in Lists \ {l} : \A x \in ToSet(ord[k]) : x \notin ToSet(v) /\ ny[x] = nx[x] /\ x \in al
  <2>1. SUFFICES ASSUME NEW k \in Lists \ {l}, NEW x \in ToSet(ord[k])
                 PROVE  x \notin ToSet(v) /\ ny[x] = nx[x] /\ x \in al
    OBVIOUS
  <2>2. x \notin ToSet(s) /\ x \in al /\ x \in Objects /\ x # o
    BY <1>1
  <2>3. QED BY <1>3, <1>5, <2>2
<1>7. ToSet(v) \subseteq al
  BY <1>1, <1>5
<1> HIDE DEF s
<1>8. Put(C, l, Len(v), C2)
  BY <1>5 DEF s
<1>9. Put(H, l, IF i = 1 THEN o ELSE H[l], H2) /\ Put(T, l, IF i = Len(s) + 1 THEN o ELSE T[l], T2)
  BY DEF s
<1>10. QED BY <1>2, <1>5, <1>6, <1>7, <1>8, <1>9, OneChanges

(* An object leaves a list; it may be freed.                               *)
LEMMA OneRemoved ==
  ASSUME NEW ord, NEW H, NEW T, NEW C, NEW nx, NEW al, Kept(ord, H, T, C, nx, al),
         NEW l \in Lists, NEW i \in 1 .. Len(ord[l]), NEW v, Removed(v, ord[l], i),
         NEW ny, DOMAIN ny = Objects,
         i > 1 => ny[ord[l][i - 1]] = nx[ord[l][i]],
         \A x \in Objects \ {ord[l][i]} : (i > 1 /\ x = ord[l][i - 1]) \/ ny[x] = nx[x],
         NEW ord2, Put(ord, l, v, ord2), NEW H2, Put(H, l, IF i = 1 THEN nx[ord[l][i]] ELSE H[l], H2),
         NEW T2, Put(T, l, IF i # Len(ord[l]) THEN T[l] ELSE IF i = 1 THEN Null ELSE ord[l][i - 1], T2),
         NEW C2, Put(C, l, Len(ord[l]) - 1, C2),
         NEW am, am \subseteq al, al \ {ord[l][i]} \subseteq am
  PROVE  Kept(ord2, H2, T2, C2, ny, am)
<1> DEFINE s == ord[l]
<1>1. /\ Chain(s, H[l], T[l], nx) /\ C[l] = Len(s) /\ ToSet(s) \subseteq al
      /\ \A k \in Lists \ {l} : \A x \in ToSet(ord[k]) : x \notin ToSet(s) /\ x \in al /\ x \in Objects
      /\ \A x \in ToSet(s) : x \in al /\ x \in Objects
  BY ListHas
<1>2. al \subseteq Objects
  BY DEF Kept
<1>3. s[i] \in ToSet(s) /\ (i > 1 => s[i - 1] \in ToSet(s))
  <2>1. s \in Seq(Objects)
    BY <1>1 DEF Chain
  <2>2. Len(s) \in Nat /\ \A j \in 1 .. Len(s) : s[j] \in ToSet(s)
    BY <2>1, ElementsAre
  <2>3. i > 1 => i - 1 \in 1 .. Len(s)
    BY <2>2
  <2>4. QED BY <2>2, <2>3
<1>4. \A x \in ToSet(s) : x = s[i] \/ (i > 1 /\ x = s[i - 1]) \/ ny[x] = nx[x]
  BY <1>1
<1>5. /\ Chain(v, IF i = 1 THEN nx[s[i]] ELSE H[l],
                  IF i # Len(s) THEN T[l] ELSE IF i = 1 THEN Null ELSE s[i - 1], ny)
      /\ ToSet(v) = ToSet(s) \ {s[i]} /\ Len(v) = Len(s) - 1
  BY <1>1, <1>4, ChainRemove
<1>6. \A k \in Lists \ {l} : \A x \in ToSet(ord[k]) : x \notin ToSet(v) /\ ny[x] = nx[x] /\ x \in am
  <2>1. SUFFICES ASSUME NEW k \in Lists \ {l}, NEW x \in ToSet(ord[k])
                 PROVE  x \notin ToSet(v) /\ ny[x] = nx[x] /\ x \in am
    OBVIOUS
  <2>2. x \notin ToSet(s) /\ x \in al /\ x \in Objects
    BY <1>1
  <2>3. QED BY <1>3, <1>5, <2>2
<1>7. ToSet(v) \subseteq am /\ am \subseteq Objects
  BY <1>1, <1>2, <1>5
<1> HIDE DEF s
<1>8. Put(C, l, Len(v), C2)
  BY <1>5 DEF s
<1>9. /\ Put(H, l, IF i = 1 THEN nx[s[i]] ELSE H[l], H2)
      /\ Put(T, l, IF i # Len(s) THEN T[l] ELSE IF i = 1 THEN Null ELSE s[i - 1], T2)
  BY DEF s
<1>10. QED BY <1>5, <1>6, <1>7, <1>8, <1>9, OneChanges

(* An object takes the place of another, which is freed.                   *)
LEMMA OneReplaced ==
  ASSUME NEW ord, NEW H, NEW T, NEW C, NEW nx, NEW al, Kept(ord, H, T, C, nx, al),
         NEW l \in Lists, NEW o \in al, \A k \in Lists : o \notin ToSet(ord[k]),
         NEW i \in 1 .. Len(ord[l]), NEW v, Replaced(v, ord[l], i, o),
         NEW ny, DOMAIN ny = Objects,
         ny[o] = nx[ord[l][i]], i > 1 => ny[ord[l][i - 1]] = o,
         \A x \in Objects \ {o, ord[l][i]} : (i > 1 /\ x = ord[l][i - 1]) \/ ny[x] = nx[x],
         NEW ord2, Put(ord, l, v, ord2), NEW H2, Put(H, l, IF i = 1 THEN o ELSE H[l], H2),
         NEW T2, Put(T, l, IF i = Len(ord[l]) THEN o ELSE T[l], T2),
         NEW am, am = al \ {ord[l][i]}
  PROVE  Kept(ord2, H2, T2, C, ny, am)
<1> DEFINE s == ord[l]
<1>1. /\ Chain(s, H[l], T[l], nx) /\ C[l] = Len(s) /\ ToSet(s) \subseteq al
      /\ \A k \in Lists \ {l} : \A x \in ToSet(ord[k]) : x \notin ToSet(s) /\ x \in al /\ x \in Objects
      /\ \A x \in ToSet(s) : x \in al /\ x \in Objects
  BY ListHas
<1>2. al \subseteq Objects /\ o \in Objects /\ o \notin ToSet(s) /\ DOMAIN C = Lists
  BY DEF Kept
<1>3. s[i] \in ToSet(s) /\ (i > 1 => s[i - 1] \in ToSet(s))
  <2>1. s \in Seq(Objects)
    BY <1>1 DEF Chain
  <2>2. Len(s) \in Nat /\ \A j \in 1 .. Len(s) : s[j] \in ToSet(s)
    BY <2>1, ElementsAre
  <2>3. i > 1 => i - 1 \in 1 .. Len(s)
    BY <2>2
  <2>4. QED BY <2>2, <2>3
<1>4. \A x \in ToSet(s) : x = s[i] \/ (i > 1 /\ x = s[i - 1]) \/ ny[x] = nx[x]
  BY <1>1, <1>2
<1>5. /\ Chain(v, IF i = 1 THEN o ELSE H[l], IF i = Len(s) THEN o ELSE T[l], ny)
      /\ ToSet(v) = (ToSet(s) \ {s[i]}) \cup {o} /\ Len(v) = Len(s)
  BY <1>1, <1>2, <1>4, ChainReplace
<1>6. \A k \in Lists \ {l} : \A x \in ToSet(ord[k]) : x \notin ToSet(v) /\ ny[x] = nx[x] /\ x \in al \ {s[i]}
  <2>1. SUFFICES ASSUME NEW k \in Lists \ {l}, NEW x \in ToSet(ord[k])
                 PROVE  x \notin ToSet(v) /\ ny[x] = nx[x] /\ x \in al \ {s[i]}
    OBVIOUS
  <2>2. x \notin ToSet(s) /\ x \in al /\ x \in Objects /\ x # o
    BY <1>1
  <2>3. QED BY <1>3, <1>5, <2>2
<1>7. ToSet(v) \subseteq al \ {s[i]} /\ al \ {s[i]} \subseteq Objects
  BY <1>1, <1>2, <1>3, <1>5
<1> HIDE DEF s
<1>8. Put(C, l, Len(v), C)
  BY <1>1, <1>2, <1>5 DEF Put
<1>9. Put(H, l, IF i = 1 THEN o ELSE H[l], H2) /\ Put(T, l, IF i = Len(s) THEN o ELSE T[l], T2)
  BY DEF s
<1>10. ToSet(v) \subseteq am /\ am \subseteq Objects
       /\ \A k \in Lists \ {l} : \A x \in ToSet(ord[k]) : x \notin ToSet(v) /\ ny[x] = nx[x] /\ x \in am
  BY <1>6, <1>7 DEF s
<1>11. QED BY <1>5, <1>8, <1>9, <1>10, OneChanges

(* No object is in a list without any.                                     *)
LEMMA EmptyIs ==
  ASSUME NEW nx
  PROVE  Chain(<<>>, Null, Null, nx) /\ ToSet(<<>>) = {} /\ Len(<<>>) = 0
<1>1. <<>> \in Seq(Objects) /\ Len(<<>>) = 0
  OBVIOUS
<1>2. ToSet(<<>>) = {}
  BY DEF ToSet
<1>3. QED BY <1>1, <1>2 DEF Chain

(* The objects of a list k go into a list l.                               *)
PutBoth(f, k, x, l, y, g) ==
  /\ DOMAIN g = Lists /\ g[k] = x /\ g[l] = y
  /\ \A m \in Lists \ {k, l} : g[m] = f[m]

(* A list is emptied, and another gets its objects besides its own.        *)
LEMMA TwoChange ==
  ASSUME NEW ord, NEW H, NEW T, NEW C, NEW nx, NEW al, Kept(ord, H, T, C, nx, al),
         NEW l \in Lists, NEW k \in Lists \ {l}, NEW v, NEW h, NEW t, NEW ny, Chain(v, h, t, ny),
         ToSet(v) = ToSet(ord[l]) \cup ToSet(ord[k]), DOMAIN ny = Objects,
         \A x \in Objects : x \in ToSet(v) \/ ny[x] = nx[x],
         NEW ord2, PutBoth(ord, k, <<>>, l, v, ord2), NEW H2, PutBoth(H, k, Null, l, h, H2),
         NEW T2, PutBoth(T, k, Null, l, t, T2), NEW C2, PutBoth(C, k, 0, l, Len(v), C2)
  PROVE  Kept(ord2, H2, T2, C2, ny, al)
<1> DEFINE ord1 == [ord EXCEPT ![k] = <<>>]
           H1   == [H EXCEPT ![k] = Null]
           T1   == [T EXCEPT ![k] = Null]
           C1   == [C EXCEPT ![k] = 0]
<1>1. DOMAIN ord = Lists /\ DOMAIN H = Lists /\ DOMAIN T = Lists /\ DOMAIN C = Lists /\ DOMAIN nx = Objects /\ al \subseteq Objects
  BY DEF Kept
<1>2. Put(ord, k, <<>>, ord1) /\ Put(H, k, Null, H1) /\ Put(T, k, Null, T1) /\ Put(C, k, 0, C1)
  BY <1>1 DEF Put
<1>3. Put(ord1, l, v, ord2) /\ Put(H1, l, h, H2) /\ Put(T1, l, t, T2) /\ Put(C1, l, Len(v), C2)
  BY <1>1 DEF Put, PutBoth
<1>4. /\ \A m \in Lists \ {l} : \A x \in ToSet(ord[m]) : x \notin ToSet(ord[l]) /\ x \in al /\ x \in Objects
      /\ \A m \in Lists \ {k} : \A x \in ToSet(ord[m]) : x \notin ToSet(ord[k]) /\ x \in al /\ x \in Objects
  BY ListHas
<1>5. ToSet(ord1[k]) = {} /\ \A m \in Lists \ {k} : ord1[m] = ord[m]
  BY <1>1, EmptyIs
<1> HIDE DEF ord1, H1, T1, C1
<1>6. Kept(ord1, H1, T1, C1, nx, al)
  <2> DEFINE e == <<>>
  <2>1. Chain(e, Null, Null, nx) /\ ToSet(e) = {} /\ Put(C, k, Len(e), C1) /\ Put(ord, k, e, ord1)
    BY <1>2, EmptyIs
  <2>2. \A m \in Lists \ {k} : \A x \in ToSet(ord[m]) : x \notin ToSet(e) /\ nx[x] = nx[x] /\ x \in al
    BY <1>4, <2>1
  <2>3. ToSet(e) \subseteq al
    BY <2>1
  <2> HIDE DEF e
  <2>4. QED BY <1>1, <1>2, <2>1, <2>2, <2>3, OneChanges
<1>7. ASSUME NEW m \in Lists \ {l}, NEW x \in ToSet(ord1[m]) PROVE x \notin ToSet(v) /\ ny[x] = nx[x] /\ x \in al
  <2>1. m # k /\ x \in ToSet(ord[m])
    BY <1>5, <1>7
  <2>2. x \notin ToSet(ord[l]) /\ x \notin ToSet(ord[k]) /\ x \in al /\ x \in Objects
    BY <1>4, <2>1
  <2>3. QED BY <2>2
<1>8. ToSet(v) \subseteq al
  <2>1. ToSet(ord[l]) \subseteq al /\ ToSet(ord[k]) \subseteq al
    BY <1>4
  <2>2. QED BY <2>1
<1>9. QED BY <1>1, <1>3, <1>6, <1>7, <1>8, OneChanges

(* A walk along the pointers meets the objects of the list.                *)
LEMMA WalkIs ==
  ASSUME NEW l \in Lists, NEW s, Chain(s, m_head[l], m_tail[l], m_next)
  PROVE  Walk(l) = s
<1> DEFINE N == Cardinality(Objects)
           L == Len(s)
           E(f, i) == IF i = 1 THEN m_head[l] ELSE IF f[i - 1] = Null THEN Null ELSE m_next[f[i - 1]]
           Solves(f) == f = [i \in 1 .. N |-> E(f, i)]
           w  == CHOOSE f : Solves(f)
           f0 == [i \in 1 .. N |-> IF i <= L THEN s[i] ELSE Null]
<1>1. /\ s \in Seq(Objects) /\ L \in Nat /\ s = [i \in 1 .. L |-> s[i]]
      /\ \A i \in 1 .. L : s[i] # Null
      /\ s = <<>> <=> L = 0
  <2>1. s \in Seq(Objects)
    BY DEF Chain
  <2>2. QED BY <2>1, ElementsAre
<1>2. N \in Nat /\ L <= N
  <2> DEFINE S == {s[i] : i \in 1 .. Len(s)}
  <2>1. \A i, j \in 1 .. Len(s) : s[i] = s[j] => i = j
    BY DEF Chain
  <2>2. IsFiniteSet(S) /\ Cardinality(S) = Len(s)
    BY <1>1, <2>1, DistinctCount
  <2>3. S \subseteq Objects
    BY <1>1, ElementsAre
  <2> HIDE DEF S
  <2>4. IsFiniteSet(Objects)
    BY SimpleListAssumption
  <2>5. Cardinality(S) <= Cardinality(Objects)
    BY <2>3, <2>4, FS_Subset
  <2>6. QED BY <2>2, <2>4, <2>5, FS_CardinalityType
<1> HIDE DEF N
<1>3. ASSUME NEW i \in 1 .. N PROVE f0[i] = E(f0, i)
  <2>1. CASE i = 1
    <3>1. f0[1] = IF 1 <= L THEN s[1] ELSE Null
      BY <2>1
    <3>2. (1 <= L => s # <<>>) /\ (~ (1 <= L) => s = <<>>)
      BY <1>1
    <3>3. f0[1] = m_head[l]
      BY <3>1, <3>2 DEF Chain
    <3>4. QED BY <2>1, <3>3
  <2>2. CASE i # 1
    <3>1. i - 1 \in 1 .. N
      BY <1>2, <2>2
    <3>2. f0[i - 1] = (IF i - 1 <= L THEN s[i - 1] ELSE Null) /\ f0[i] = (IF i <= L THEN s[i] ELSE Null)
      BY <3>1
    <3>3. CASE i <= L
      <4>1. i - 1 \in 1 .. L /\ i - 1 \in 1 .. (L - 1) /\ i - 1 <= L /\ (i - 1) + 1 = i
        BY <1>1, <1>2, <2>2, <3>3
      <4>2. m_next[s[i - 1]] = s[i] /\ s[i - 1] # Null
        <5>1. m_next[s[i - 1]] = s[(i - 1) + 1]
          BY <4>1 DEF Chain
        <5>2. QED BY <1>1, <4>1, <5>1
      <4>3. QED BY <2>2, <3>2, <3>3, <4>1, <4>2
    <3>4. CASE i - 1 = L
      <4>1. ~ (i <= L) /\ i - 1 <= L /\ L \in 1 .. L /\ s # <<>>
        BY <1>1, <1>2, <2>2, <3>4
      <4>2. m_next[s[L]] = Null /\ s[L] # Null
        BY <1>1, <4>1 DEF Chain
      <4>3. QED BY <2>2, <3>2, <3>4, <4>1, <4>2
    <3>5. CASE i - 1 > L
      <4>1. ~ (i <= L) /\ ~ (i - 1 <= L)
        BY <1>1, <1>2, <3>5
      <4>2. QED BY <2>2, <3>2, <4>1
    <3>6. QED BY <1>1, <1>2, <3>3, <3>4, <3>5
  <2>3. QED BY <2>1, <2>2
<1>4. Solves(f0)
  <2> DEFINE R == [i \in 1 .. N |-> E(f0, i)]
  <2>1. f0 = R
    BY <1>3
  <2>2. QED BY <2>1
<1>5. Solves(w)
  <2> HIDE DEF Solves
  <2>1. QED BY <1>4
<1>6. Walk(l) = [i \in 1 .. Cardinality({i \in DOMAIN w : w[i] # Null}) |-> w[i]]
  BY DEF Walk, N
<1>7. DOMAIN w = 1 .. N /\ \A i \in 1 .. N : w[i] = E(w, i)
  <2> HIDE DEF w
  <2>1. w = [i \in 1 .. N |-> E(w, i)]
    BY <1>5
  <2> HIDE DEF E
  <2>2. QED BY <2>1
<1> HIDE DEF w, f0
<1>8. \A i \in 1 .. N : w[i] = f0[i]
  <2> DEFINE P == {j \in 0 .. N : \A i \in 1 .. j : w[i] = f0[i]}
  <2>1. 0 \in P
    BY <1>2
  <2>2. ASSUME NEW j \in 0 .. (N - 1), j \in P PROVE j + 1 \in P
    <3>1. j + 1 \in 0 .. N /\ j + 1 \in 1 .. N /\ \A i \in 1 .. j : w[i] = f0[i]
      BY <1>2, <2>2
    <3>2. w[j + 1] = E(w, j + 1) /\ f0[j + 1] = E(f0, j + 1)
      BY <1>3, <1>7, <3>1
    <3>3. j + 1 # 1 => (j + 1) - 1 \in 1 .. j
      BY <1>2
    <3>4. j + 1 # 1 => w[(j + 1) - 1] = f0[(j + 1) - 1]
      BY <3>1, <3>3
    <3>5. w[j + 1] = f0[j + 1]
      BY <3>2, <3>4
    <3>6. \A i \in 1 .. (j + 1) : i \in 1 .. j \/ i = j + 1
      BY <1>2
    <3>7. \A i \in 1 .. (j + 1) : w[i] = f0[i]
      BY <3>1, <3>5, <3>6
    <3>8. QED BY <3>1, <3>7
  <2> HIDE DEF P
  <2>3. N \in P
    BY <1>2, <2>1, <2>2, LoopInduction
  <2>4. QED BY <2>3 DEF P
<1>9. \A i \in 1 .. N : w[i] = IF i <= L THEN s[i] ELSE Null
  BY <1>8 DEF f0
<1>10. {i \in DOMAIN w : w[i] # Null} = 1 .. L
  BY <1>1, <1>2, <1>7, <1>9
<1>11. Cardinality(1 .. L) = L
  <2>1. 1 \in Int /\ L \in Int
    BY <1>1
  <2>2. Cardinality(1 .. L) = IF 1 > L THEN 0 ELSE L - 1 + 1
    BY <2>1, FS_Interval
  <2>3. QED BY <1>1, <2>2
<1>12. Walk(l) = [i \in 1 .. L |-> w[i]]
  BY <1>6, <1>10, <1>11
<1>13. \A i \in 1 .. L : w[i] = s[i]
  BY <1>1, <1>2, <1>9
<1>14. QED BY <1>1, <1>12, <1>13

(* The positions of the objects of a list, and the one before each.        *)
LEMMA PlacesAre ==
  ASSUME NEW l \in Lists, NEW s, Chain(s, m_head[l], m_tail[l], m_next), NEW i \in 1 .. Len(s)
  PROVE  /\ indexof(l, s[i]) = i - 1 /\ find(l, i - 1) = s[i]
         /\ Prev(l, s[i]) = IF i = 1 THEN Null ELSE s[i - 1]
<1>1. Walk(l) = s
  BY WalkIs
<1>2. Len(s) \in Nat /\ DOMAIN s = 1 .. Len(s) /\ \A j \in 1 .. Len(s) : s[j] \in ToSet(s)
  <2>1. s \in Seq(Objects)
    BY DEF Chain
  <2>2. QED BY <2>1, ElementsAre
<1>3. indexof(l, s[i]) = i - 1
  <2>1. \A j \in 1 .. Len(s) : s[j] = s[i] => j = i
    BY DEF Chain
  <2>2. Has(l, s[i])
    BY <1>1, <1>2 DEF Has
  <2>3. (CHOOSE j \in DOMAIN s : s[j] = s[i]) = i
    BY <1>2, <2>1
  <2>4. QED BY <1>1, <2>2, <2>3 DEF indexof
<1>4. \A n \in Int : find(l, n) = IF n + 1 \in 1 .. Len(s) THEN s[n + 1] ELSE Null
  BY <1>1, <1>2 DEF find
<1>5. (i - 1) + 1 = i /\ i - 1 \in Int /\ (i - 1) - 1 \in Int /\ ((i - 1) - 1) + 1 = i - 1
      /\ (i - 1 \in 1 .. Len(s) <=> i # 1)
  BY <1>2
<1>6. find(l, i - 1) = s[i]
  BY <1>4, <1>5
<1>7. find(l, (i - 1) - 1) = IF i = 1 THEN Null ELSE s[i - 1]
  BY <1>4, <1>5
<1>8. QED BY <1>3, <1>6, <1>7 DEF Prev

ListsKept == Kept(order, m_head, m_tail, m_count, m_next, alive)

(* What is known of a list before a step, and of an object in none.        *)
LEMMA BeforeStep ==
  ASSUME ListsKept, NEW l \in Lists
  PROVE  /\ DOMAIN order = Lists /\ DOMAIN m_head = Lists /\ DOMAIN m_tail = Lists /\ DOMAIN m_count = Lists
         /\ DOMAIN m_next = Objects /\ alive \subseteq Objects
         /\ order[l] \in Seq(Objects) /\ Len(order[l]) \in Nat /\ m_count[l] = Len(order[l])
         /\ \A i \in 1 .. Len(order[l]) : order[l][i] \in Objects /\ order[l][i] # Null
         /\ \A i, j \in 1 .. Len(order[l]) : order[l][i] = order[l][j] => i = j
         /\ \A i \in 1 .. (Len(order[l]) - 1) : m_next[order[l][i]] = order[l][i + 1]
         /\ Len(order[l]) = 0 => m_head[l] = Null /\ m_tail[l] = Null /\ order[l] = <<>>
         /\ Len(order[l]) # 0 => /\ m_head[l] = order[l][1] /\ m_tail[l] = order[l][Len(order[l])]
                                 /\ m_next[m_tail[l]] = Null /\ order[l] # <<>>
         /\ Chain(order[l], m_head[l], m_tail[l], m_next)
         /\ \A x \in ToSet(order[l]) : \E i \in 1 .. Len(order[l]) : order[l][i] = x
<1>1. /\ DOMAIN order = Lists /\ DOMAIN m_head = Lists /\ DOMAIN m_tail = Lists /\ DOMAIN m_count = Lists
      /\ DOMAIN m_next = Objects /\ alive \subseteq Objects /\ OneKept(order, m_head, m_tail, m_count, m_next, alive, l)
  BY DEF ListsKept, Kept
<1>2. Chain(order[l], m_head[l], m_tail[l], m_next) /\ m_count[l] = Len(order[l])
  BY <1>1 DEF OneKept
<1>3. order[l] \in Seq(Objects)
  BY <1>2 DEF Chain
<1>4. /\ Len(order[l]) \in Nat /\ \A i \in 1 .. Len(order[l]) : order[l][i] \in Objects /\ order[l][i] # Null
      /\ order[l] = <<>> <=> Len(order[l]) = 0
      /\ \A x \in ToSet(order[l]) : \E i \in 1 .. Len(order[l]) : order[l][i] = x
  BY <1>3, ElementsAre
<1>5. QED BY <1>1, <1>2, <1>3, <1>4 DEF Chain

(* An object that is allocated and in no list.                             *)
LEMMA LooseIs ==
  ASSUME NEW o, Loose(o)
  PROVE  o \in alive /\ \A k \in Lists : o \notin ToSet(order[k])
BY DEF Loose, Listed

(* A function whose value at a list changes.                               *)
LEMMA PutIs ==
  ASSUME NEW f, DOMAIN f = Lists, NEW l \in Lists, NEW x
  PROVE  Put(f, l, x, [f EXCEPT ![l] = x]) /\ (f[l] = x => Put(f, l, x, f))
BY DEF Put

(* prepend: coretmpl.h links the object to the head, which it becomes.     *)
LEMMA PrependStep ==
  ASSUME ListsKept, NEW l \in Lists, NEW o, prepend(l, o)
  PROVE  Kept(order', m_head', m_tail', m_count', m_next', alive')
<1> DEFINE s == order[l]
           v == <<o>> \o s
<1>1. o \in alive /\ \A k \in Lists : o \notin ToSet(order[k])
  BY LooseIs DEF prepend
<1>2. /\ DOMAIN order = Lists /\ DOMAIN m_head = Lists /\ DOMAIN m_tail = Lists /\ DOMAIN m_count = Lists
      /\ DOMAIN m_next = Objects /\ o \in Objects /\ s \in Seq(Objects) /\ Len(s) \in Nat /\ m_count[l] = Len(s)
      /\ (Len(s) = 0 => m_head[l] = Null /\ m_tail[l] = Null)
      /\ (Len(s) # 0 => m_head[l] = s[1] /\ m_tail[l] = s[Len(s)])
      /\ \A i \in 1 .. Len(s) : s[i] # Null
  BY <1>1, BeforeStep
<1>3. Inserted(v, s, 1, o)
  BY <1>2, SequencesMade
<1>4. /\ m_next' = [m_next EXCEPT ![o] = m_head[l]] /\ m_head' = [m_head EXCEPT ![l] = o]
      /\ m_tail' = IF m_tail[l] = Null THEN [m_tail EXCEPT ![l] = o] ELSE m_tail
      /\ m_count' = [m_count EXCEPT ![l] = Len(s) + 1] /\ order' = [order EXCEPT ![l] = v] /\ alive' = alive
  BY <1>2 DEF prepend
<1> DEFINE i == 1
<1>5. /\ DOMAIN m_next' = Objects /\ m_next'[o] = (IF i <= Len(s) THEN s[i] ELSE Null)
      /\ \A x \in Objects \ {o} : (i > 1 /\ x = s[i - 1]) \/ m_next'[x] = m_next[x]
      /\ (i > 1 => m_next'[s[i - 1]] = o)
      /\ i \in 1 .. (Len(s) + 1)
  BY <1>2, <1>4
<1>6. m_tail[l] = Null <=> i = Len(s) + 1
  <2>1. Len(s) # 0 => Len(s) \in 1 .. Len(s)
    BY <1>2
  <2>2. QED BY <1>2, <2>1
<1> HIDE DEF v
<1>7. /\ Put(order, l, v, order') /\ Put(m_head, l, IF i = 1 THEN o ELSE m_head[l], m_head')
      /\ Put(m_tail, l, IF i = Len(s) + 1 THEN o ELSE m_tail[l], m_tail')
      /\ Put(m_count, l, Len(s) + 1, m_count')
  BY <1>2, <1>4, <1>6, PutIs
<1>8. Inserted(v, s, i, o)
  BY <1>3
<1>9. Kept(order, m_head, m_tail, m_count, m_next, alive)
  BY DEF ListsKept
<1> HIDE DEF i
<1>10. Kept(order', m_head', m_tail', m_count', m_next', alive)
  BY <1>1, <1>5, <1>7, <1>8, <1>9, OneInserted
<1>11. QED BY <1>4, <1>10

(* append: the tail is linked to the object, which becomes the tail, and   *)
(* the head of an empty list.                                              *)
LEMMA AppendStep ==
  ASSUME ListsKept, NEW l \in Lists, NEW o, append(l, o)
  PROVE  Kept(order', m_head', m_tail', m_count', m_next', alive')
<1> DEFINE s == order[l]
           v == Append(s, o)
           i == Len(s) + 1
<1>1. o \in alive /\ \A k \in Lists : o \notin ToSet(order[k])
  BY LooseIs DEF append
<1>2. /\ DOMAIN order = Lists /\ DOMAIN m_head = Lists /\ DOMAIN m_tail = Lists /\ DOMAIN m_count = Lists
      /\ DOMAIN m_next = Objects /\ o \in Objects /\ s \in Seq(Objects) /\ Len(s) \in Nat /\ m_count[l] = Len(s)
      /\ (Len(s) = 0 => m_head[l] = Null /\ m_tail[l] = Null)
      /\ (Len(s) # 0 => m_head[l] = s[1] /\ m_tail[l] = s[Len(s)])
      /\ \A j \in 1 .. Len(s) : s[j] # Null /\ s[j] \in Objects
  BY <1>1, BeforeStep
<1>3. Inserted(v, s, i, o)
  BY <1>2, SequencesMade
<1>4. /\ m_next' = (IF m_tail[l] # Null THEN [m_next EXCEPT ![m_tail[l]] = o, ![o] = Null]
                                        ELSE [m_next EXCEPT ![o] = Null])
      /\ m_head' = (IF m_tail[l] = Null THEN [m_head EXCEPT ![l] = o] ELSE m_head)
      /\ m_tail' = [m_tail EXCEPT ![l] = o]
      /\ m_count' = [m_count EXCEPT ![l] = Len(s) + 1] /\ order' = [order EXCEPT ![l] = v] /\ alive' = alive
  BY <1>2 DEF append
<1>5. m_tail[l] = Null <=> Len(s) = 0
  <2>1. Len(s) # 0 => Len(s) \in 1 .. Len(s)
    BY <1>2
  <2>2. QED BY <1>2, <2>1
<1>6. s \in Seq(Objects) /\ (Len(s) # 0 => s[Len(s)] \in ToSet(s) /\ s[Len(s)] # o /\ s[Len(s)] \in Objects)
  <2>1. \A j \in 1 .. Len(s) : s[j] \in ToSet(s)
    BY <1>2, ElementsAre
  <2>2. Len(s) # 0 => Len(s) \in 1 .. Len(s)
    BY <1>2
  <2>3. QED BY <1>1, <1>2, <2>1, <2>2
<1>7. i \in 1 .. (Len(s) + 1) /\ ~ (i <= Len(s)) /\ (i > 1 <=> Len(s) # 0) /\ i - 1 = Len(s) /\ (i = 1 <=> Len(s) = 0)
      /\ i = Len(s) + 1
  BY <1>2
<1> HIDE DEF v, i
<1>8. /\ DOMAIN m_next' = Objects /\ m_next'[o] = (IF i <= Len(s) THEN s[i] ELSE Null)
      /\ \A x \in Objects \ {o} : (i > 1 /\ x = s[i - 1]) \/ m_next'[x] = m_next[x]
      /\ (i > 1 => m_next'[s[i - 1]] = o)
  <2>1. CASE Len(s) = 0
    <3>1. m_next' = [m_next EXCEPT ![o] = Null]
      BY <1>4, <1>5, <2>1
    <3>2. QED BY <1>2, <1>7, <2>1, <3>1
  <2>2. CASE Len(s) # 0
    <3>1. m_next' = [m_next EXCEPT ![s[Len(s)]] = o, ![o] = Null]
      BY <1>2, <1>4, <1>5, <2>2
    <3>2. QED BY <1>2, <1>6, <1>7, <2>2, <3>1
  <2>3. QED BY <2>1, <2>2
<1>9. /\ Put(order, l, v, order') /\ Put(m_head, l, IF i = 1 THEN o ELSE m_head[l], m_head')
      /\ Put(m_tail, l, IF i = Len(s) + 1 THEN o ELSE m_tail[l], m_tail')
      /\ Put(m_count, l, Len(s) + 1, m_count')
  BY <1>2, <1>4, <1>5, <1>7, PutIs
<1>10. Kept(order, m_head, m_tail, m_count, m_next, alive)
  BY DEF ListsKept
<1>11. Kept(order', m_head', m_tail', m_count', m_next', alive)
  BY <1>1, <1>3, <1>7, <1>8, <1>9, <1>10, OneInserted
<1>12. QED BY <1>4, <1>11

(* Where an object of a list is.                                           *)
LEMMA PlaceOf ==
  ASSUME ListsKept, NEW l \in Lists, NEW p \in ToSet(order[l])
  PROVE  \E j \in 1 .. Len(order[l]) :
           /\ order[l][j] = p /\ indexof(l, p) = j - 1
           /\ Prev(l, p) = IF j = 1 THEN Null ELSE order[l][j - 1]
           /\ m_next[p] = IF j + 1 <= Len(order[l]) THEN order[l][j + 1] ELSE Null
           /\ m_head[l] = p <=> j = 1
           /\ m_tail[l] = p <=> j = Len(order[l])
           /\ j > 1 => /\ j - 1 \in 1 .. Len(order[l]) /\ order[l][j - 1] \in Objects
                       /\ order[l][j - 1] # Null /\ order[l][j - 1] # p
                       /\ order[l][j - 1] \in ToSet(order[l])
           /\ j \in 1 .. Len(order[l]) /\ p \in Objects
<1> DEFINE s == order[l]
<1>1. /\ s \in Seq(Objects) /\ Len(s) \in Nat
      /\ \A i \in 1 .. Len(s) : s[i] \in Objects /\ s[i] # Null
      /\ \A i, j \in 1 .. Len(s) : s[i] = s[j] => i = j
      /\ \A i \in 1 .. (Len(s) - 1) : m_next[s[i]] = s[i + 1]
      /\ (Len(s) # 0 => m_head[l] = s[1] /\ m_tail[l] = s[Len(s)] /\ m_next[m_tail[l]] = Null)
      /\ Chain(s, m_head[l], m_tail[l], m_next)
      /\ \A x \in ToSet(s) : \E i \in 1 .. Len(s) : s[i] = x
  BY BeforeStep
<1>2. PICK j \in 1 .. Len(s) : s[j] = p
  BY <1>1
<1>3. indexof(l, p) = j - 1 /\ Prev(l, p) = (IF j = 1 THEN Null ELSE s[j - 1])
  BY <1>1, <1>2, PlacesAre
<1>4. Len(s) # 0 /\ 1 \in 1 .. Len(s) /\ Len(s) \in 1 .. Len(s)
  BY <1>1
<1>5. m_next[p] = IF j + 1 <= Len(s) THEN s[j + 1] ELSE Null
  <2>1. CASE j + 1 <= Len(s)
    <3>1. j \in 1 .. (Len(s) - 1)
      BY <1>1, <2>1
    <3>2. QED BY <1>1, <1>2, <2>1, <3>1
  <2>2. CASE ~ (j + 1 <= Len(s))
    <3>1. j = Len(s)
      BY <1>1, <2>2
    <3>2. QED BY <1>1, <1>2, <1>4, <2>2, <3>1
  <2>3. QED BY <2>1, <2>2
<1>6. (m_head[l] = p <=> j = 1) /\ (m_tail[l] = p <=> j = Len(s))
  BY <1>1, <1>2, <1>4
<1>7. ASSUME j > 1
      PROVE  j - 1 \in 1 .. Len(s) /\ s[j - 1] \in Objects /\ s[j - 1] # Null /\ s[j - 1] # p /\ s[j - 1] \in ToSet(s)
  <2>1. j - 1 \in 1 .. Len(s) /\ j - 1 # j
    BY <1>1, <1>7
  <2>2. QED BY <1>1, <1>2, <2>1, ElementsAre
<1>8. p \in Objects
  BY <1>1, <1>2
<1>9. QED BY <1>2, <1>3, <1>5, <1>6, <1>7, <1>8

(* insert_after: the object is linked between the one it goes behind and   *)
(* the next.                                                               *)
LEMMA InsertAfterStep ==
  ASSUME ListsKept, NEW l \in Lists, NEW o, NEW p, insert_after(l, o, p)
  PROVE  Kept(order', m_head', m_tail', m_count', m_next', alive')
<1> DEFINE s == order[l]
<1>1. o \in alive /\ (\A k \in Lists : o \notin ToSet(order[k])) /\ p \in ToSet(s)
  BY LooseIs DEF insert_after
<1>2. /\ DOMAIN order = Lists /\ DOMAIN m_head = Lists /\ DOMAIN m_tail = Lists /\ DOMAIN m_count = Lists
      /\ DOMAIN m_next = Objects /\ o \in Objects /\ s \in Seq(Objects) /\ Len(s) \in Nat /\ m_count[l] = Len(s)
  BY <1>1, BeforeStep
<1>3. PICK j \in 1 .. Len(s) :
        /\ s[j] = p /\ indexof(l, p) = j - 1
        /\ m_next[p] = IF j + 1 <= Len(s) THEN s[j + 1] ELSE Null
        /\ m_tail[l] = p <=> j = Len(s)
        /\ p \in Objects
  BY <1>1, PlaceOf
<1> DEFINE i == j + 1
           v == InsertAt(s, i, o)
<1>4. i \in 1 .. (Len(s) + 1) /\ i > 1 /\ i # 1 /\ i - 1 = j /\ (j = Len(s) <=> i = Len(s) + 1) /\ (j - 1) + 2 = i
  BY <1>2
<1>5. Inserted(v, s, i, o)
  BY <1>2, <1>4, SequencesMade
<1>6. /\ m_next' = [m_next EXCEPT ![o] = m_next[p], ![p] = o]
      /\ m_tail' = (IF m_tail[l] = p THEN [m_tail EXCEPT ![l] = o] ELSE m_tail)
      /\ m_count' = [m_count EXCEPT ![l] = Len(s) + 1] /\ order' = [order EXCEPT ![l] = v]
      /\ m_head' = m_head /\ alive' = alive
  BY <1>2, <1>3, <1>4 DEF insert_after
<1> HIDE DEF v, i
<1>7. /\ DOMAIN m_next' = Objects /\ m_next'[o] = (IF i <= Len(s) THEN s[i] ELSE Null)
      /\ \A x \in Objects \ {o} : (i > 1 /\ x = s[i - 1]) \/ m_next'[x] = m_next[x]
      /\ (i > 1 => m_next'[s[i - 1]] = o)
  <2>1. o # p
    BY <1>1
  <2>2. m_next[p] = (IF i <= Len(s) THEN s[i] ELSE Null) /\ s[i - 1] = p
    BY <1>3, <1>4 DEF i
  <2>3. QED BY <1>2, <1>3, <1>4, <1>6, <2>1, <2>2
<1>8. /\ Put(order, l, v, order') /\ Put(m_head, l, IF i = 1 THEN o ELSE m_head[l], m_head')
      /\ Put(m_tail, l, IF i = Len(s) + 1 THEN o ELSE m_tail[l], m_tail')
      /\ Put(m_count, l, Len(s) + 1, m_count')
  BY <1>2, <1>3, <1>4, <1>6, PutIs
<1>9. Kept(order, m_head, m_tail, m_count, m_next, alive)
  BY DEF ListsKept
<1>10. Kept(order', m_head', m_tail', m_count', m_next', alive)
  BY <1>1, <1>4, <1>5, <1>7, <1>8, <1>9, OneInserted
<1>11. QED BY <1>6, <1>10

(* insert_before: the object is linked in front of the one named, behind   *)
(* the one that a walk finds before it.                                    *)
LEMMA InsertBeforeStep ==
  ASSUME ListsKept, NEW l \in Lists, NEW o, NEW p, insert_before(l, o, p)
  PROVE  Kept(order', m_head', m_tail', m_count', m_next', alive')
<1> DEFINE s == order[l]
<1>1. o \in alive /\ (\A k \in Lists : o \notin ToSet(order[k])) /\ p \in ToSet(s)
  BY LooseIs DEF insert_before
<1>2. /\ DOMAIN order = Lists /\ DOMAIN m_head = Lists /\ DOMAIN m_tail = Lists /\ DOMAIN m_count = Lists
      /\ DOMAIN m_next = Objects /\ o \in Objects /\ s \in Seq(Objects) /\ Len(s) \in Nat /\ m_count[l] = Len(s)
  BY <1>1, BeforeStep
<1>3. PICK i \in 1 .. Len(s) :
        /\ s[i] = p /\ indexof(l, p) = i - 1
        /\ Prev(l, p) = IF i = 1 THEN Null ELSE s[i - 1]
        /\ m_head[l] = p <=> i = 1
        /\ i > 1 => s[i - 1] \in Objects /\ s[i - 1] # Null /\ s[i - 1] \in ToSet(s)
        /\ p \in Objects
  BY <1>1, PlaceOf
<1> DEFINE v == InsertAt(s, i, o)
<1>4. i \in 1 .. (Len(s) + 1) /\ i <= Len(s) /\ (i # 1 <=> i > 1) /\ i # Len(s) + 1 /\ (i - 1) + 1 = i
  BY <1>2
<1>5. Inserted(v, s, i, o)
  BY <1>2, <1>4, SequencesMade
<1>6. /\ m_next' = (IF i = 1 THEN [m_next EXCEPT ![o] = p] ELSE [m_next EXCEPT ![o] = p, ![s[i - 1]] = o])
      /\ m_head' = (IF m_head[l] = p THEN [m_head EXCEPT ![l] = o] ELSE m_head)
      /\ m_count' = [m_count EXCEPT ![l] = Len(s) + 1] /\ order' = [order EXCEPT ![l] = v]
      /\ m_tail' = m_tail /\ alive' = alive
  <2>1. Prev(l, p) = Null <=> i = 1
    BY <1>3, <1>4
  <2>2. QED BY <1>2, <1>3, <1>4, <2>1 DEF insert_before
<1> HIDE DEF v
<1>7. /\ DOMAIN m_next' = Objects /\ m_next'[o] = (IF i <= Len(s) THEN s[i] ELSE Null)
      /\ \A x \in Objects \ {o} : (i > 1 /\ x = s[i - 1]) \/ m_next'[x] = m_next[x]
      /\ (i > 1 => m_next'[s[i - 1]] = o)
  <2>1. i > 1 => s[i - 1] # o
    BY <1>1, <1>3
  <2>2. QED BY <1>2, <1>3, <1>4, <1>6, <2>1
<1>8. /\ Put(order, l, v, order') /\ Put(m_head, l, IF i = 1 THEN o ELSE m_head[l], m_head')
      /\ Put(m_tail, l, IF i = Len(s) + 1 THEN o ELSE m_tail[l], m_tail')
      /\ Put(m_count, l, Len(s) + 1, m_count')
  BY <1>2, <1>3, <1>4, <1>6, PutIs
<1>9. Kept(order, m_head, m_tail, m_count, m_next, alive)
  BY DEF ListsKept
<1>10. Kept(order', m_head', m_tail', m_count', m_next', alive)
  BY <1>1, <1>4, <1>5, <1>7, <1>8, <1>9, OneInserted
<1>11. QED BY <1>6, <1>10

(* replace_and_remove: the object takes the links of the one it replaces,  *)
(* which is freed; if that one is not in the list, it is appended.         *)
LEMMA ReplaceStep ==
  ASSUME ListsKept, NEW l \in Lists, NEW o, NEW p, replace_and_remove(l, o, p)
  PROVE  Kept(order', m_head', m_tail', m_count', m_next', alive')
<1> DEFINE s == order[l]
           There == /\ Loose(o) /\ p \in ToSet(order[l])
                    /\ m_next' = IF Prev(l, p) = Null
                                 THEN [m_next EXCEPT ![o] = m_next[p], ![p] = Null]
                                 ELSE [m_next EXCEPT ![o] = m_next[p], ![Prev(l, p)] = o, ![p] = Null]
                    /\ m_head' = IF Prev(l, p) = Null THEN [m_head EXCEPT ![l] = o] ELSE m_head
                    /\ m_tail' = IF m_tail[l] = p THEN [m_tail EXCEPT ![l] = o] ELSE m_tail
                    /\ alive' = alive \ {p}
                    /\ order' = [order EXCEPT ![l] = ReplaceAt(@, indexof(l, p) + 1, o)]
                    /\ UNCHANGED m_count
<1>1. append(l, o) \/ There
  BY DEF replace_and_remove
<1>2. CASE append(l, o)
  BY <1>2, AppendStep
<1>3. CASE There
  <2>1. o \in alive /\ (\A k \in Lists : o \notin ToSet(order[k])) /\ p \in ToSet(s)
    BY <1>3, LooseIs
  <2>2. /\ DOMAIN order = Lists /\ DOMAIN m_head = Lists /\ DOMAIN m_tail = Lists /\ DOMAIN m_count = Lists
        /\ DOMAIN m_next = Objects /\ o \in Objects /\ s \in Seq(Objects) /\ Len(s) \in Nat
    BY <2>1, BeforeStep
  <2>3. PICK i \in 1 .. Len(s) :
          /\ s[i] = p /\ indexof(l, p) = i - 1
          /\ Prev(l, p) = IF i = 1 THEN Null ELSE s[i - 1]
          /\ m_tail[l] = p <=> i = Len(s)
          /\ i > 1 => s[i - 1] \in Objects /\ s[i - 1] # Null /\ s[i - 1] # p /\ s[i - 1] \in ToSet(s)
          /\ p \in Objects
    BY <2>1, PlaceOf
  <2> DEFINE v == ReplaceAt(s, i, o)
  <2>4. (i # 1 <=> i > 1) /\ (i - 1) + 1 = i
    BY <2>2
  <2>5. Replaced(v, s, i, o)
    BY <2>2, SequencesMade
  <2>6. /\ m_next' = (IF i = 1 THEN [m_next EXCEPT ![o] = m_next[p], ![p] = Null]
                               ELSE [m_next EXCEPT ![o] = m_next[p], ![s[i - 1]] = o, ![p] = Null])
        /\ m_head' = (IF i = 1 THEN [m_head EXCEPT ![l] = o] ELSE m_head)
        /\ m_tail' = (IF m_tail[l] = p THEN [m_tail EXCEPT ![l] = o] ELSE m_tail)
        /\ order' = [order EXCEPT ![l] = v]
        /\ m_count' = m_count /\ alive' = alive \ {p}
    <3>1. Prev(l, p) = Null <=> i = 1
      BY <2>3, <2>4
    <3>2. QED BY <1>3, <2>2, <2>3, <2>4, <3>1
  <2> HIDE DEF v, There
  <2>7. /\ DOMAIN m_next' = Objects /\ m_next'[o] = m_next[s[i]]
        /\ \A x \in Objects \ {o, s[i]} : (i > 1 /\ x = s[i - 1]) \/ m_next'[x] = m_next[x]
        /\ (i > 1 => m_next'[s[i - 1]] = o)
    <3>1. o # p /\ (i > 1 => s[i - 1] # o)
      BY <2>1, <2>3
    <3>2. QED BY <2>2, <2>3, <2>4, <2>6, <3>1
  <2>8. /\ Put(order, l, v, order') /\ Put(m_head, l, IF i = 1 THEN o ELSE m_head[l], m_head')
        /\ Put(m_tail, l, IF i = Len(s) THEN o ELSE m_tail[l], m_tail')
    BY <2>2, <2>3, <2>6, PutIs
  <2>9. Kept(order, m_head, m_tail, m_count, m_next, alive)
    BY DEF ListsKept
  <2>10. alive' = alive \ {s[i]}
    BY <2>3, <2>6
  <2>11. Kept(order', m_head', m_tail', m_count, m_next', alive')
    BY <2>1, <2>5, <2>7, <2>8, <2>9, <2>10, OneReplaced
  <2>12. QED BY <2>6, <2>11
<1>4. QED BY <1>1, <1>2, <1>3

(* detach: the object before is linked to the one behind; the head or the  *)
(* tail moves when it was the one.                                         *)
LEMMA DetachStep ==
  ASSUME ListsKept, NEW l \in Lists, NEW o \in ToSet(order[l]), NEW left, Detach(l, o, left),
         alive' = alive \/ alive' = alive \ {o}
  PROVE  Kept(order', m_head', m_tail', m_count', m_next', alive')
<1> DEFINE s == order[l]
<1>2. /\ DOMAIN order = Lists /\ DOMAIN m_head = Lists /\ DOMAIN m_tail = Lists /\ DOMAIN m_count = Lists
      /\ DOMAIN m_next = Objects /\ s \in Seq(Objects) /\ Len(s) \in Nat /\ m_count[l] = Len(s)
  BY BeforeStep
<1>3. PICK i \in 1 .. Len(s) :
        /\ s[i] = o /\ indexof(l, o) = i - 1
        /\ Prev(l, o) = IF i = 1 THEN Null ELSE s[i - 1]
        /\ m_tail[l] = o <=> i = Len(s)
        /\ i > 1 => s[i - 1] \in Objects /\ s[i - 1] # Null /\ s[i - 1] # o
        /\ o \in Objects
  BY PlaceOf
<1> DEFINE v == RemoveAt(s, i)
<1>4. (i # 1 <=> i > 1) /\ (i - 1) + 1 = i
  BY <1>2
<1>5. Removed(v, s, i)
  BY <1>2, <1>3, SequencesMade
<1>6. /\ m_next' = (IF i # 1 THEN [m_next EXCEPT ![s[i - 1]] = m_next[o], ![o] = left]
                             ELSE [m_next EXCEPT ![o] = left])
      /\ m_head' = (IF i # 1 THEN m_head ELSE [m_head EXCEPT ![l] = m_next[o]])
      /\ m_tail' = (IF i = Len(s) THEN [m_tail EXCEPT ![l] = IF i = 1 THEN Null ELSE s[i - 1]] ELSE m_tail)
      /\ m_count' = [m_count EXCEPT ![l] = Len(s) - 1] /\ order' = [order EXCEPT ![l] = v]
  <2>1. Prev(l, o) = Null <=> i = 1
    BY <1>3, <1>4
  <2>2. i # 1 => Prev(l, o) = s[i - 1]
    BY <1>3
  <2>3. QED BY <1>2, <1>3, <1>4, <2>1, <2>2 DEF Detach
<1> HIDE DEF v
<1>7. /\ DOMAIN m_next' = Objects
      /\ \A x \in Objects \ {s[i]} : (i > 1 /\ x = s[i - 1]) \/ m_next'[x] = m_next[x]
      /\ (i > 1 => m_next'[s[i - 1]] = m_next[s[i]])
  BY <1>2, <1>3, <1>4, <1>6
<1>8. /\ Put(order, l, v, order') /\ Put(m_head, l, IF i = 1 THEN m_next[s[i]] ELSE m_head[l], m_head')
      /\ Put(m_tail, l, IF i # Len(s) THEN m_tail[l] ELSE IF i = 1 THEN Null ELSE s[i - 1], m_tail')
      /\ Put(m_count, l, Len(s) - 1, m_count')
  BY <1>2, <1>3, <1>4, <1>6, PutIs
<1>9. Kept(order, m_head, m_tail, m_count, m_next, alive)
  BY DEF ListsKept
<1>10. alive' \subseteq alive /\ alive \ {s[i]} \subseteq alive'
  BY <1>3
<1>11. QED BY <1>5, <1>7, <1>8, <1>9, <1>10, OneRemoved

(* remove: detach and free; an object in no list is only freed.            *)
LEMMA RemoveStep ==
  ASSUME ListsKept, NEW l \in Lists, NEW o, remove(l, o)
  PROVE  Kept(order', m_head', m_tail', m_count', m_next', alive')
<1>1. CASE o \in ToSet(order[l]) /\ Detach(l, o, Null)
  BY <1>1, DetachStep DEF remove
<1>2. CASE /\ Loose(o) /\ m_next' = [m_next EXCEPT ![o] = Null]
           /\ UNCHANGED <<m_head, m_tail, m_count, order>>
  <2>1. \A k \in Lists : o \notin ToSet(order[k])
    BY <1>2, LooseIs
  <2>2. Kept(order, m_head, m_tail, m_count, m_next, alive) /\ DOMAIN m_next = Objects /\ alive \subseteq Objects
    BY DEF ListsKept, Kept
  <2>3. alive' = alive \ {o}
    BY DEF remove
  <2>4. ASSUME NEW k \in Lists, NEW x \in ToSet(order[k])
        PROVE  m_next'[x] = m_next[x] /\ x \in alive'
    <3>1. x # o
      BY <2>1
    <3>2. x \in Objects /\ x \in alive
      BY <2>2, ListHas
    <3>3. QED BY <1>2, <2>2, <2>3, <3>1, <3>2
  <2>5. DOMAIN m_next' = Objects /\ alive' \subseteq Objects
    BY <1>2, <2>2, <2>3
  <2>6. Kept(order, m_head, m_tail, m_count, m_next', alive')
    BY <2>2, <2>4, <2>5, NoneChanges
  <2>7. QED BY <1>2, <2>6
<1>3. QED BY <1>1, <1>2 DEF remove

(* reset: every object of the list is freed.                               *)
LEMMA ResetStep ==
  ASSUME ListsKept, NEW l \in Lists, reset(l)
  PROVE  Kept(order', m_head', m_tail', m_count', m_next', alive')
<1> DEFINE e == <<>>
<1>1. /\ DOMAIN order = Lists /\ DOMAIN m_head = Lists /\ DOMAIN m_tail = Lists /\ DOMAIN m_count = Lists
      /\ DOMAIN m_next = Objects /\ alive \subseteq Objects
  BY BeforeStep
<1>2. /\ m_head' = [m_head EXCEPT ![l] = Null] /\ m_tail' = [m_tail EXCEPT ![l] = Null]
      /\ m_count' = [m_count EXCEPT ![l] = Len(e)] /\ order' = [order EXCEPT ![l] = e]
      /\ alive' = alive \ ToSet(order[l])
      /\ m_next' = [o \in Objects |-> IF o \in ToSet(order[l]) THEN Null ELSE m_next[o]]
  BY EmptyIs DEF reset
<1>3. Chain(e, Null, Null, m_next') /\ ToSet(e) = {}
  BY EmptyIs
<1> HIDE DEF e
<1>4. /\ Put(order, l, e, order') /\ Put(m_head, l, Null, m_head') /\ Put(m_tail, l, Null, m_tail')
      /\ Put(m_count, l, Len(e), m_count')
  BY <1>1, <1>2, PutIs
<1>5. Kept(order, m_head, m_tail, m_count, m_next, alive)
  BY DEF ListsKept
<1>6. ASSUME NEW k \in Lists \ {l}, NEW x \in ToSet(order[k])
      PROVE  x \notin ToSet(e) /\ m_next'[x] = m_next[x] /\ x \in alive'
  <2>1. x \notin ToSet(order[l]) /\ x \in alive /\ x \in Objects
    BY <1>5, ListHas
  <2>2. QED BY <1>2, <1>3, <2>1
<1>7. DOMAIN m_next' = Objects /\ alive' \subseteq Objects /\ ToSet(e) \subseteq alive'
  BY <1>1, <1>2, <1>3
<1>8. QED BY <1>3, <1>4, <1>5, <1>6, <1>7, OneChanges

(* alloc of fixed_allocator: the head of the free list, or a new object.   *)
LEMMA AllocStep ==
  ASSUME ListsKept, alloc
  PROVE  Kept(order', m_head', m_tail', m_count', m_next', alive')
<1> DEFINE l == Pool
           s == order[l]
           i == 1
<1>1. l \in Lists
  BY SimpleListAssumption
<1>2. /\ DOMAIN order = Lists /\ DOMAIN m_head = Lists /\ DOMAIN m_tail = Lists /\ DOMAIN m_count = Lists
      /\ DOMAIN m_next = Objects /\ alive \subseteq Objects
      /\ s \in Seq(Objects) /\ Len(s) \in Nat /\ m_count[l] = Len(s)
      /\ (Len(s) = 0 => m_head[l] = Null)
      /\ (Len(s) # 0 => m_head[l] = s[1] /\ m_tail[l] = s[Len(s)] /\ m_next[m_tail[l]] = Null /\ s # <<>>)
      /\ \A j \in 1 .. (Len(s) - 1) : m_next[s[j]] = s[j + 1]
      /\ \A j \in 1 .. Len(s) : s[j] \in Objects /\ s[j] # Null
  BY <1>1, BeforeStep
<1>3. Kept(order, m_head, m_tail, m_count, m_next, alive)
  BY DEF ListsKept
<1>4. CASE m_head[Pool] # Null
  <2>1. /\ m_head' = [m_head EXCEPT ![l] = m_next[s[1]]]
        /\ m_tail' = (IF m_next[s[1]] = Null THEN [m_tail EXCEPT ![l] = Null] ELSE m_tail)
        /\ m_count' = [m_count EXCEPT ![l] = Len(s) - 1] /\ order' = [order EXCEPT ![l] = Tail(s)]
        /\ m_next' = m_next /\ alive' = alive /\ Len(s) # 0
    BY <1>2, <1>4 DEF alloc
  <2> DEFINE v == Tail(s)
  <2>2. Removed(v, s, i)
    <3>1. s[1] \in Objects /\ s # <<>>
      BY <1>2, <2>1
    <3>2. QED BY <1>2, <3>1, SequencesMade
  <2>3. m_next[s[1]] = Null <=> i = Len(s)
    <3>1. CASE Len(s) = 1
      BY <1>2, <3>1
    <3>2. CASE Len(s) # 1
      <4>1. 1 \in 1 .. (Len(s) - 1) /\ 1 + 1 \in 1 .. Len(s)
        <5>1. Len(s) \in Nat /\ Len(s) # 0
          BY <1>2, <2>1
        <5>2. \A n \in Nat : n # 0 /\ n # 1 => 1 \in 1 .. (n - 1) /\ 1 + 1 \in 1 .. n
          OBVIOUS
        <5>3. QED BY <3>2, <5>1, <5>2
      <4>2. m_next[s[1]] = s[1 + 1] /\ s[1 + 1] # Null
        BY <1>2, <4>1
      <4>3. QED BY <3>2, <4>2
    <3>3. QED BY <3>1, <3>2
  <2>4. i \in 1 .. Len(s)
    BY <1>2, <2>1
  <2>5. /\ DOMAIN m_next' = Objects
        /\ \A x \in Objects \ {s[i]} : (i > 1 /\ x = s[i - 1]) \/ m_next'[x] = m_next[x]
        /\ (i > 1 => m_next'[s[i - 1]] = m_next[s[i]])
    BY <1>2, <2>1
  <2> HIDE DEF v
  <2>6. /\ Put(order, l, v, order') /\ Put(m_head, l, IF i = 1 THEN m_next[s[i]] ELSE m_head[l], m_head')
        /\ Put(m_tail, l, IF i # Len(s) THEN m_tail[l] ELSE IF i = 1 THEN Null ELSE s[i - 1], m_tail')
        /\ Put(m_count, l, Len(s) - 1, m_count')
    BY <1>1, <1>2, <2>1, <2>3, PutIs DEF v
  <2>7. alive' \subseteq alive /\ alive \ {s[i]} \subseteq alive'
    BY <2>1
  <2> HIDE DEF i, l
  <2>8. QED BY <1>1, <1>3, <2>2, <2>4, <2>5, <2>6, <2>7, OneRemoved
<1>5. CASE m_head[Pool] = Null
  <2>1. PICK n \in Objects \ alive : alive' = alive \cup {n}
    BY <1>5 DEF alloc
  <2>2. m_next' = m_next /\ m_head' = m_head /\ m_tail' = m_tail /\ m_count' = m_count /\ order' = order
    BY <1>5 DEF alloc
  <2>3. ASSUME NEW k \in Lists, NEW x \in ToSet(order[k]) PROVE m_next[x] = m_next[x] /\ x \in alive'
    <3>1. x \in alive
      BY <1>3, ListHas
    <3>2. QED BY <2>1, <3>1
  <2>4. alive' \subseteq Objects
    BY <1>2, <2>1
  <2>5. Kept(order, m_head, m_tail, m_count, m_next, alive')
    BY <1>2, <1>3, <2>3, <2>4, NoneChanges
  <2>6. QED BY <2>2, <2>5
<1>6. QED BY <1>4, <1>5

(* The objects of k go to the head of l.                                   *)
LEMMA PrependListStep ==
  ASSUME ListsKept, NEW l \in Lists, NEW k \in Lists, prepend_list(l, k)
  PROVE  Kept(order', m_head', m_tail', m_count', m_next', alive')
<1> DEFINE s == order[l]
           r == order[k]
           v == r \o s
<1>1. /\ DOMAIN order = Lists /\ DOMAIN m_head = Lists /\ DOMAIN m_tail = Lists /\ DOMAIN m_count = Lists
      /\ DOMAIN m_next = Objects /\ m_count[l] = Len(s) /\ m_count[k] = Len(r)
      /\ Len(s) \in Nat /\ Len(r) \in Nat
      /\ Chain(s, m_head[l], m_tail[l], m_next) /\ Chain(r, m_head[k], m_tail[k], m_next)
      /\ (Len(s) = 0 => m_tail[l] = Null /\ s = <<>>)
      /\ (Len(s) # 0 => m_tail[l] = s[Len(s)] /\ s # <<>>)
      /\ (Len(r) # 0 => m_tail[k] = r[Len(r)] /\ r # <<>>)
      /\ r \in Seq(Objects) /\ s \in Seq(Objects)
      /\ \A i \in 1 .. Len(s) : s[i] # Null
  BY BeforeStep
<1>2. /\ l # k /\ Len(r) # 0 /\ r # <<>>
      /\ m_next' = [m_next EXCEPT ![m_tail[k]] = m_head[l]]
      /\ m_head' = [m_head EXCEPT ![k] = Null, ![l] = m_head[k]]
      /\ m_tail' = [m_tail EXCEPT ![k] = Null, ![l] = IF m_tail[l] = Null THEN m_tail[k] ELSE m_tail[l]]
      /\ m_count' = [m_count EXCEPT ![k] = 0, ![l] = Len(s) + Len(r)]
      /\ order' = [order EXCEPT ![k] = <<>>, ![l] = v]
      /\ alive' = alive
  BY <1>1 DEF prepend_list
<1>3. Kept(order, m_head, m_tail, m_count, m_next, alive)
  BY DEF ListsKept
<1>4. ToSet(r) \cap ToSet(s) = {}
  <2>1. \A m \in Lists \ {l} : \A x \in ToSet(order[m]) : x \notin ToSet(s)
    BY <1>3, ListHas
  <2>2. QED BY <1>2, <2>1
<1>5. m_tail[k] \in ToSet(r) /\ m_tail[k] \in Objects
  <2>1. Len(r) \in 1 .. Len(r)
    BY <1>1, <1>2
  <2>2. QED BY <1>1, <1>2, <2>1, ElementsAre
<1>6. m_tail[l] = Null <=> s = <<>>
  <2>1. Len(s) # 0 => Len(s) \in 1 .. Len(s)
    BY <1>1
  <2>2. QED BY <1>1, <2>1
<1> HIDE DEF v
<1>7. /\ DOMAIN m_next' = Objects /\ m_next'[m_tail[k]] = m_head[l]
      /\ \A x \in Objects : x = m_tail[k] \/ m_next'[x] = m_next[x]
  BY <1>1, <1>2, <1>5
<1>8. /\ Chain(v, m_head[k], IF s = <<>> THEN m_tail[k] ELSE m_tail[l], m_next')
      /\ ToSet(v) = ToSet(r) \cup ToSet(s) /\ Len(v) = Len(r) + Len(s)
  <2>1. \A x \in ToSet(r) \cup ToSet(s) : x \in Objects
    BY <1>1, ElementsAre
  <2>2. \A x \in ToSet(r) \cup ToSet(s) : (r # <<>> /\ x = m_tail[k]) \/ m_next'[x] = m_next[x]
    BY <1>2, <1>7, <2>1
  <2> HIDE DEF r, s
  <2>3. /\ Chain(r \o s, IF r = <<>> THEN m_head[l] ELSE m_head[k], IF s = <<>> THEN m_tail[k] ELSE m_tail[l], m_next')
        /\ ToSet(r \o s) = ToSet(r) \cup ToSet(s) /\ Len(r \o s) = Len(r) + Len(s)
    BY <1>1, <1>4, <1>7, <2>2, ChainConcat
  <2>4. QED BY <1>2, <2>3 DEF v
<1>9. /\ PutBoth(order, k, <<>>, l, v, order') /\ PutBoth(m_head, k, Null, l, m_head[k], m_head')
      /\ PutBoth(m_tail, k, Null, l, IF s = <<>> THEN m_tail[k] ELSE m_tail[l], m_tail')
      /\ PutBoth(m_count, k, 0, l, Len(v), m_count')
  BY <1>1, <1>2, <1>6, <1>8 DEF PutBoth
<1>10. ToSet(v) = ToSet(order[l]) \cup ToSet(order[k]) /\ \A x \in Objects : x \in ToSet(v) \/ m_next'[x] = m_next[x]
  BY <1>5, <1>7, <1>8
<1>11. k \in Lists \ {l} /\ Chain(v, m_head[k], IF s = <<>> THEN m_tail[k] ELSE m_tail[l], m_next')
       /\ DOMAIN m_next' = Objects
  BY <1>2, <1>7, <1>8
<1>12. Kept(order', m_head', m_tail', m_count', m_next', alive)
  BY <1>3, <1>9, <1>10, <1>11, TwoChange
<1>13. QED BY <1>2, <1>12

(* And to the tail.                                                        *)
LEMMA AppendListStep ==
  ASSUME ListsKept, NEW l \in Lists, NEW k \in Lists, append_list(l, k)
  PROVE  Kept(order', m_head', m_tail', m_count', m_next', alive')
<1> DEFINE s == order[l]
           r == order[k]
           v == s \o r
<1>1. /\ DOMAIN order = Lists /\ DOMAIN m_head = Lists /\ DOMAIN m_tail = Lists /\ DOMAIN m_count = Lists
      /\ DOMAIN m_next = Objects /\ m_count[l] = Len(s) /\ m_count[k] = Len(r)
      /\ Len(s) \in Nat /\ Len(r) \in Nat
      /\ Chain(s, m_head[l], m_tail[l], m_next) /\ Chain(r, m_head[k], m_tail[k], m_next)
      /\ (Len(s) = 0 => m_tail[l] = Null /\ s = <<>>)
      /\ (Len(s) # 0 => m_tail[l] = s[Len(s)] /\ s # <<>>)
      /\ (Len(r) # 0 => r # <<>>)
      /\ r \in Seq(Objects) /\ s \in Seq(Objects)
      /\ \A i \in 1 .. Len(s) : s[i] # Null
  BY BeforeStep
<1>2. /\ l # k /\ Len(r) # 0 /\ r # <<>>
      /\ m_next' = (IF m_tail[l] # Null THEN [m_next EXCEPT ![m_tail[l]] = m_head[k]] ELSE m_next)
      /\ m_head' = [m_head EXCEPT ![k] = Null, ![l] = IF m_tail[l] # Null THEN m_head[l] ELSE m_head[k]]
      /\ m_tail' = [m_tail EXCEPT ![k] = Null, ![l] = m_tail[k]]
      /\ m_count' = [m_count EXCEPT ![k] = 0, ![l] = Len(s) + Len(r)]
      /\ order' = [order EXCEPT ![k] = <<>>, ![l] = v]
      /\ alive' = alive
  BY <1>1 DEF append_list
<1>3. Kept(order, m_head, m_tail, m_count, m_next, alive)
  BY DEF ListsKept
<1>4. ToSet(s) \cap ToSet(r) = {}
  <2>1. \A m \in Lists \ {l} : \A x \in ToSet(order[m]) : x \notin ToSet(s)
    BY <1>3, ListHas
  <2>2. QED BY <1>2, <2>1
<1>5. /\ m_tail[l] = Null <=> s = <<>>
      /\ s # <<>> => m_tail[l] \in ToSet(s) /\ m_tail[l] \in Objects
  <2>1. Len(s) # 0 => Len(s) \in 1 .. Len(s)
    BY <1>1
  <2>2. QED BY <1>1, <2>1, ElementsAre
<1> HIDE DEF v
<1>6. /\ DOMAIN m_next' = Objects /\ (s # <<>> => m_next'[m_tail[l]] = m_head[k])
      /\ \A x \in Objects : (s # <<>> /\ x = m_tail[l]) \/ m_next'[x] = m_next[x]
  BY <1>1, <1>2, <1>5
<1>7. /\ Chain(v, IF s = <<>> THEN m_head[k] ELSE m_head[l], m_tail[k], m_next')
      /\ ToSet(v) = ToSet(s) \cup ToSet(r) /\ Len(v) = Len(s) + Len(r)
  <2>1. \A x \in ToSet(s) \cup ToSet(r) : x \in Objects
    BY <1>1, ElementsAre
  <2>2. \A x \in ToSet(s) \cup ToSet(r) : (s # <<>> /\ x = m_tail[l]) \/ m_next'[x] = m_next[x]
    BY <1>6, <2>1
  <2> HIDE DEF r, s
  <2>3. /\ Chain(s \o r, IF s = <<>> THEN m_head[k] ELSE m_head[l], IF r = <<>> THEN m_tail[l] ELSE m_tail[k], m_next')
        /\ ToSet(s \o r) = ToSet(s) \cup ToSet(r) /\ Len(s \o r) = Len(s) + Len(r)
    BY <1>1, <1>4, <1>6, <2>2, ChainConcat
  <2>4. QED BY <1>2, <2>3 DEF v
<1>8. /\ PutBoth(order, k, <<>>, l, v, order')
      /\ PutBoth(m_head, k, Null, l, IF s = <<>> THEN m_head[k] ELSE m_head[l], m_head')
      /\ PutBoth(m_tail, k, Null, l, m_tail[k], m_tail')
      /\ PutBoth(m_count, k, 0, l, Len(v), m_count')
  BY <1>1, <1>2, <1>5, <1>7 DEF PutBoth
<1>9. ToSet(v) = ToSet(order[l]) \cup ToSet(order[k]) /\ \A x \in Objects : x \in ToSet(v) \/ m_next'[x] = m_next[x]
  BY <1>5, <1>6, <1>7
<1>10. k \in Lists \ {l} /\ Chain(v, IF s = <<>> THEN m_head[k] ELSE m_head[l], m_tail[k], m_next')
       /\ DOMAIN m_next' = Objects
  BY <1>2, <1>6, <1>7
<1>11. Kept(order', m_head', m_tail', m_count', m_next', alive)
  BY <1>3, <1>8, <1>9, <1>10, TwoChange
<1>12. QED BY <1>2, <1>11

(* Every operation keeps the lists.                                        *)
LEMMA ListSteps ==
  ASSUME ListsKept, [ListNext]_listVars
  PROVE  Kept(order', m_head', m_tail', m_count', m_next', alive')
<1>1. CASE alloc
  BY <1>1, AllocStep
<1>2. CASE \E o \in Objects : reclaim(o)
  BY <1>2, AppendStep, SimpleListAssumption DEF reclaim
<1>3. ASSUME NEW l \in Lists, reset(l) \/ reclaim_all(l)
      PROVE  Kept(order', m_head', m_tail', m_count', m_next', alive')
  BY <1>3, ResetStep, AppendListStep, SimpleListAssumption DEF reclaim_all
<1>4. ASSUME NEW l \in Lists, NEW k \in Lists, prepend_list(l, k) \/ append_list(l, k)
      PROVE  Kept(order', m_head', m_tail', m_count', m_next', alive')
  BY <1>4, PrependListStep, AppendListStep
<1>5. ASSUME NEW l \in Lists, NEW o \in Objects, prepend(l, o) \/ append(l, o) \/ detach(l, o) \/ remove(l, o)
      PROVE  Kept(order', m_head', m_tail', m_count', m_next', alive')
  <2>1. CASE detach(l, o)
    BY <2>1, DetachStep DEF detach
  <2>2. QED BY <1>5, <2>1, PrependStep, AppendStep, RemoveStep
<1>6. ASSUME NEW l \in Lists, NEW o \in Objects, NEW p \in Objects,
             insert_after(l, o, p) \/ insert_before(l, o, p) \/ replace_and_remove(l, o, p)
      PROVE  Kept(order', m_head', m_tail', m_count', m_next', alive')
  BY <1>6, InsertAfterStep, InsertBeforeStep, ReplaceStep
<1>7. CASE UNCHANGED listVars
  <2>1. order' = order /\ m_head' = m_head /\ m_tail' = m_tail /\ m_count' = m_count /\ m_next' = m_next /\ alive' = alive
    BY <1>7 DEF listVars
  <2>2. QED BY <2>1 DEF ListsKept
<1>8. QED BY <1>1, <1>2, <1>3, <1>4, <1>5, <1>6, <1>7 DEF ListNext

(* What is promised of such lists.                                         *)
LEMMA KeptIsOrder == ListsKept => ListsKeepOrder
<1> SUFFICES ASSUME ListsKept, NEW l \in Lists
             PROVE  /\ Walk(l) = order[l] /\ m_count[l] = Len(order[l])
                    /\ m_tail[l] = IF order[l] = <<>> THEN Null ELSE Last(order[l])
                    /\ order[l] # <<>> => m_next[m_tail[l]] = Null
                    /\ ToSet(order[l]) \subseteq alive
                    /\ \A k \in Lists \ {l} : ToSet(order[l]) \cap ToSet(order[k]) = {}
                    /\ \A o \in ToSet(order[l]) : find(l, indexof(l, o)) = o
  BY DEF ListsKeepOrder
<1>1. OneKept(order, m_head, m_tail, m_count, m_next, alive, l)
  BY DEF ListsKept, Kept
<1>2. /\ Chain(order[l], m_head[l], m_tail[l], m_next) /\ m_count[l] = Len(order[l]) /\ ToSet(order[l]) \subseteq alive
      /\ \A k \in Lists \ {l} : ToSet(order[l]) \cap ToSet(order[k]) = {}
  BY <1>1 DEF OneKept
<1>3. Walk(l) = order[l]
  BY <1>2, WalkIs
<1>4. /\ m_tail[l] = IF order[l] = <<>> THEN Null ELSE Last(order[l])
      /\ order[l] # <<>> => m_next[m_tail[l]] = Null
  BY <1>2 DEF Chain, Last
<1>5. ASSUME NEW o \in ToSet(order[l]) PROVE find(l, indexof(l, o)) = o
  <2>1. PICK i \in 1 .. Len(order[l]) : order[l][i] = o
    BY BeforeStep
  <2>2. indexof(l, order[l][i]) = i - 1 /\ find(l, i - 1) = order[l][i]
    BY <1>2, PlacesAre
  <2>3. QED BY <2>1, <2>2
<1>6. QED BY <1>2, <1>3, <1>4, <1>5

(* Whatever the operations of simple_list and fixed_allocator and their    *)
(* order, a walk along m_next from the head of a list meets its objects in *)
(* the order asked for, and the tail and the count are theirs; no object   *)
(* is in two lists, and none in a list was freed.                          *)
THEOREM ListsHold == ListSpec => []ListsKeepOrder
<1>1. ListInit => ListsKept
  <2>1. SUFFICES ASSUME ListInit PROVE ListsKept
    OBVIOUS
  <2>2. /\ DOMAIN order = Lists /\ DOMAIN m_head = Lists /\ DOMAIN m_tail = Lists /\ DOMAIN m_count = Lists
        /\ DOMAIN m_next = Objects /\ alive \subseteq Objects
        /\ \A l \in Lists : order[l] = <<>> /\ m_head[l] = Null /\ m_tail[l] = Null /\ m_count[l] = 0
    BY <2>1 DEF ListInit
  <2>3. ASSUME NEW l \in Lists PROVE OneKept(order, m_head, m_tail, m_count, m_next, alive, l)
    <3>1. Chain(<<>>, Null, Null, m_next) /\ ToSet(<<>>) = {} /\ Len(<<>>) = 0
      BY EmptyIs
    <3>2. QED BY <2>2, <3>1 DEF OneKept
  <2>4. QED BY <2>2, <2>3 DEF ListsKept, Kept
<1>2. ListsKept /\ [ListNext]_listVars => ListsKept'
  <2>1. ListsKept /\ [ListNext]_listVars => Kept(order', m_head', m_tail', m_count', m_next', alive')
    BY ListSteps
  <2>2. Kept(order', m_head', m_tail', m_count', m_next', alive') => ListsKept'
    BY DEF ListsKept
  <2>3. QED BY <2>1, <2>2
<1>3. ListsKept => ListsKeepOrder
  BY KeptIsOrder
<1>4. QED BY <1>1, <1>2, <1>3, PTL DEF ListSpec

---------------------------------------------------------------------------------
(* Times.  The numbers they are made of.                                   *)
LEMMA TimeNumbers ==
  /\ Root \in Nat /\ Root > 1 /\ MaxSeconds \in Nat /\ Root <= MaxSeconds
  /\ Span \in Nat /\ 4 * MaxSeconds <= Span /\ Root < Span
  /\ PerSecond = Root * Root /\ PerSecond \in Nat /\ PerSecond > Root
  /\ Depth \in Nat /\ Depth <= MaxSeconds
<1>1. /\ Root \in Nat /\ Root > 1 /\ MaxSeconds \in Nat /\ Root <= MaxSeconds
      /\ Span \in Nat /\ 4 * MaxSeconds <= Span /\ Root < Span
      /\ Depth \in Nat /\ Depth <= MaxSeconds
  BY AttotimeAssumption, OperandsAssumption
<1>2. Root * Root \in Nat /\ Root * Root > Root
  BY <1>1
<1>3. QED BY <1>1, <1>2 DEF PerSecond

(* Products grow with their factors.                                       *)
LEMMA Monotonic ==
  ASSUME NEW a \in Int, NEW b \in Int, NEW c \in Nat, a <= b
  PROVE  a * c <= b * c
<1>1. (b - a) * c >= 0
  OBVIOUS
<1>2. QED BY <1>1

(* A quotient and a rest, of any number.                                   *)
LEMMA QuotientRest ==
  ASSUME NEW q \in Int, NEW m \in Nat, NEW r \in 0 .. (m - 1)
  PROVE  (q * m + r) \div m = q /\ (q * m + r) % m = r
OBVIOUS

(* What a nonnegative number leaves when it is cut to a word it fits.      *)
LEMMA Fitting ==
  ASSUME NEW x \in Nat, NEW m \in Nat, x < m
  PROVE  x % m = x
<1>1. m # 0 /\ x \in 0 .. (m - 1) /\ x = 0 * m + x
  OBVIOUS
<1>2. QED BY <1>1, QuotientRest

(* A time that operations can come to.                                     *)
Reached(t) ==
  /\ t = Time(t.seconds, t.attoseconds)
  /\ t.seconds \in Int /\ t.seconds >= -(Depth + MaxSeconds + 1) /\ t.seconds <= MaxSeconds
  /\ t.attoseconds \in 0 .. (PerSecond - 1)
  /\ IsNever(t) => t = never

(* The parts of a time.                                                    *)
LEMMA TimeIs ==
  ASSUME NEW s, NEW a
  PROVE  Time(s, a).seconds = s /\ Time(s, a).attoseconds = a
BY DEF Time

(* never is a time of the most seconds.                                    *)
LEMMA NeverIs == never.seconds = MaxSeconds /\ never.attoseconds = 0 /\ IsNever(never) /\ Reached(never)
<1>1. never = Time(MaxSeconds, 0) /\ never.seconds = MaxSeconds /\ never.attoseconds = 0
  BY TimeIs DEF never
<1>2. QED BY <1>1, TimeNumbers DEF IsNever, Reached

(* A number of attoseconds as a time.                                      *)
LEMMA ClampIs ==
  ASSUME NEW q \in Int, NEW r \in 0 .. (PerSecond - 1), NEW v, v = q * PerSecond + r
  PROVE  Clamp(v) = IF q >= MaxSeconds THEN never ELSE Time(q, r)
<1> DEFINE P == PerSecond
<1>1. P \in Nat /\ P # 0 /\ P > 0 /\ MaxSeconds \in Nat /\ r \in 0 .. (P - 1) /\ v = q * P + r
  BY TimeNumbers
<1> HIDE DEF P
<1>2. v \div P = q /\ v % P = r
  BY <1>1, QuotientRest
<1>3. ASSUME q >= MaxSeconds PROVE v >= MaxSeconds * P
  <2>1. MaxSeconds * P <= q * P
    BY <1>1, <1>3, Monotonic
  <2>2. QED BY <1>1, <2>1
<1>4. ASSUME q < MaxSeconds PROVE ~ (v >= MaxSeconds * P)
  <2>1. (q + 1) * P <= MaxSeconds * P
    BY <1>1, <1>4, Monotonic
  <2>2. (q + 1) * P = q * P + P
    BY <1>1
  <2>3. QED BY <1>1, <2>1, <2>2
<1>5. Clamp(v) = IF v >= MaxSeconds * P THEN never ELSE Time(v \div P, v % P)
  BY DEF Clamp, P
<1>6. QED BY <1>1, <1>2, <1>3, <1>4, <1>5

(* An operand is a time of no less than zero.                              *)
LEMMA OperandIs ==
  ASSUME NEW r \in Operands
  PROVE  /\ r = Time(r.seconds, r.attoseconds) /\ r.seconds \in 0 .. MaxSeconds
         /\ r.attoseconds \in 0 .. (PerSecond - 1)
<1>1. r \in [seconds : 0 .. MaxSeconds, attoseconds : 0 .. (PerSecond - 1)]
  BY OperandsAssumption
<1>2. QED BY <1>1 DEF Time

(* Sums are exact.                                                         *)
LEMMA SumIs ==
  ASSUME NEW t, Reached(t), NEW r \in Operands
  PROVE  /\ Reached(Plus(t, r))
         /\ IsNever(t) \/ IsNever(r) => Plus(t, r) = never
         /\ ~IsNever(t) /\ ~IsNever(r) => Plus(t, r) = Clamp(Value(t) + Value(r))
<1> DEFINE P     == PerSecond
           a     == t.attoseconds + r.attoseconds
           carry == IF a >= P THEN 1 ELSE 0
           s     == t.seconds + r.seconds + carry
           b     == a - carry * P
           v     == Value(t) + Value(r)
<1>1. /\ P \in Nat /\ MaxSeconds \in Nat /\ Depth \in Nat /\ r.seconds \in 0 .. MaxSeconds /\ r.attoseconds \in 0 .. (P - 1)
      /\ t.seconds \in Int /\ t.seconds >= -(Depth + MaxSeconds + 1) /\ t.attoseconds \in 0 .. (P - 1)
  BY TimeNumbers, OperandIs DEF Reached
<1>2. Plus(t, r) = IF IsNever(t) \/ IsNever(r) \/ s >= MaxSeconds THEN never ELSE Time(s, b)
  BY DEF Plus
<1>3. v = (t.seconds * P + t.attoseconds) + (r.seconds * P + r.attoseconds)
  BY DEF Value
<1> HIDE DEF P, v
<1>4. carry \in Int /\ s \in Int /\ b \in 0 .. (P - 1) /\ s >= -(Depth + MaxSeconds + 1)
  BY <1>1
<1>5. v = s * P + b
  <2>1. CASE a >= P
    BY <1>1, <1>3, <2>1
  <2>2. CASE ~ (a >= P)
    BY <1>1, <1>3, <2>2
  <2>3. QED BY <2>1, <2>2
<1> HIDE DEF s, b, carry, a
<1>6. Clamp(v) = IF s >= MaxSeconds THEN never ELSE Time(s, b)
  BY <1>4, <1>5, ClampIs DEF P
<1>7. ~ (s >= MaxSeconds) => Reached(Time(s, b))
  BY <1>1, <1>4, TimeIs DEF Reached, IsNever, P
<1>8. Reached(never)
  BY NeverIs
<1>9. QED BY <1>2, <1>6, <1>7, <1>8 DEF v

(* Differences come back.                                                  *)
LEMMA DifferenceIs ==
  ASSUME NEW t, Reached(t), NEW r \in Operands
  PROVE  /\ t.seconds > -Depth => Reached(Minus(t, r))
         /\ ~IsNever(t) /\ ~IsNever(r) => Plus(Minus(t, r), r) = t
<1> DEFINE P      == PerSecond
           a      == t.attoseconds - r.attoseconds
           borrow == IF a < 0 THEN 1 ELSE 0
           s      == t.seconds - r.seconds - borrow
           b      == a + borrow * P
           m      == Time(s, b)
<1>1. /\ P \in Nat /\ MaxSeconds \in Nat /\ Depth \in Nat /\ r.seconds \in 0 .. MaxSeconds /\ r.attoseconds \in 0 .. (P - 1)
      /\ t.seconds \in Int /\ t.attoseconds \in 0 .. (P - 1)
      /\ t = Time(t.seconds, t.attoseconds) /\ (IsNever(t) <=> t.seconds >= MaxSeconds)
      /\ (IsNever(r) <=> r.seconds >= MaxSeconds)
  BY TimeNumbers, OperandIs DEF Reached, IsNever
<1>2. Minus(t, r) = IF IsNever(t) THEN never ELSE m
  BY DEF Minus
<1>3. m.seconds = s /\ m.attoseconds = b
  BY TimeIs
<1>4. Plus(m, r) = (LET d == b + r.attoseconds
                        c == IF d >= P THEN 1 ELSE 0
                        e == s + r.seconds + c
                    IN  IF IsNever(m) \/ IsNever(r) \/ e >= MaxSeconds THEN never ELSE Time(e, d - c * P))
  BY <1>3 DEF Plus
<1>5. IsNever(m) <=> s >= MaxSeconds
  BY <1>3 DEF IsNever
<1> HIDE DEF P, m
<1>6. b \in 0 .. (P - 1) /\ s \in Int /\ s <= t.seconds /\ s >= t.seconds - MaxSeconds - 1
  BY <1>1
<1>7. t.seconds > -Depth => Reached(Minus(t, r))
  <2>1. ~IsNever(t) /\ t.seconds > -Depth => Reached(m)
    <3> HIDE DEF s, b
    <3>1. QED BY <1>1, <1>3, <1>5, <1>6 DEF Reached, P, m
  <2>2. QED BY <1>2, <2>1, NeverIs
<1>8. ~IsNever(t) /\ ~IsNever(r) => Plus(Minus(t, r), r) = t
  <2>1. SUFFICES ASSUME t.seconds < MaxSeconds, r.seconds < MaxSeconds PROVE Plus(m, r) = t
    BY <1>1, <1>2
  <2>2. CASE a < 0
    <3>1. b + r.attoseconds = t.attoseconds + P /\ b + r.attoseconds >= P
          /\ s + r.seconds + 1 = t.seconds /\ (b + r.attoseconds) - 1 * P = t.attoseconds
      BY <1>1, <2>2
    <3> HIDE DEF s, b
    <3>2. QED BY <1>1, <1>4, <1>5, <1>6, <2>1, <3>1
  <2>3. CASE ~ (a < 0)
    <3>1. b + r.attoseconds = t.attoseconds /\ ~ (b + r.attoseconds >= P)
          /\ s + r.seconds + 0 = t.seconds /\ (b + r.attoseconds) - 0 * P = t.attoseconds
      BY <1>1, <2>3
    <3> HIDE DEF s, b
    <3>2. QED BY <1>1, <1>4, <1>5, <1>6, <2>1, <3>1
  <2>4. QED BY <2>2, <2>3
<1>9. QED BY <1>7, <1>8

(* The halves of the attoseconds.                                          *)
LEMMA HalvesAre ==
  ASSUME NEW a \in 0 .. (PerSecond - 1)
  PROVE  /\ a \div Root \in 0 .. (Root - 1) /\ a % Root \in 0 .. (Root - 1)
         /\ a = (a \div Root) * Root + (a % Root)
<1>1. Root \in Nat /\ Root > 1 /\ a \in Nat /\ a < Root * Root
  BY TimeNumbers
<1> DEFINE h == a \div Root
           l == a % Root
<1>2. h \in Nat /\ l \in 0 .. (Root - 1) /\ a = h * Root + l
  <2>1. a \in Nat /\ Root \in Nat /\ Root # 0
    BY <1>1
  <2>2. QED BY <2>1, Division
<1> HIDE DEF h, l
<1>3. h >= Root => Root * Root <= h * Root
  BY <1>1, <1>2, Monotonic
<1>4. h < Root
  BY <1>1, <1>2, <1>3
<1>5. QED BY <1>1, <1>2, <1>4 DEF h, l

(* A quotient is no larger than what it was a product with.                *)
LEMMA QuotientAtMost ==
  ASSUME NEW x \in Nat, NEW m \in Nat, m # 0, NEW f \in Nat, x <= f * m
  PROVE  x \div m \in 0 .. f /\ x % m \in 0 .. (m - 1) /\ x = (x \div m) * m + (x % m)
<1> DEFINE q == x \div m
           r == x % m
<1>1. q \in Nat /\ r \in 0 .. (m - 1) /\ x = q * m + r
  BY Division
<1> HIDE DEF q, r
<1>2. q >= f + 1 => (f + 1) * m <= q * m
  BY <1>1, Monotonic
<1>3. (f + 1) * m = f * m + m
  OBVIOUS
<1>4. ~ (q >= f + 1)
  BY <1>1, <1>2, <1>3
<1>5. QED BY <1>1, <1>4 DEF q, r

(* No product or sum on the way is cut.                                    *)
LEMMA ProductFits ==
  ASSUME NEW x \in 0 .. (Root - 1), NEW f \in 0 .. (Span - 1), NEW c \in 0 .. f
  PROVE  /\ c + x * f \in Nat /\ c + x * f <= f * Root /\ c + x * f < Span * Span
         /\ x * f \in Nat /\ x * f <= f * Root /\ x * f < Span * Span
<1>1. Root \in Nat /\ Span \in Nat /\ Root < Span /\ Root > 1
  BY TimeNumbers
<1>2. x * f <= (Root - 1) * f /\ (Root - 1) * f = f * Root - f
  BY <1>1, Monotonic
<1>3. x * f \in Nat
  BY <1>1
<1>4. f * Root <= Span * Root /\ Span * Root = Root * Span /\ Root * Span <= Span * Span
  <2>1. f * Root <= Span * Root
    BY <1>1, Monotonic
  <2>2. Root * Span <= Span * Span
    BY <1>1, Monotonic
  <2>3. QED BY <1>1, <2>1, <2>2
<1>5. f * Root < Span * Span
  <2>1. (Span - 1) * Root = Span * Root - Root /\ f * Root <= (Span - 1) * Root
    BY <1>1, Monotonic
  <2>2. QED BY <1>1, <1>4, <2>1
<1> DEFINE y == x * f
           z == f * Root
<1>6. y \in Nat /\ z \in Int /\ y <= z - f /\ z < Span * Span /\ Span * Span \in Nat
  BY <1>1, <1>2, <1>3, <1>5
<1> HIDE DEF y, z
<1>7. c + y \in Nat /\ c + y <= z /\ c + y < Span * Span /\ y <= z /\ y < Span * Span
  BY <1>1, <1>6
<1>8. QED BY <1>6, <1>7 DEF y, z

(* A product, as the code makes it of the halves: q seconds come out of    *)
(* the attoseconds.                                                        *)
MadeOf(t, f, q, r) ==
  /\ q \in 0 .. f /\ r \in 0 .. (PerSecond - 1) /\ t.attoseconds * f = q * PerSecond + r
  /\ Multiply(t, f) = IF f > 0 /\ q + U32(t.seconds) * f >= MaxSeconds THEN never
                      ELSE IF f = 0 THEN zero ELSE Time(q + U32(t.seconds) * f, r)

(* operator*=: no product on the way is cut, and the halves make it        *)
(* exactly.                                                                *)
LEMMA ProductIs ==
  ASSUME NEW t, t.attoseconds \in 0 .. (PerSecond - 1), t.seconds \in Int, ~IsNever(t),
         NEW f \in 0 .. (Span - 1)
  PROVE  \E q, r : MadeOf(t, f, q, r)
<1> DEFINE R == Root
           a == t.attoseconds
           h == a \div R
           l == a % R
           x == l * f
           k == x \div R
           y == k + h * f
           q == y \div R
           r == (x % R) + (y % R) * R
           u == U32(t.seconds)
           z == q + u * f
<1>1. R \in Nat /\ R > 1 /\ Span \in Nat /\ R < Span /\ PerSecond = R * R
  BY TimeNumbers
<1>2. h \in 0 .. (R - 1) /\ l \in 0 .. (R - 1) /\ a = h * R + l
  BY HalvesAre
<1>3. x \in Nat /\ x <= f * R /\ x < Span * Span
  <2>1. 0 \in 0 .. f /\ l \in 0 .. (Root - 1)
    BY <1>2
  <2> HIDE DEF l
  <2>2. l * f \in Nat /\ l * f <= f * Root /\ l * f < Span * Span
    BY <2>1, ProductFits
  <2>3. QED BY <2>2
<1>4. k \in 0 .. f /\ x % R \in 0 .. (R - 1) /\ x = k * R + (x % R)
  <2>1. x \in Nat /\ x <= f * R /\ R \in Nat /\ R # 0 /\ f \in Nat
    BY <1>1, <1>3
  <2> HIDE DEF x, R
  <2>2. QED BY <2>1, QuotientAtMost
<1>5. y \in Nat /\ y <= f * R /\ y < Span * Span
  <2> HIDE DEF k, h
  <2>1. k + h * f \in Nat /\ k + h * f <= f * Root /\ k + h * f < Span * Span
    BY <1>2, <1>4, ProductFits
  <2>2. QED BY <2>1
<1>6. q \in 0 .. f /\ y % R \in 0 .. (R - 1) /\ y = q * R + (y % R)
  <2>1. y \in Nat /\ y <= f * R /\ R \in Nat /\ R # 0 /\ f \in Nat
    BY <1>1, <1>5
  <2> HIDE DEF y, R
  <2>2. QED BY <2>1, QuotientAtMost
<1>7. u \in 0 .. (Span - 1)
  BY <1>1 DEF U32
<1>8. z \in Nat /\ z < Span * Span
  <2> HIDE DEF q, u
  <2>1. u * f <= (Span - 1) * f /\ (Span - 1) * f <= (Span - 1) * (Span - 1)
    <3>1. u * f <= (Span - 1) * f
      BY <1>1, <1>7, Monotonic
    <3>2. f * (Span - 1) <= (Span - 1) * (Span - 1)
      BY <1>1, Monotonic
    <3>3. QED BY <1>1, <3>1, <3>2
  <2>2. (Span - 1) * (Span - 1) = Span * Span - 2 * Span + 1 /\ u * f \in Nat
    BY <1>1, <1>7
  <2>3. QED BY <1>1, <1>6, <2>1, <2>2
<1>9. U64(x) = x /\ U64(y) = y /\ U64(z) = z
  <2>1. Span * Span \in Nat
    BY <1>1
  <2> HIDE DEF x, y, z
  <2>2. QED BY <1>3, <1>5, <1>8, <2>1, Fitting DEF U64
<1>10. Multiply(t, f) = IF f > 0 /\ z >= MaxSeconds THEN never ELSE IF f = 0 THEN zero ELSE Time(z, r)
  <2>1. Multiply(t, f) =
          (LET low  == U64((t.attoseconds % Root) * f)
               high == U64(low \div Root + (t.attoseconds \div Root) * f)
               secs == U64(high \div Root + U32(t.seconds) * f)
           IN  IF (f > 0 /\ secs >= MaxSeconds) THEN never
               ELSE IF f = 0 THEN zero
               ELSE Time(secs, (low % Root) + (high % Root) * Root))
    BY DEF Multiply
  <2>2. QED BY <1>9, <2>1
<1>11. r \in 0 .. (PerSecond - 1) /\ a * f = q * PerSecond + r
  <2> DEFINE c == x % R
             d == y % R
  <2>1. c \in 0 .. (R - 1) /\ d \in 0 .. (R - 1) /\ x = k * R + c /\ k + h * f = q * R + d
    BY <1>4, <1>6
  <2>2. x = l * f
    OBVIOUS
  <2> HIDE DEF c, d, h, l, k, q, x, y, a
  <2>3. a * f = (k + h * f) * R + c
    <3>1. (h * R + l) * f = h * f * R + l * f
      BY <1>1, <1>2
    <3>2. (k + h * f) * R = k * R + h * f * R
      BY <1>1, <1>2, <1>4
    <3>3. QED BY <1>2, <1>1, <1>4, <2>1, <2>2, <3>1, <3>2
  <2>4. (q * R + d) * R = q * (R * R) + d * R
    BY <1>1, <1>6, <2>1
  <2>5. d * R <= (R - 1) * R /\ (R - 1) * R = R * R - R /\ d * R \in Nat
    BY <1>1, <2>1, Monotonic
  <2>6. c + d * R \in 0 .. (R * R - 1)
    BY <1>1, <2>1, <2>5
  <2>7. a * f = q * (R * R) + (c + d * R)
    BY <1>1, <1>6, <2>1, <2>3, <2>4, <2>5
  <2>8. QED BY <1>1, <2>6, <2>7 DEF c, d
<1> HIDE DEF r, q, a, u
<1>12. MadeOf(t, f, q, r)
  BY <1>6, <1>10, <1>11 DEF MadeOf, u, a
<1>13. QED BY <1>12

(* Products are exact; without a product of the sign, a time below zero    *)
(* has none.                                                               *)
LEMMA ProductsExact ==
  ASSUME NEW t, Reached(t), ~IsNever(t), NEW f \in 0 .. (Span - 1)
  PROVE  /\ Reached(Multiply(t, f))
         /\ Multiply(t, f) = IF t.seconds < 0 /\ f # 0 THEN never ELSE Clamp(Value(t) * f)
<1>1. /\ PerSecond \in Nat /\ PerSecond > 0 /\ MaxSeconds \in Nat /\ Span \in Nat /\ Depth \in Nat
      /\ Depth <= MaxSeconds /\ 4 * MaxSeconds <= Span /\ MaxSeconds > 0
  BY TimeNumbers
<1>2. /\ t.seconds \in Int /\ t.seconds >= -(Depth + MaxSeconds + 1) /\ t.seconds < MaxSeconds
      /\ t.attoseconds \in 0 .. (PerSecond - 1)
  BY <1>1 DEF Reached, IsNever
<1>3. PICK q, r : MadeOf(t, f, q, r)
  BY <1>2, ProductIs
<1>4. /\ q \in 0 .. f /\ r \in 0 .. (PerSecond - 1) /\ t.attoseconds * f = q * PerSecond + r
      /\ Multiply(t, f) = IF f > 0 /\ q + U32(t.seconds) * f >= MaxSeconds THEN never
                          ELSE IF f = 0 THEN zero ELSE Time(q + U32(t.seconds) * f, r)
  BY <1>3 DEF MadeOf
<1>5. CASE f = 0
  <2>1. Multiply(t, f) = Time(0, 0)
    BY <1>4, <1>5 DEF zero
  <2>2. Value(t) * f = 0 * PerSecond + 0 /\ 0 \in 0 .. (PerSecond - 1) /\ 0 \in Int
    <3>1. t.seconds * PerSecond + t.attoseconds \in Int
      BY <1>1, <1>2
    <3>2. QED BY <1>1, <1>5, <3>1 DEF Value
  <2>3. Clamp(Value(t) * f) = Time(0, 0)
    BY <1>1, <2>2, ClampIs
  <2>4. Reached(Time(0, 0))
    BY <1>1, TimeIs DEF Reached, IsNever
  <2>5. QED BY <1>5, <2>1, <2>3, <2>4
<1>6. CASE f # 0 /\ t.seconds < 0
  <2>1. U32(t.seconds) = Span + t.seconds
    <3> DEFINE e == Span + t.seconds
               n == -1
    <3>1. e \in 0 .. (Span - 1) /\ t.seconds = n * Span + e /\ n \in Int /\ Span \in Nat
      BY <1>1, <1>2, <1>6
    <3> HIDE DEF e, n
    <3>2. (n * Span + e) % Span = e
      BY <3>1, QuotientRest
    <3>3. QED BY <3>1, <3>2 DEF U32, e
  <2>2. Span + t.seconds >= MaxSeconds /\ Span + t.seconds \in Nat
    BY <1>1, <1>2
  <2>3. (Span + t.seconds) * 1 <= (Span + t.seconds) * f
    <3>1. 1 * (Span + t.seconds) <= f * (Span + t.seconds)
      BY <1>6, <2>2, Monotonic
    <3>2. QED BY <1>1, <1>2, <3>1
  <2>4. f > 0 /\ q + U32(t.seconds) * f >= MaxSeconds
    BY <1>1, <1>4, <1>6, <2>1, <2>2, <2>3
  <2>5. QED BY <1>4, <1>6, <2>4, NeverIs
<1>7. CASE f # 0 /\ t.seconds >= 0
  <2>1. U32(t.seconds) = t.seconds
    BY <1>1, <1>2, <1>7, Fitting DEF U32
  <2> DEFINE z == q + t.seconds * f
  <2>2. z \in Nat
    BY <1>2, <1>4, <1>7
  <2>3. Value(t) * f = z * PerSecond + r
    <3> DEFINE P == PerSecond
               s == t.seconds
               a == t.attoseconds
    <3>1. P \in Nat /\ s \in Int /\ a \in Int /\ q \in Int /\ r \in Int /\ a * f = q * P + r /\ Value(t) = s * P + a
      BY <1>1, <1>2, <1>4 DEF Value
    <3> HIDE DEF P, s, a
    <3>2. (s * P + a) * f = s * f * P + a * f /\ (q + s * f) * P = q * P + s * f * P
      BY <3>1
    <3>3. (s * P + a) * f = (q + s * f) * P + r
      BY <3>1, <3>2
    <3>4. QED BY <3>1, <3>3 DEF P, s, a
  <2> HIDE DEF z
  <2>4. Clamp(Value(t) * f) = IF z >= MaxSeconds THEN never ELSE Time(z, r)
    BY <1>4, <2>2, <2>3, ClampIs
  <2>5. Multiply(t, f) = IF z >= MaxSeconds THEN never ELSE Time(z, r)
    BY <1>4, <1>7, <2>1 DEF z
  <2>6. ~ (z >= MaxSeconds) => Reached(Time(z, r))
    BY <1>1, <1>4, <2>2, TimeIs DEF Reached, IsNever
  <2>7. QED BY <1>2, <1>7, <2>4, <2>5, <2>6, NeverIs
<1>8. QED BY <1>2, <1>5, <1>6, <1>7

(* A quotient, as the code makes it of the halves: n is the whole          *)
(* attoseconds in it, l what is left of the division.                      *)
LEMMA QuotientsClose ==
  ASSUME NEW t, Reached(t), ~IsNever(t), t.seconds >= 0, NEW f \in 1 .. (Span - 1)
  PROVE  /\ Reached(Divide(t, f))
         /\ Normal(Divide(t, f))
         /\ Value(Divide(t, f)) * f - Value(t) \in -f .. f
<1> DEFINE R  == Root
           P  == PerSecond
           s  == t.seconds
           a  == t.attoseconds
           h  == a \div R
           l  == a % R
           qs == s \div f
           rs == s % f
           x  == h + rs * R
           qh == x \div f
           rh == x % f
           y  == l + rh * R
           ql == y \div f
           rl == y % f
           up == IF rl >= f \div 2 THEN 1 ELSE 0
           b  == ql + qh * R + up
           over == IF up = 1 /\ b >= P THEN 1 ELSE 0
<1>1. /\ R \in Nat /\ R > 1 /\ Span \in Nat /\ R < Span /\ P = R * R /\ P \in Nat /\ P > 0
      /\ MaxSeconds \in Nat /\ Depth \in Nat
  BY TimeNumbers
<1>2. s \in Nat /\ s < MaxSeconds /\ a \in 0 .. (P - 1)
  BY <1>1 DEF Reached, IsNever
<1>3. h \in 0 .. (R - 1) /\ l \in 0 .. (R - 1) /\ a = h * R + l
  BY <1>2, HalvesAre
<1>4. qs \in Nat /\ rs \in 0 .. (f - 1) /\ s = qs * f + rs /\ qs <= s
  <2>1. qs \in Nat /\ rs \in 0 .. (f - 1) /\ s = qs * f + rs
    <3>1. s \in Nat /\ f \in Nat /\ f # 0
      BY <1>2
    <3> HIDE DEF s
    <3>2. QED BY <3>1, Division
  <2> HIDE DEF qs, rs, s
  <2>2. qs * 1 <= qs * f
    <3>1. 1 * qs <= f * qs
      BY <2>1, Monotonic
    <3>2. QED BY <2>1, <3>1
  <2>3. qs * f \in Nat
    BY <2>1
  <2>4. QED BY <2>1, <2>2, <2>3
(* A rest and a half make less than a whole number of halves.              *)
<1>5. ASSUME NEW c \in 0 .. (R - 1), NEW d \in 0 .. (f - 1)
      PROVE  /\ c + d * R \in Nat /\ c + d * R < f * R /\ c + d * R < Span * Span
             /\ (c + d * R) \div f \in 0 .. (R - 1) /\ (c + d * R) % f \in 0 .. (f - 1)
             /\ c + d * R = ((c + d * R) \div f) * f + ((c + d * R) % f)
  <2>1. d * R <= (f - 1) * R /\ (f - 1) * R = f * R - R /\ d * R \in Nat
    BY <1>1, Monotonic
  <2>2. f * R <= Span * Span
    <3>1. f * R <= Span * R
      BY <1>1, Monotonic
    <3>2. R * Span <= Span * Span
      BY <1>1, Monotonic
    <3>3. QED BY <1>1, <3>1, <3>2
  <2> DEFINE e == c + d * R
  <2>3. e \in Nat /\ e < f * R /\ e < Span * Span
    <3> DEFINE g == d * R
               k == f * R
    <3>1. g \in Nat /\ k \in Int /\ g <= k - R /\ k <= Span * Span /\ Span * Span \in Int
      BY <1>1, <2>1, <2>2
    <3> HIDE DEF g, k
    <3>2. c + g \in Nat /\ c + g < k /\ c + g < Span * Span
      BY <1>1, <3>1
    <3>3. QED BY <3>2 DEF g, k
  <2> HIDE DEF e
  <2>4. e <= (R - 1) * f + (f - 1) /\ e \div f \in Nat /\ e % f \in 0 .. (f - 1) /\ e = (e \div f) * f + (e % f)
    <3>1. f \in Nat /\ f # 0 /\ (R - 1) * f = f * R - f
      BY <1>1
    <3>2. e \div f \in Nat /\ e % f \in 0 .. (f - 1) /\ e = (e \div f) * f + (e % f)
      BY <2>3, <3>1, Division
    <3>3. e <= (R - 1) * f + (f - 1)
      BY <1>1, <2>3, <3>1
    <3>4. QED BY <3>2, <3>3
  <2>5. e \div f >= R => R * f <= (e \div f) * f
    BY <1>1, <2>4, Monotonic
  <2>6. e \div f < R
    BY <1>1, <2>3, <2>4, <2>5
  <2>7. e \div f \in 0 .. (R - 1)
    BY <1>1, <2>4, <2>6
  <2>8. QED BY <2>3, <2>4, <2>7 DEF e
<1>6. /\ x \in Nat /\ x < Span * Span /\ qh \in 0 .. (R - 1) /\ rh \in 0 .. (f - 1) /\ x = qh * f + rh
  <2> HIDE DEF h, rs
  <2>1. QED BY <1>3, <1>4, <1>5
<1>7. /\ y \in Nat /\ y < Span * Span /\ ql \in 0 .. (R - 1) /\ rl \in 0 .. (f - 1) /\ y = ql * f + rl
  <2> HIDE DEF l, rh
  <2>1. QED BY <1>3, <1>5, <1>6
<1>8. U64(x) = x /\ U64(y) = y /\ U32(qh) = qh /\ U32(ql) = ql
  <2>1. Span * Span \in Nat
    BY <1>1
  <2> HIDE DEF x, y, qh, ql
  <2>2. qh \in Nat /\ qh < Span /\ ql \in Nat /\ ql < Span
    BY <1>1, <1>6, <1>7
  <2>3. QED BY <1>1, <1>6, <1>7, <2>1, <2>2, Fitting DEF U64, U32
<1>9. Divide(t, f) = Time(qs + over, IF over = 1 THEN 0 ELSE b)
  <2>1. Divide(t, f) =
          (LET high == U64(t.attoseconds \div Root + (t.seconds % f) * Root)
               low  == U64((t.attoseconds % Root) + (high % f) * Root)
               u    == IF low % f >= f \div 2 THEN 1 ELSE 0
               v    == U32(low \div f) + U32(high \div f) * Root + u
               o    == IF u = 1 /\ v >= PerSecond THEN 1 ELSE 0
           IN  Time(t.seconds \div f + o, IF o = 1 THEN 0 ELSE v))
    BY DEF Divide
  <2>2. QED BY <1>8, <2>1
(* The whole attoseconds.                                                  *)
<1> DEFINE w == ql + qh * R
<1>10. w \in 0 .. (P - 1)
  <2> HIDE DEF ql, qh
  <2>1. qh * R <= (R - 1) * R /\ (R - 1) * R = R * R - R /\ qh * R \in Nat
    BY <1>1, <1>6, Monotonic
  <2>2. QED BY <1>1, <1>7, <2>1
<1>11. Value(t) = (qs * P + w) * f + rl
  <2>1. x = h + rs * R /\ y = l + rh * R /\ Value(t) = s * P + a
    BY DEF Value
  <2> HIDE DEF x, y, h, l, rs, rh, qs, ql, qh, rl, s, a
  <2>2. s * P = qs * f * P + rs * P /\ rs * P = rs * R * R
    BY <1>1, <1>4
  <2>3. a + rs * R * R = x * R + l
    <3>1. (h + rs * R) * R = h * R + rs * R * R
      BY <1>1, <1>3, <1>4
    <3>2. QED BY <1>1, <1>3, <1>4, <2>1, <3>1
  <2>4. x * R + l = qh * f * R + y
    <3>1. (qh * f + rh) * R = qh * f * R + rh * R
      BY <1>1, <1>6
    <3>2. QED BY <1>1, <1>3, <1>6, <2>1, <3>1
  <2>5. qh * f * R + y = w * f + rl
    <3>1. (ql + qh * R) * f = ql * f + qh * f * R
      BY <1>1, <1>6, <1>7
    <3>2. QED BY <1>1, <1>6, <1>7, <3>1
  <2>6. Value(t) = qs * f * P + (w * f + rl)
    <3>1. s * P + a = qs * f * P + (a + rs * R * R)
      <4> DEFINE m == qs * f * P
                 n == rs * R * R
      <4>1. m \in Int /\ n \in Int /\ s * P = m + n
        BY <1>1, <1>4, <2>2
      <4> HIDE DEF m, n
      <4>2. s * P + a = m + (a + n)
        BY <1>2, <4>1
      <4>3. QED BY <4>2 DEF m, n
    <3>2. QED BY <2>1, <2>3, <2>4, <2>5, <3>1
  <2> HIDE DEF w
  <2>7. (qs * P + w) * f = qs * f * P + w * f
    BY <1>1, <1>4, <1>10
  <2>8. qs * f * P \in Int /\ w * f \in Int
    BY <1>1, <1>4, <1>10
  <2>9. QED BY <1>7, <2>6, <2>7, <2>8
<1>12. up \in {0, 1} /\ b = w + up /\ over \in {0, 1}
  <2> HIDE DEF rl, ql, qh
  <2>1. QED BY <1>1, <1>6, <1>7
<1>13. over = 1 <=> w + up = P
  <2>1. b >= P => up = 1
    <3> HIDE DEF w, up, b
    <3>1. QED BY <1>1, <1>10, <1>12
  <2>2. over = 1 <=> b >= P
    BY <2>1
  <2> HIDE DEF w, up, b, over
  <2>3. QED BY <1>1, <1>10, <1>12, <2>2
<1> HIDE DEF w, up, b, over, ql, qh, rl, qs, P, s, a
<1> DEFINE d == Divide(t, f)
<1>14. d.seconds = qs + over /\ d.attoseconds = (IF over = 1 THEN 0 ELSE b) /\ d = Time(qs + over, IF over = 1 THEN 0 ELSE b)
  BY <1>9, TimeIs
<1>15. d.attoseconds \in 0 .. (P - 1) /\ d.seconds \in Nat /\ d.seconds <= MaxSeconds
  BY <1>1, <1>2, <1>4, <1>10, <1>12, <1>13, <1>14
<1>16. IsNever(d) => d = never
  <2>1. IsNever(d) => over = 1 /\ qs + over = MaxSeconds
    BY <1>1, <1>2, <1>4, <1>12, <1>14, <1>15 DEF IsNever
  <2>2. QED BY <1>14, <2>1 DEF never
<1>17. Value(d) = qs * P + (w + up)
  <2>1. Value(d) = (qs + over) * P + (IF over = 1 THEN 0 ELSE b)
    BY <1>14 DEF Value, P
  <2>2. CASE over = 1
    <3>1. (qs + 1) * P + 0 = qs * P + P
      BY <1>1, <1>4
    <3>2. QED BY <1>13, <2>1, <2>2, <3>1
  <2>3. CASE over = 0
    <3>1. (qs + 0) * P = qs * P
      BY <1>1, <1>4
    <3>2. QED BY <1>12, <2>1, <2>3, <3>1
  <2>4. QED BY <1>12, <2>2, <2>3
<1>18. Value(d) * f - Value(t) = up * f - rl
  <2> DEFINE m == qs * P + w
  <2>1. m \in Int /\ Value(d) = m + up /\ Value(t) = m * f + rl
    <3> DEFINE g == qs * P
    <3>1. g \in Int
      BY <1>1, <1>4
    <3>2. Value(d) = g + (w + up) /\ Value(t) = (g + w) * f + rl
      BY <1>11, <1>17
    <3> HIDE DEF g, d
    <3>3. g + w \in Int /\ g + (w + up) = (g + w) + up
      BY <1>1, <1>10, <1>12, <3>1
    <3>4. QED BY <3>2, <3>3 DEF g
  <2> HIDE DEF m
  <2>2. (m + up) * f = m * f + up * f /\ m * f \in Int /\ up * f \in Int
    BY <1>12, <2>1
  <2>3. QED BY <1>7, <2>1, <2>2
<1>19. up * f - rl \in -f .. f
  BY <1>7, <1>12
<1>20. Reached(d)
  <2>1. d = Time(d.seconds, d.attoseconds)
    BY <1>14
  <2> HIDE DEF d
  <2>2. d.seconds \in Int /\ d.seconds >= -(Depth + MaxSeconds + 1)
    BY <1>1, <1>15
  <2>3. QED BY <1>15, <1>16, <2>1, <2>2 DEF Reached, P
<1>21. QED BY <1>1, <1>15, <1>18, <1>19, <1>20 DEF Normal, P

(* The ticks of a time are those of its seconds and the whole ones in its  *)
(* attoseconds.                                                            *)
LEMMA TicksAre ==
  ASSUME NEW s \in 0 .. (MaxSeconds - 1), NEW a \in 0 .. (PerSecond - 1), NEW f \in 1 .. MaxSeconds
  PROVE  /\ as_ticks(Time(s, a), f) = s * f + (a * f) \div PerSecond
         /\ (a * f) \div PerSecond \in 0 .. (f - 1) /\ a * f \in Nat
         /\ a * f - ((a * f) \div PerSecond) * PerSecond \in 0 .. (PerSecond - 1)
<1> DEFINE t == Time(0, a)
           P == PerSecond
<1>1. P \in Nat /\ P > 0 /\ MaxSeconds \in Nat /\ Span \in Nat /\ 4 * MaxSeconds <= Span /\ MaxSeconds > 1
  BY TimeNumbers
<1>2. t.seconds = 0 /\ t.attoseconds = a /\ ~IsNever(t) /\ f \in 0 .. (Span - 1)
  BY <1>1, TimeIs DEF IsNever
<1>3. PICK q, r : MadeOf(t, f, q, r)
  BY <1>2, ProductIs
<1>4. U32(0) = 0 /\ U32(s) = s
  BY <1>1, Fitting DEF U32
<1>5. /\ q \in 0 .. f /\ r \in 0 .. (P - 1) /\ a * f = q * P + r
      /\ Multiply(t, f) = IF q + U32(0) * f >= MaxSeconds THEN never ELSE Time(q + U32(0) * f, r)
  <2>1. /\ q \in 0 .. f /\ r \in 0 .. (P - 1) /\ t.attoseconds * f = q * P + r
        /\ Multiply(t, f) = IF f > 0 /\ q + U32(t.seconds) * f >= MaxSeconds THEN never
                            ELSE IF f = 0 THEN zero ELSE Time(q + U32(t.seconds) * f, r)
    BY <1>3 DEF MadeOf
  <2>2. f > 0 /\ f # 0
    OBVIOUS
  <2>3. QED BY <1>2, <2>1, <2>2
<1>6. q < f
  <2>1. q >= f => f * P <= q * P
    BY <1>1, <1>5, Monotonic
  <2>2. a * f <= (P - 1) * f /\ (P - 1) * f = f * P - f
    BY <1>1, Monotonic
  <2>3. QED BY <1>1, <1>5, <2>1, <2>2
<1>7. (a * f) \div P = q
  <2>1. q \in Int /\ P \in Nat /\ r \in 0 .. (P - 1)
    BY <1>1, <1>5
  <2> HIDE DEF P
  <2>2. (q * P + r) \div P = q
    BY <2>1, QuotientRest
  <2>3. QED BY <1>5, <2>2
<1>8. Multiply(t, f).seconds = q
  <2>1. q + U32(0) * f = q /\ ~ (q >= MaxSeconds)
    BY <1>1, <1>4, <1>5, <1>6
  <2>2. QED BY <1>5, <2>1, TimeIs
<1>9. U32(q) = q
  BY <1>1, <1>5, <1>6, Fitting DEF U32
<1>10. as_ticks(Time(s, a), f) = s * f + q
  <2>1. Time(s, a).seconds = s /\ Time(s, a).attoseconds = a
    BY TimeIs
  <2>2. as_ticks(Time(s, a), f) = U32(s) * f + U32(Multiply(t, f).seconds)
    BY <2>1 DEF as_ticks
  <2>3. QED BY <1>4, <1>8, <1>9, <2>2
<1>11. QED BY <1>1, <1>5, <1>6, <1>7, <1>10

(* Ticks that become a time and are read from it again.                    *)
LEMMA TicksReturn ==
  ASSUME NEW s \in 0 .. (MaxSeconds - 1), NEW f \in 1 .. Root, NEW d \in 0 .. (f - 1)
  PROVE  (s * f + d) - as_ticks(from_ticks(s * f + d, f), f) \in {0, 1}
<1> DEFINE P == PerSecond
           g == P \div f
           e == P % f
           a == d * g
           v == a * f
           n == s * f + d
<1>1. P \in Nat /\ P > Root /\ P = Root * Root /\ Root \in Nat /\ Root <= MaxSeconds /\ MaxSeconds \in Nat
  BY TimeNumbers
<1>2. f \in Nat /\ f # 0 /\ f <= Root /\ f \in 1 .. MaxSeconds /\ f < P
  BY <1>1
<1>3. g \in Nat /\ e \in 0 .. (f - 1) /\ P = g * f + e
  <2> HIDE DEF P
  <2>1. QED BY <1>1, <1>2, Division
<1>4. n \div f = s /\ n % f = d
  <2>1. s \in Int /\ f \in Nat /\ d \in 0 .. (f - 1)
    BY <1>2
  <2>2. (s * f + d) \div f = s /\ (s * f + d) % f = d
    BY <2>1, QuotientRest
  <2>3. QED BY <2>2
<1>5. from_ticks(n, f) = Time(s, a)
  BY <1>4 DEF from_ticks
<1> HIDE DEF P, g, e
<1>6. g > 0
  BY <1>1, <1>2, <1>3
<1>7. d * g * f = d * P - d * e /\ d * e \in Nat /\ d * g \in Nat
  <2>1. d * (g * f + e) = d * g * f + d * e
    BY <1>1, <1>2, <1>3
  <2>2. d * e \in Nat /\ d * g \in Nat /\ d * g * f \in Int
    BY <1>2, <1>3
  <2>3. QED BY <1>3, <2>1, <2>2
<1>8. a \in 0 .. (P - 1)
  <2>1. (d + 1) * g <= f * g
    BY <1>2, <1>3, Monotonic
  <2>2. (d + 1) * g = d * g + g /\ f * g = g * f
    BY <1>2, <1>3
  <2>3. QED BY <1>1, <1>2, <1>3, <1>6, <1>7, <2>1, <2>2
<1>9. d * e < P
  <2>1. d * e <= f * e /\ e * f <= f * f /\ f * e = e * f
    BY <1>2, <1>3, Monotonic
  <2>2. f * f <= Root * f /\ f * Root <= Root * Root /\ Root * f = f * Root
    BY <1>1, <1>2, Monotonic
  <2>3. e = 0 => d * e = 0
    BY <1>2
  <2>4. e # 0 => (e + 1) * f <= f * f /\ (e + 1) * f = e * f + f
    BY <1>2, <1>3, Monotonic
  <2> DEFINE x == d * e
             y == e * f
             z == f * f
             w == f * Root
  <2>5. x \in Int /\ y \in Int /\ z \in Int /\ w \in Int /\ x <= y /\ z <= w /\ w <= P
        /\ (e = 0 => x = 0) /\ (e # 0 => y + f <= z)
    BY <1>1, <1>2, <1>3, <1>7, <2>1, <2>2, <2>3, <2>4
  <2> HIDE DEF x, y, z, w
  <2>6. x < P
    BY <1>1, <1>2, <1>3, <2>5
  <2>7. QED BY <2>6 DEF x
<1>10. v = d * P - d * e
  BY <1>7
<1> HIDE DEF v, a, n
<1>11. v \div P \in {d, d - 1}
  <2>1. CASE d * e = 0
    <3>1. v = d * P + 0 /\ 0 \in 0 .. (P - 1) /\ d \in Int /\ P \in Nat
      <4>1. d * P \in Int
        BY <1>1, <1>2
      <4>2. QED BY <1>1, <1>2, <1>10, <2>1, <4>1
    <3>2. (d * P + 0) \div P = d
      BY <3>1, QuotientRest
    <3>3. QED BY <3>1, <3>2
  <2>2. CASE d * e # 0
    <3> DEFINE q == d - 1
               r == P - d * e
    <3>1. q \in Int /\ P \in Nat /\ r \in 0 .. (P - 1)
      BY <1>1, <1>2, <1>7, <1>9, <2>2
    <3>2. v = q * P + r
      <4>1. (d - 1) * P = d * P - P /\ d * P \in Int
        BY <1>1, <1>2
      <4>2. QED BY <1>1, <1>7, <1>10, <4>1
    <3> HIDE DEF q, r
    <3>3. (q * P + r) \div P = q
      BY <3>1, QuotientRest
    <3>4. QED BY <3>2, <3>3 DEF q
  <2>3. QED BY <2>1, <2>2
<1>12. as_ticks(Time(s, a), f) = s * f + (v \div P)
  <2>1. a \in 0 .. (PerSecond - 1)
    BY <1>8 DEF P
  <2>2. as_ticks(Time(s, a), f) = s * f + (a * f) \div PerSecond
    BY <1>2, <2>1, TicksAre
  <2>3. QED BY <2>2 DEF v, P
<1>13. s * f \in Int /\ n = s * f + d
  BY <1>2 DEF n
<1>14. n - as_ticks(from_ticks(n, f), f) \in {0, 1}
  BY <1>2, <1>5, <1>11, <1>12, <1>13
<1>15. QED BY <1>14 DEF n

(* The ticks of a time, and what becomes of them.                          *)
LEMMA TicksHold ==
  ASSUME Reached(time), ~IsNever(time), time.seconds >= 0, NEW f \in 1 .. (Span - 1)
  PROVE  TicksComeBack(f)
<1> DEFINE P == PerSecond
           s == time.seconds
           a == time.attoseconds
           d == (a * f) \div P
           n == as_ticks(time, f)
<1>1. /\ P \in Nat /\ P > 0 /\ MaxSeconds \in Nat /\ Root \in Nat /\ Root <= MaxSeconds
      /\ s \in 0 .. (MaxSeconds - 1) /\ a \in 0 .. (P - 1) /\ time = Time(s, a)
  BY TimeNumbers DEF Reached, IsNever
<1>2. SUFFICES ASSUME f <= MaxSeconds
               PROVE  n = (Value(time) * f) \div P /\ (f <= Root => n - as_ticks(from_ticks(n, f), f) \in {0, 1})
  BY <1>1 DEF TicksComeBack
<1>3. /\ n = s * f + d /\ d \in 0 .. (f - 1) /\ a * f \in Nat
      /\ a * f - d * P \in 0 .. (P - 1)
  <2>1. f \in 1 .. MaxSeconds /\ s \in 0 .. (MaxSeconds - 1) /\ a \in 0 .. (PerSecond - 1)
    BY <1>1, <1>2
  <2> HIDE DEF s, a
  <2>2. /\ as_ticks(Time(s, a), f) = s * f + (a * f) \div PerSecond
        /\ (a * f) \div PerSecond \in 0 .. (f - 1) /\ a * f \in Nat
        /\ a * f - ((a * f) \div PerSecond) * PerSecond \in 0 .. (PerSecond - 1)
    BY <2>1, TicksAre
  <2>3. QED BY <1>1, <2>2
<1>4. Value(time) = s * P + a
  BY DEF Value
<1> HIDE DEF P, s, a, d, n
<1>5. n = (Value(time) * f) \div P
  <2> DEFINE r == a * f - d * P
  <2>1. (s * P + a) * f = (s * f + d) * P + r
    <3>1. (s * P + a) * f = s * f * P + a * f /\ (s * f + d) * P = s * f * P + d * P
      BY <1>1, <1>3
    <3>2. s * f * P \in Int /\ d * P \in Int
      BY <1>1, <1>3
    <3>3. QED BY <1>3, <3>1, <3>2
  <2>2. n \in Int /\ P \in Nat /\ r \in 0 .. (P - 1)
    BY <1>1, <1>3
  <2>3. Value(time) * f = n * P + r
    BY <1>3, <1>4, <2>1
  <2> HIDE DEF r
  <2>4. (n * P + r) \div P = n
    BY <2>2, QuotientRest
  <2>5. QED BY <2>3, <2>4
<1>6. ASSUME f <= Root PROVE n - as_ticks(from_ticks(n, f), f) \in {0, 1}
  <2>1. f \in 1 .. Root
    BY <1>1, <1>6
  <2>2. (s * f + d) - as_ticks(from_ticks(s * f + d, f), f) \in {0, 1}
    BY <1>1, <1>3, <2>1, TicksReturn
  <2>3. QED BY <1>3, <2>2
<1>7. QED BY <1>5, <1>6

(* Every operation leads to such a time.                                   *)
LEMMA TimeSteps ==
  ASSUME Reached(time), [TimeNext]_time
  PROVE  Reached(time')
<1>1. CASE Add
  <2>1. PICK r \in Operands : time' = Plus(time, r)
    BY <1>1 DEF Add
  <2>2. Reached(Plus(time, r))
    BY SumIs
  <2>3. QED BY <2>1, <2>2
<1>2. CASE Subtract
  <2>1. PICK r \in Operands : time.seconds > -Depth /\ time' = Minus(time, r)
    BY <1>2 DEF Subtract
  <2>2. Reached(Minus(time, r))
    BY <2>1, DifferenceIs
  <2>3. QED BY <2>1, <2>2
<1>3. CASE Scale
  <2>1. PICK f \in Factors : time' = Multiply(time, f)
    BY <1>3 DEF Scale
  <2>2. f \in 0 .. (Span - 1)
    BY OperandsAssumption
  <2>3. IsNever(time) => Multiply(time, f) = never
    BY DEF Multiply
  <2>4. ~IsNever(time) => Reached(Multiply(time, f))
    BY <2>2, ProductsExact
  <2>5. Reached(Multiply(time, f))
    BY <2>3, <2>4, NeverIs
  <2>6. QED BY <2>1, <2>5
<1>4. CASE Share
  <2>1. PICK f \in Factors : time.seconds >= 0 /\ time' = Divide(time, f)
    BY <1>4 DEF Share
  <2>2. f \in 0 .. (Span - 1) /\ Span \in Nat
    BY OperandsAssumption, TimeNumbers
  <2>3. IsNever(time) => Divide(time, f) = never
    BY DEF Divide
  <2>4. ~IsNever(time) /\ f = 0 => Divide(time, f) = time
    BY DEF Divide
  <2>5. ~IsNever(time) /\ f # 0 => Reached(Divide(time, f))
    <3>1. f # 0 => f \in 1 .. (Span - 1)
      BY <2>2
    <3>2. QED BY <2>1, <3>1, QuotientsClose
  <2>6. Reached(Divide(time, f))
    BY <2>3, <2>4, <2>5, NeverIs
  <2>7. QED BY <2>1, <2>6
<1>5. CASE time' = time
  BY <1>5
<1>6. QED BY <1>1, <1>2, <1>3, <1>4, <1>5 DEF TimeNext

(* What is promised of such a time.                                        *)
LEMMA ReachedIsExact == Reached(time) => ResultsAreExact
<1> SUFFICES ASSUME Reached(time) PROVE ResultsAreExact
  OBVIOUS
<1>1. Normal(time) /\ (IsNever(time) => time = never)
  BY DEF Reached, Normal
<1>2. SumsAreExact
  <2>1. SUFFICES ASSUME NEW r \in Operands
                 PROVE  IF IsNever(time) \/ IsNever(r) THEN Plus(time, r) = never
                        ELSE /\ Plus(time, r) = Clamp(Value(time) + Value(r))
                             /\ Plus(Minus(time, r), r) = time
    BY DEF SumsAreExact
  <2>2. /\ IsNever(time) \/ IsNever(r) => Plus(time, r) = never
        /\ ~IsNever(time) /\ ~IsNever(r) => Plus(time, r) = Clamp(Value(time) + Value(r))
    BY SumIs
  <2>3. ~IsNever(time) /\ ~IsNever(r) => Plus(Minus(time, r), r) = time
    BY DifferenceIs
  <2>4. QED BY <2>2, <2>3
<1>3. ASSUME NEW f \in Factors, ~IsNever(time)
      PROVE  /\ ProductIsExact(f)
             /\ time.seconds >= 0 /\ f # 0 => QuotientIsClose(f) /\ TicksComeBack(f)
  <2>1. f \in 0 .. (Span - 1) /\ Span \in Nat
    BY OperandsAssumption, TimeNumbers
  <2>2. ProductIsExact(f)
    BY <1>3, <2>1, ProductsExact DEF ProductIsExact
  <2>3. ASSUME time.seconds >= 0, f # 0 PROVE QuotientIsClose(f) /\ TicksComeBack(f)
    <3>1. f \in 1 .. (Span - 1)
      BY <2>1, <2>3
    <3>2. QuotientIsClose(f)
      BY <1>3, <2>3, <3>1, QuotientsClose DEF QuotientIsClose
    <3>3. TicksComeBack(f)
      BY <1>3, <2>3, <3>1, TicksHold
    <3>4. QED BY <3>2, <3>3
  <2>4. QED BY <2>2, <2>3
<1>4. QED BY <1>1, <1>2, <1>3 DEF ResultsAreExact

(* Whatever operations follow each other on a time, it stays normalised,   *)
(* its sums and products are exact up to the maximum, its quotients are    *)
(* off by no more than an attosecond, and its ticks come back, the same or *)
(* one less: operator+, operator-, operator*= and operator/= of            *)
(* attotime.h and attotime.cpp, with as_ticks and from_ticks.              *)
THEOREM TimesHold == TimeSpec => []ResultsAreExact
<1>1. TimeInit => Reached(time)
  <2>1. zero.seconds = 0 /\ zero.attoseconds = 0 /\ zero = Time(0, 0)
    BY TimeIs DEF zero
  <2>2. QED BY <2>1, TimeNumbers DEF TimeInit, Reached, IsNever
<1>2. Reached(time) /\ [TimeNext]_time => Reached(time)'
  <2>1. Reached(time) /\ [TimeNext]_time => Reached(time')
    BY TimeSteps
  <2>2. Reached(time') => Reached(time)'
    BY DEF Reached
  <2>3. QED BY <2>1, <2>2
<1>3. Reached(time) => ResultsAreExact
  BY ReachedIsExact
<1>4. QED BY <1>1, <1>2, <1>3, PTL DEF TimeSpec
=================================================================================
