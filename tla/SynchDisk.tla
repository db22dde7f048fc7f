----------------------------- MODULE SynchDisk -----------------------------
(***************************************************************************)
(* class SynchDisk over class Disk: threads that read and write sectors,   *)
(* the disk that schedules an interrupt for the end of each request, the   *)
(* time-slice timer, and the simulated clock that OneTick and Idle move.   *)
(* Times are in ticks.  What the sectors hold is in module FileSys.        *)
(*                                                                         *)
(* mode says what the processor is doing: "run" (thread cur runs), "P"     *)
(* (cur tests the semaphore), "tick" (inside OneTick), "resume" (cur has   *)
(* been dispatched in ThreadRoot or in Yield, and enables interrupts),     *)
(* "idle" and "due" (the first and the other calls of CheckIfDue in Idle), *)
(* "halted", "abort" (an ASSERT failed).                                   *)
(***************************************************************************)
EXTENDS Pending, FiniteSets

CONSTANTS
  Threads,
  DiskThreads,               \* the threads that use the disk
  Tracks, SectorsPerTrack,   \* 32 and 32 in disk.h
  RotationTime, SeekTime,    \* 500 and 500 in stats.h
  SystemTick,                \* 10 in stats.h
  TimerDelays,               \* what TimeOfNextInterrupt may return
  MaxTicks                   \* bound: no new work from this time on

ASSUME SynchDiskAssumption ==
  /\ {Tracks, SectorsPerTrack, RotationTime, SeekTime, SystemTick}
       \subseteq Nat \ {0}
  /\ TimerDelays \subseteq Nat \ {0}
  /\ DiskThreads \subseteq Threads

VARIABLES
  mode, cur,
  asleep,            \* the threads in the semaphore's queue
  place,             \* where a thread that does not run continues, or "done"
  totalTicks, pending, yieldOnReturn,
  active, lastSector, bufferInit,   \* class Disk
  value,                            \* the semaphore of SynchDisk
  settled                           \* history: when the head reached its track

diskVars == <<active, lastSector, bufferInit, settled>>
svars == <<mode, cur, asleep, place, totalTicks, pending, yieldOnReturn,
           diskVars, value>>

Sectors == 0..(Tracks * SectorsPerTrack - 1)

-----------------------------------------------------------------------------
(* Disk timing.                                                            *)

Abs(n) == IF n < 0 THEN -n ELSE n

SeekTo(newSector) ==
  Abs(newSector \div SectorsPerTrack - lastSector \div SectorsPerTrack) * SeekTime

(* TimeToSeek's *rotation: round up to the next full sector.               *)
Rotation(seek) ==
  LET over == (totalTicks + seek) % RotationTime
  IN  IF over > 0 THEN RotationTime - over ELSE 0

ModuloDiff(to, from) ==
  ((to % SectorsPerTrack) - (from % SectorsPerTrack) + SectorsPerTrack)
    % SectorsPerTrack

ComputeLatency(newSector, writing) ==
  LET seek == SeekTo(newSector)
      rotation == Rotation(seek)
      timeAfter == totalTicks + seek + rotation
  IN  IF /\ ~writing
         /\ seek = 0
         /\ (timeAfter - bufferInit) \div RotationTime
              > ModuloDiff(newSector, bufferInit \div RotationTime)
      THEN RotationTime
      ELSE seek + rotation + RotationTime
             + ModuloDiff(newSector, timeAfter \div RotationTime) * RotationTime

(* Mutant of UpdateLast: the track buffer is not emptied by a seek.        *)
UpdateLastOnly(newSector) ==
  /\ lastSector' = newSector
  /\ UNCHANGED bufferInit

UpdateLast(newSector) ==
  LET seek == SeekTo(newSector)
  IN  /\ bufferInit' = IF seek # 0 THEN totalTicks + seek + Rotation(seek)
                                   ELSE bufferInit
      /\ lastSector' = newSector

-----------------------------------------------------------------------------
(* Threads and the clock.                                                  *)

(* The Timer's constructor schedules its first interrupt.                  *)
TimerStarted == \E d \in TimerDelays : pending = Schedule(<<>>, 0, d, "TimerInt")

SInit ==
  /\ mode = "run"
  /\ cur \in Threads
  /\ asleep = {}
  /\ place = [t \in Threads |-> "resume"]
  /\ totalTicks = 0
  /\ TimerStarted
  /\ yieldOnReturn = FALSE
  /\ active = FALSE /\ lastSector = 0 /\ bufferInit = 0 /\ settled = 0
  /\ value = 0

(* Re-enabling interrupts: Interrupt::SetLevel calls OneTick.              *)
OneTick == totalTicks' = totalTicks + SystemTick /\ mode' = "tick"

Ready(sleepers) == {t \in Threads \ sleepers : place[t] # "done"}

(* Some other ready thread is dispatched, or none is ready.                *)
Switch(ready) ==
  IF ready = {} THEN mode' = "idle" /\ cur' = cur
  ELSE \E t \in ready : cur' = t /\ mode' = place'[t]

(* A stretch of kernel code that ends by enabling interrupts.              *)
Compute ==
  /\ mode = "run" /\ totalTicks < MaxTicks
  /\ OneTick
  /\ UNCHANGED <<cur, asleep, place, pending, yieldOnReturn, diskVars, value>>

(* The end of ThreadRoot's prologue, or of Yield.                          *)
Resume ==
  /\ mode = "resume"
  /\ OneTick
  /\ UNCHANGED <<cur, asleep, place, pending, yieldOnReturn, diskVars, value>>

(* Thread::Finish.                                                         *)
Finish ==
  /\ mode = "run"
  /\ place' = [place EXCEPT ![cur] = "done"]
  /\ Switch(Ready(asleep) \ {cur})
  /\ UNCHANGED <<asleep, totalTicks, pending, yieldOnReturn, diskVars, value>>

(* SynchDisk::ReadSector and WriteSector.  The Lock is not implemented:    *)
(* Acquire returns at once, and a second request fails Disk's ASSERT.      *)
Request(s, writing) ==
  /\ mode = "run" /\ totalTicks < MaxTicks /\ cur \in DiskThreads
  /\ IF active
     THEN mode' = "abort" /\ UNCHANGED <<diskVars, pending>>
     ELSE /\ active' = TRUE
          /\ settled' = IF SeekTo(s) # 0 THEN totalTicks + SeekTo(s) ELSE settled
          /\ UpdateLast(s)
          /\ pending' = Schedule(pending, totalTicks,
                                 ComputeLatency(s, writing), "DiskInt")
          /\ mode' = "P"
  /\ UNCHANGED <<cur, asleep, place, totalTicks, yieldOnReturn, value>>

(* semaphore->P().                                                         *)
P ==
  /\ mode = "P"
  /\ IF value > 0
     THEN /\ value' = value - 1 /\ OneTick
          /\ UNCHANGED <<cur, asleep, place>>
     ELSE /\ asleep' = asleep \cup {cur}
          /\ place' = [place EXCEPT ![cur] = "P"]
          /\ Switch(Ready(asleep'))
          /\ UNCHANGED <<value, totalTicks>>
  /\ UNCHANGED <<pending, yieldOnReturn, diskVars>>

(* The disk's interrupt: SynchDisk::RequestDone is semaphore->V().         *)
RequestDone ==
  /\ value' = value + 1
  /\ IF asleep = {} THEN asleep' = {}
     ELSE \E t \in asleep : asleep' = asleep \ {t}

HandleInterrupt ==
  /\ Head(pending).type = "DiskInt"
  /\ active' = FALSE
  /\ RequestDone
  /\ pending' = Tail(pending)
  /\ UNCHANGED <<yieldOnReturn, lastSector, bufferInit, settled>>

(* The timer's, at time `now': the next one is scheduled, and              *)
(* TimerInterruptHandler asks for a yield.                                 *)
TimerExpired(now) ==
  /\ Head(pending).type = "TimerInt"
  /\ \E d \in TimerDelays :
       pending' = Schedule(Tail(pending), now, d, "TimerInt")
  /\ yieldOnReturn' = TRUE
  /\ UNCHANGED <<asleep, value, diskVars>>

(* The handler of the first pending interrupt.                             *)
Handler(now) == HandleInterrupt \/ TimerExpired(now)

(* OneTick: every interrupt that is due fires, then the thread yields if   *)
(* the timer asked for it.                                                 *)
TickFires ==
  /\ mode = "tick" /\ Due(pending, totalTicks, FALSE)
  /\ Handler(totalTicks)
  /\ UNCHANGED <<mode, cur, place, totalTicks>>

TickEnds ==
  /\ mode = "tick" /\ ~Due(pending, totalTicks, FALSE)
  /\ pending' = PutBack(pending)
  /\ yieldOnReturn' = FALSE
  /\ IF ~yieldOnReturn
     THEN mode' = "run" /\ UNCHANGED <<cur, place>>
     ELSE /\ place' = [place EXCEPT ![cur] = "resume"]
          /\ Switch(IF Ready(asleep) = {cur} THEN {cur}
                    ELSE Ready(asleep) \ {cur})
  /\ UNCHANGED <<asleep, totalTicks, diskVars, value>>

(* Idle: the clock moves to the first pending interrupt, which fires       *)
(* unless it is the timer and alone.                                       *)
IdleFires ==
  /\ mode = "idle" /\ pending # <<>> /\ ~TimerOnly(pending)
  /\ totalTicks' = IF Head(pending).when > totalTicks
                   THEN Head(pending).when ELSE totalTicks
  /\ Handler(totalTicks')
  /\ mode' = "due"
  /\ UNCHANGED <<cur, place>>

IdleHalts ==
  /\ mode = "idle" /\ (pending = <<>> \/ TimerOnly(pending))
  /\ mode' = "halted"
  /\ totalTicks' = IF pending # <<>> /\ Head(pending).when > totalTicks
                   THEN Head(pending).when ELSE totalTicks
  /\ UNCHANGED <<cur, asleep, place, pending, yieldOnReturn, diskVars, value>>

IdleFiresMore ==
  /\ mode = "due" /\ Due(pending, totalTicks, TRUE)
  /\ Handler(totalTicks)
  /\ UNCHANGED <<mode, cur, place, totalTicks>>

IdleEnds ==
  /\ mode = "due" /\ ~Due(pending, totalTicks, TRUE)
  /\ pending' = PutBack(pending)
  /\ yieldOnReturn' = FALSE
  /\ UNCHANGED place
  /\ Switch(Ready(asleep))
  /\ UNCHANGED <<asleep, totalTicks, diskVars, value>>

SNext ==
  \/ Compute \/ Resume \/ Finish
  \/ \E s \in Sectors, writing \in BOOLEAN : Request(s, writing)
  \/ P
  \/ TickFires \/ TickEnds
  \/ IdleFires \/ IdleHalts \/ IdleFiresMore \/ IdleEnds

SSpec == SInit /\ [][SNext]_svars

-----------------------------------------------------------------------------
(* Properties.                                                             *)

(* A thread has been dispatched by Idle, the disk having announced its     *)
(* request, and the timer, which fell due at the same time, is left.       *)
LeftByIdle ==
  /\ mode = "P" /\ value > 0
  /\ pending = << [when |-> totalTicks, type |-> "TimerInt"] >>

(* While a thread runs, no interrupt is overdue, and the list is in order  *)
(* of time: OneTick and Idle fire all that is due, re-inserting the first  *)
(* element keeps the order.  One exception: Idle leaves the timer behind   *)
(* when it falls due, alone, together with the interrupt that ended Idle;  *)
(* the thread woken by that one has not gone on yet.                       *)
NoneOverdue ==
  /\ mode \in {"run", "P", "resume"} /\ ~LeftByIdle =>
       \A i \in DOMAIN pending : pending[i].when > totalTicks
  /\ \A i, j \in DOMAIN pending : i < j => pending[i].when <= pending[j].when

(* The head is over sector s of its track from k*RotationTime on.          *)
Over(s, k) == k % SectorsPerTrack = s % SectorsPerTrack

(* A read is served from the track buffer only if its sector began to go   *)
(* by after the head came to the track and has gone by completely when the *)
(* read ends; any other request ends when the sector next goes by after    *)
(* the seek.                                                               *)
LatencyIsRotation ==
  mode = "run" =>
    \A s \in Sectors, writing \in BOOLEAN :
      LET latency == ComputeLatency(s, writing)
          end == totalTicks + latency
          start == totalTicks + SeekTo(s)
          slots == 0..((end \div RotationTime) + SectorsPerTrack)
      IN  \/ /\ ~writing /\ SeekTo(s) = 0 /\ latency = RotationTime
             /\ \E k \in slots : /\ Over(s, k)
                                 /\ k * RotationTime >= settled
                                 /\ (k + 1) * RotationTime <= start + RotationTime
          \/ \E k \in slots :
               /\ Over(s, k) /\ k * RotationTime >= start
               /\ \A j \in 0..(k - 1) : Over(s, j) => j * RotationTime < start
               /\ end = (k + 1) * RotationTime

(* Nachos does not halt, by itself or by an ASSERT, while a disk request   *)
(* is under way, and the thread that made it is woken.                     *)
RequestsFinish ==
  /\ mode = "halted" => ~active /\ asleep = {}
  /\ mode # "abort"

=============================================================================
