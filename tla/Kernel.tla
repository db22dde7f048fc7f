------------------------------- MODULE Kernel -------------------------------
(***************************************************************************)
(* The Nachos thread kernel: threads, the scheduler, semaphores and the    *)
(* interrupt machinery that decides when a thread may lose the processor.  *)
(*                                                                         *)
(* Nachos runs on one simulated processor.  Code that runs with interrupts *)
(* disabled is atomic, and a thread gives the processor up only inside     *)
(* Thread::Sleep, or inside Thread::Yield, which Interrupt::OneTick calls  *)
(* whenever interrupts are re-enabled after a timer interrupt.  Each       *)
(* action below is one such stretch of code, and pc[t] says where thread t *)
(* is, or where it continues when it is next dispatched:                   *)
(*                                                                         *)
(*   "none"   no Thread object            "P"     about to test `value' in *)
(*   "new"    forked, never dispatched            Semaphore::P's loop      *)
(*   "user"   running, interrupts on      "sleep" looking for a successor  *)
(*   "tick"   inside OneTick              "idle"  inside Interrupt::Idle   *)
(*   "dead"   finished, not yet deleted                                    *)
(*                                                                         *)
(* Simulated time is abstracted: a pending interrupt may fire at any       *)
(* OneTick, and at any Idle.                                               *)
(***************************************************************************)
EXTENDS Integers, Sequences, FiniteSets

CONSTANTS
  Threads,       \* the Thread objects that may exist
  Main,          \* the thread Initialize() creates for main()
  UserThreads,   \* the threads that run a user program
  Sems,          \* the semaphores
  Devices,       \* devices whose interrupt handler calls V
  NULL,
  InitialValue,  \* the value each semaphore is constructed with
  DeviceSem,     \* the semaphore a device's handler calls V on
  TimeSlice,     \* TRUE iff Nachos runs with -rs, which starts the timer
  MaxValue       \* bound: no thread calls V on a semaphore of this value

ASSUME KernelAssumption ==
  /\ Main \in Threads
  /\ UserThreads \subseteq Threads
  /\ IsFiniteSet(Threads)
  /\ NULL \notin Threads \cup Sems
  /\ InitialValue \in [Sems -> Nat]
  /\ DeviceSem \in [Devices -> Sems]
  /\ TimeSlice \in BOOLEAN
  /\ MaxValue \in Nat

VARIABLES
  currentThread, status, readyList, threadToBeDestroyed,
  pc,             \* where each thread is
  sem,            \* the semaphore each thread is inside P() on, or NULL
  value, queue,   \* the two fields of each Semaphore
  pending,        \* devices with an interrupt scheduled
  yieldOnReturn, halted,
  space,          \* threads with an address space: those that run user code
  registers,      \* the user state now in the machine: owner and version
  pageTable,      \* owner of the page table now in the machine
  userRegisters,  \* the user state each thread saved when it was switched out
  userState       \* history: the version each user program has computed

semVars    == <<value, queue>>
intVars    == <<pending, yieldOnReturn, halted>>
userVars   == <<space, registers, pageTable, userRegisters, userState>>
vars       == <<currentThread, status, readyList, threadToBeDestroyed, pc,
                sem, semVars, intVars, userVars>>

Elems(q) == {q[i] : i \in DOMAIN q}

Places == {"none", "new", "user", "tick", "P", "sleep", "idle", "dead"}

Context == (Threads \cup {NULL}) \X {0, 1}

TypeOK ==
  /\ currentThread \in Threads
  /\ status \in [Threads -> {"NONE", "RUNNING", "READY", "BLOCKED"}]
  /\ readyList \in Seq(Threads)
  /\ threadToBeDestroyed \in Threads \cup {NULL}
  /\ pc \in [Threads -> Places]
  /\ sem \in [Threads -> Sems \cup {NULL}]
  /\ value \in [Sems -> Nat]
  /\ queue \in [Sems -> Seq(Threads)]
  /\ pending \in SUBSET Devices
  /\ yieldOnReturn \in BOOLEAN
  /\ halted \in BOOLEAN
  /\ space \in SUBSET Threads
  /\ registers \in Context
  /\ pageTable \in Threads \cup {NULL}
  /\ userRegisters \in [Threads -> Context]
  /\ userState \in [Threads -> {0, 1}]

(* Initialize(): main's thread runs, and interrupts have been enabled.     *)
Init ==
  /\ currentThread = Main
  /\ status = [t \in Threads |-> IF t = Main THEN "RUNNING" ELSE "NONE"]
  /\ readyList = <<>>
  /\ threadToBeDestroyed = NULL
  /\ pc = [t \in Threads |-> IF t = Main THEN "tick" ELSE "none"]
  /\ sem = [t \in Threads |-> NULL]
  /\ value = InitialValue
  /\ queue = [s \in Sems |-> <<>>]
  /\ pending = {}
  /\ yieldOnReturn = FALSE
  /\ halted = FALSE
  /\ space = {}
  /\ registers = <<NULL, 0>>
  /\ pageTable = NULL
  /\ userRegisters = [t \in Threads |-> <<NULL, 0>>]
  /\ userState = [t \in Threads |-> 0]

-----------------------------------------------------------------------------
(* Scheduling.                                                             *)

At(place) == ~halted /\ pc[currentThread] = place

(* SetLevel(IntOn) calls OneTick: that is Goto("tick").                    *)
Goto(place) == pc' = [pc EXCEPT ![currentThread] = place]

(* Mutant of Bury: the thread switched from is deleted in its place.       *)
BuryOldThread(f, gone) ==
  IF threadToBeDestroyed = NULL THEN f ELSE [f EXCEPT ![currentThread] = gone]

(* `delete threadToBeDestroyed', seen by a function f on threads.          *)
Bury(f, gone) ==
  IF threadToBeDestroyed = NULL
  THEN f
  ELSE [f EXCEPT ![threadToBeDestroyed] = gone]

(* Mutant of RestoreUserState: the page table is not restored.             *)
RestoreRegistersOnly(next) ==
  /\ registers' = IF next \in space THEN userRegisters'[next] ELSE registers
  /\ UNCHANGED pageTable

(* Thread::SaveUserState, and RestoreUserState with AddrSpace::RestoreState *)
(* (SaveState does nothing).                                               *)
SaveUserState ==
  userRegisters' = IF currentThread \in space
                   THEN [userRegisters EXCEPT ![currentThread] = registers]
                   ELSE userRegisters

RestoreUserState(next) ==
  IF next \in space
  THEN registers' = userRegisters'[next] /\ pageTable' = next
  ELSE UNCHANGED <<registers, pageTable>>

(* Where Thread::StackAllocate lets a thread start: in ThreadRoot, which   *)
(* first enables interrupts.                                               *)
ThreadRoot(next, pcs, st) ==
  /\ pc' = [pcs EXCEPT ![next] = "tick"]
  /\ status' = [st EXCEPT ![next] = "RUNNING"]
  /\ UNCHANGED <<threadToBeDestroyed, space, registers, pageTable>>

(* Scheduler::Run(next), once its caller has left the ready list rl and    *)
(* the statuses st; the old thread will continue at `back'.  A thread that *)
(* has never run does not execute what follows SWITCH: deleting the        *)
(* finished thread and restoring the user state.                           *)
Run(next, rl, st, back) ==
  LET pcs == [pc EXCEPT ![currentThread] = back]
  IN  /\ currentThread' = next
      /\ readyList' = rl
      /\ SaveUserState
      /\ IF pcs[next] = "new"
         THEN ThreadRoot(next, pcs, st)
         ELSE /\ pc' = Bury(pcs, "none")
              /\ status' = Bury([st EXCEPT ![next] = "RUNNING"], "NONE")
              /\ space' = space \ {threadToBeDestroyed}
              /\ threadToBeDestroyed' = NULL
              /\ RestoreUserState(next)
      /\ UNCHANGED <<sem, semVars, pending, halted, userState>>

(* Mutant of YieldCPU: the thread goes to the front of the ready list.     *)
YieldToFront ==
  IF readyList = <<>>
  THEN /\ Goto("tick")
       /\ UNCHANGED <<currentThread, status, readyList, threadToBeDestroyed,
                      sem, semVars, pending, halted, userVars>>
  ELSE Run(Head(readyList), <<currentThread>> \o Tail(readyList),
           [status EXCEPT ![currentThread] = "READY"], "tick")

(* The rest of Thread::Yield.  Both ways it ends by enabling interrupts,   *)
(* now or when this thread is dispatched again.                            *)
YieldCPU ==
  IF readyList = <<>>
  THEN /\ Goto("tick")
       /\ UNCHANGED <<currentThread, status, readyList, threadToBeDestroyed,
                      sem, semVars, pending, halted, userVars>>
  ELSE Run(Head(readyList), Append(Tail(readyList), currentThread),
           [status EXCEPT ![currentThread] = "READY"], "tick")

(* Thread::Yield called by the thread itself.                              *)
Yield == At("user") /\ YieldCPU /\ UNCHANGED yieldOnReturn

(* `new Thread' followed by Thread::Fork.                                  *)
Fork(t) ==
  /\ At("user")
  /\ pc[t] = "none"
  /\ pc' = [pc EXCEPT ![t] = "new", ![currentThread] = "tick"]
  /\ status' = [status EXCEPT ![t] = "READY"]
  /\ readyList' = Append(readyList, t)
  /\ UNCHANGED <<currentThread, threadToBeDestroyed, sem, semVars, intVars,
                 userVars>>

(* Thread::Finish, up to the loop of Thread::Sleep.                        *)
Finish ==
  /\ At("user")
  /\ threadToBeDestroyed' = currentThread
  /\ status' = [status EXCEPT ![currentThread] = "BLOCKED"]
  /\ Goto("sleep")
  /\ UNCHANGED <<currentThread, readyList, sem, semVars, intVars, userVars>>

(* The loop of Thread::Sleep finds a thread to run.  A thread that sleeps  *)
(* outside P() is finishing and never continues.                           *)
Sleep ==
  /\ At("sleep")
  /\ readyList # <<>>
  /\ Run(Head(readyList), Tail(readyList), status,
         IF sem[currentThread] = NULL THEN "dead" ELSE "P")
  /\ UNCHANGED yieldOnReturn

-----------------------------------------------------------------------------
(* Semaphores.                                                             *)

(* One pass through the loop of Semaphore::P: consume the value, or join   *)
(* the queue and enter Thread::Sleep.                                      *)
TryP(s) ==
  /\ IF value[s] = 0
     THEN /\ queue' = [queue EXCEPT ![s] = Append(@, currentThread)]
          /\ status' = [status EXCEPT ![currentThread] = "BLOCKED"]
          /\ sem' = [sem EXCEPT ![currentThread] = s]
          /\ Goto("sleep")
          /\ UNCHANGED value
     ELSE /\ value' = [value EXCEPT ![s] = @ - 1]
          /\ sem' = [sem EXCEPT ![currentThread] = NULL]
          /\ Goto("tick")
          /\ UNCHANGED <<queue, status>>
  /\ UNCHANGED <<currentThread, readyList, threadToBeDestroyed, intVars,
                 userVars>>

P(s) == At("user") /\ TryP(s)

(* Mutant of ResumeP: `if' in place of the `while' of P().                 *)
ResumeWithoutTest ==
  /\ At("P")
  /\ value' = [value EXCEPT ![sem[currentThread]] = @ - 1]
  /\ sem' = [sem EXCEPT ![currentThread] = NULL]
  /\ Goto("tick")
  /\ UNCHANGED <<queue, status, currentThread, readyList, threadToBeDestroyed,
                 intVars, userVars>>

(* A thread dispatched inside P() tests the value again.                   *)
ResumeP == At("P") /\ TryP(sem[currentThread])

(* Mutants of Release: the waiter stays on the queue; a waiter is woken    *)
(* only when the value was 0; no waiter is woken.                          *)
ReleaseWithoutRemove(s) ==
  /\ value' = [value EXCEPT ![s] = @ + 1]
  /\ UNCHANGED queue
  /\ IF queue[s] = <<>>
     THEN UNCHANGED <<status, readyList>>
     ELSE /\ status' = [status EXCEPT ![Head(queue[s])] = "READY"]
          /\ readyList' = Append(readyList, Head(queue[s]))

ReleaseFromZero(s) ==
  /\ value' = [value EXCEPT ![s] = @ + 1]
  /\ IF queue[s] = <<>> \/ value[s] > 0
     THEN UNCHANGED <<queue, status, readyList>>
     ELSE /\ queue' = [queue EXCEPT ![s] = Tail(@)]
          /\ status' = [status EXCEPT ![Head(queue[s])] = "READY"]
          /\ readyList' = Append(readyList, Head(queue[s]))

ReleaseWithoutWakeup(s) ==
  /\ value' = [value EXCEPT ![s] = @ + 1]
  /\ UNCHANGED <<queue, status, readyList>>

(* Semaphore::V: wake the longest waiter, if any, and increment the value. *)
Release(s) ==
  /\ value' = [value EXCEPT ![s] = @ + 1]
  /\ IF queue[s] = <<>>
     THEN UNCHANGED <<queue, status, readyList>>
     ELSE /\ queue' = [queue EXCEPT ![s] = Tail(@)]
          /\ status' = [status EXCEPT ![Head(queue[s])] = "READY"]
          /\ readyList' = Append(readyList, Head(queue[s]))

V(s) ==
  /\ At("user")
  /\ value[s] < MaxValue
  /\ Release(s)
  /\ Goto("tick")
  /\ UNCHANGED <<currentThread, threadToBeDestroyed, sem, intVars, userVars>>

-----------------------------------------------------------------------------
(* Interrupts.                                                             *)

(* A thread starts an operation of device d, which calls Schedule.         *)
Schedule(d) ==
  /\ At("user")
  /\ d \notin pending
  /\ value[DeviceSem[d]] < MaxValue
  /\ pending' = pending \cup {d}
  /\ UNCHANGED <<currentThread, status, readyList, threadToBeDestroyed, pc,
                 sem, semVars, yieldOnReturn, halted, userVars>>

(* CheckIfDue runs an interrupt handler: a device's, which calls V, or the *)
(* timer's, which asks for a context switch and schedules the next timer   *)
(* interrupt at a later tick.                                              *)
DeviceHandler(d) ==
  /\ d \in pending
  /\ pending' = pending \ {d}
  /\ Release(DeviceSem[d])
  /\ UNCHANGED yieldOnReturn

TimerHandler ==
  /\ TimeSlice
  /\ ~yieldOnReturn
  /\ yieldOnReturn' = TRUE
  /\ UNCHANGED <<pending, status, readyList, semVars>>

CheckIfDueRest ==
  UNCHANGED <<currentThread, threadToBeDestroyed, sem, halted, userVars>>

DeviceTick(d) == At("tick") /\ DeviceHandler(d) /\ CheckIfDueRest /\ UNCHANGED pc

TimerTick == At("tick") /\ TimerHandler /\ CheckIfDueRest /\ UNCHANGED pc

(* OneTick finds nothing more due, and yields if a handler asked it to.    *)
EndTick ==
  /\ At("tick")
  /\ yieldOnReturn' = FALSE
  /\ IF yieldOnReturn
     THEN YieldCPU
     ELSE /\ Goto("user")
          /\ UNCHANGED <<currentThread, status, readyList, threadToBeDestroyed,
                         sem, semVars, pending, halted, userVars>>

(* Interrupt::Idle, called when no thread is ready, advances the clock to  *)
(* the first pending interrupt and then runs every other one that is due.  *)
Idling == At("idle") \/ (At("sleep") /\ readyList = <<>>)

DeviceIdle(d) == Idling /\ DeviceHandler(d) /\ Goto("idle") /\ CheckIfDueRest

TimerIdle ==
  Idling /\ pending # {} /\ TimerHandler /\ Goto("idle") /\ CheckIfDueRest

EndIdle ==
  /\ At("idle")
  /\ yieldOnReturn' = FALSE
  /\ Goto("sleep")
  /\ UNCHANGED <<currentThread, status, readyList, threadToBeDestroyed, sem,
                 semVars, pending, halted, userVars>>

(* Idle with nothing pending but the timer, or the Halt system call.       *)
Halt ==
  /\ \/ At("user")
     \/ At("sleep") /\ readyList = <<>> /\ pending = {}
  /\ halted' = TRUE
  /\ UNCHANGED <<currentThread, status, readyList, threadToBeDestroyed, pc,
                 sem, semVars, pending, yieldOnReturn, userVars>>

-----------------------------------------------------------------------------
(* User programs.                                                          *)

(* StartProcess: the thread gets an address space and loads the registers. *)
StartProcess ==
  /\ At("user")
  /\ currentThread \in UserThreads \ space
  /\ space' = space \cup {currentThread}
  /\ userState' = [userState EXCEPT ![currentThread] = 0]
  /\ registers' = <<currentThread, 0>>
  /\ pageTable' = currentThread
  /\ UNCHANGED <<currentThread, status, readyList, threadToBeDestroyed, pc,
                 sem, semVars, intVars, userRegisters>>

(* Machine::Run executes one instruction, then calls OneTick.              *)
UserInstruction ==
  /\ At("user")
  /\ currentThread \in space
  /\ registers' = <<registers[1], 1 - registers[2]>>
  /\ userState' = [userState EXCEPT ![currentThread] = 1 - @]
  /\ Goto("tick")
  /\ UNCHANGED <<currentThread, status, readyList, threadToBeDestroyed, sem,
                 semVars, intVars, space, pageTable, userRegisters>>

-----------------------------------------------------------------------------
(* The machine has halted and stays so.                                    *)
Halted == halted /\ UNCHANGED vars

Step ==
  \/ \E t \in Threads : Fork(t)
  \/ \E s \in Sems : P(s) \/ V(s)
  \/ \E d \in Devices : Schedule(d) \/ DeviceTick(d) \/ DeviceIdle(d)
  \/ Yield \/ Finish \/ Sleep \/ ResumeP
  \/ TimerTick \/ EndTick \/ TimerIdle \/ EndIdle \/ Halt
  \/ StartProcess \/ UserInstruction

Next == Step \/ Halted

Spec == Init /\ [][Next]_vars

(* The processor never stops before Halt.  Every OneTick advances the      *)
(* clock, so a scheduled interrupt comes due after finitely many of them;  *)
(* so it does when the machine idles again and again.                      *)
Fairness ==
  /\ WF_vars(Next)
  /\ SF_vars(TimerTick)
  /\ \A d \in Devices : SF_vars(DeviceTick(d)) /\ SF_vars(DeviceIdle(d))

FairSpec == Spec /\ Fairness

-----------------------------------------------------------------------------
(* Properties.                                                             *)

NoDuplicates(q) == \A i, j \in DOMAIN q : q[i] = q[j] => i = j

(* A thread is in exactly one place, and its status says which: READY on   *)
(* the ready list, BLOCKED on the queue of the semaphore it waits for, or  *)
(* RUNNING on the processor.  Every V, dispatch, handler and fork moves a  *)
(* thread between these lists.                                             *)
ThreadPlacement ==
  /\ NoDuplicates(readyList)
  /\ \A s \in Sems : NoDuplicates(queue[s])
  /\ \A t \in Threads :
       /\ t \in Elems(readyList) <=> status[t] = "READY"
       /\ \A s \in Sems : t \in Elems(queue[s])
                           <=> status[t] = "BLOCKED" /\ sem[t] = s
       /\ status[t] = "RUNNING" <=> /\ t = currentThread
                                   /\ pc[t] \notin {"sleep", "idle"}

(* The threads inside P(s) that a V has taken off the queue of s.          *)
Woken(s) == {t \in Threads : sem[t] = s /\ t \notin Elems(queue[s])}

(* No wakeup is lost: while threads sleep on a semaphore, each unit of its *)
(* value has a thread of its own that was woken to take it.  P() tests the *)
(* value again after sleeping and V() increments it even when it wakes a   *)
(* thread, so the value alone does not say this.                           *)
NoLostWakeup ==
  \A s \in Sems : queue[s] # <<>> => value[s] <= Cardinality(Woken(s))

(* The semaphores keep their promise: every step that changes a value, or  *)
(* lets a thread into or out of P(), is a step of the atomic counting      *)
(* semaphore, in which a waiting thread proceeds only by taking a unit.    *)
Abstract == INSTANCE CountingSemaphore WITH waits <- sem

ImplementsCountingSemaphore == Abstract!Spec

(* A thread with an address space finds in the machine, whenever it has    *)
(* the processor, the registers and the page table it last had there:      *)
(* Scheduler::Run saves and restores them around every switch.             *)
UserContextPreserved ==
  \A t \in space :
    IF t = currentThread
    THEN registers = <<t, userState[t]>> /\ pageTable = t
    ELSE userRegisters[t] = <<t, userState[t]>>

(* Scheduler::Run deletes a Thread only after it called Finish, and the    *)
(* deleted thread is not the one running (the ASSERT of ~Thread), nor is   *)
(* it left on the ready list or a semaphore's queue.                       *)
DeletedOnlyWhenDone ==
  [][\A t \in Threads : status[t] # "NONE" /\ status'[t] = "NONE" =>
       /\ t = threadToBeDestroyed
       /\ t # currentThread'
       /\ t \notin Elems(readyList')
       /\ \A s \in Sems : t \notin Elems(queue'[s])]_vars

(* The comment of Thread::Finish says that a finished thread is recorded   *)
(* "so that Scheduler::Run() will call the destructor".                    *)
FinishedWillBeDestroyed ==
  \A t \in Threads : pc[t] = "dead" => threadToBeDestroyed = t

(* Where a thread is agrees with its status, with the semaphore it is in   *)
(* P() on, and with whether it has finished.                               *)
PlaceConsistent ==
  /\ pc[currentThread] \in {"user", "tick", "P", "sleep", "idle"}
  /\ \A t \in Threads :
       /\ pc[t] = "none" <=> status[t] = "NONE"
       /\ pc[t] \in {"user", "sleep", "idle"} => t = currentThread
       /\ pc[t] \in {"sleep", "idle"} /\ sem[t] = NULL => status[t] = "BLOCKED"
       /\ pc[t] = "dead" => status[t] = "BLOCKED" /\ sem[t] = NULL
       /\ pc[t] = "new" => status[t] = "READY"
       /\ pc[t] = "P" => sem[t] # NULL
       /\ sem[t] # NULL => pc[t] \in {"P", "sleep", "idle"}
       /\ t = threadToBeDestroyed => /\ pc[t] \in {"sleep", "idle", "dead"}
                                     /\ status[t] = "BLOCKED"
                                     /\ sem[t] = NULL

(* The inductive invariant behind ThreadPlacement and NoLostWakeup.        *)
IInv == TypeOK /\ PlaceConsistent /\ ThreadPlacement /\ NoLostWakeup

(* A thread that has not run yet, or is deleted, has no address space;     *)
(* with IInv, this makes UserContextPreserved inductive.                   *)
UserInv ==
  UserContextPreserved /\ \A t \in space : pc[t] \notin {"none", "new"}

(* Under -rs every ready thread gets the processor: Yield puts the running *)
(* thread behind those that wait, and the timer forces it to yield.        *)
ReadyThreadRuns ==
  \A t \in Threads : t \in Elems(readyList) ~> currentThread = t \/ halted

(* A semaphore does not stay available while threads sleep on it.          *)
AvailableIsTaken ==
  \A s \in Sems : value[s] > 0 /\ queue[s] # <<>>
                   ~> value[s] = 0 \/ queue[s] = <<>> \/ halted

=============================================================================
