------------------------------ MODULE ProcTable ------------------------------
(***************************************************************************)
(* The process table: the system calls Exec, Join and Exit, as PTable and  *)
(* PCB implement them with one semaphore for loading (bmsem) and three per *)
(* process (joinsem, exitsem, multex).                                     *)
(*                                                                         *)
(* A process may lose the processor wherever the kernel re-enables         *)
(* interrupts, that is, at the end of every P, V and Fork; the code        *)
(* between two of these is one action.  P and V are those of the atomic    *)
(* counting semaphore, which the thread kernel implements.  pc[p] names    *)
(* what process p does next:                                               *)
(*                                                                         *)
(*   "none"   slot never used              "start"   StartProcess_2        *)
(*   "user"   running its program                                          *)
(*   Exec:    "exec"    bmsem->P()         "loaded"  multex->V()           *)
(*            "load"    up to multex->P()  "unlock"  bmsem->V()            *)
(*            "fork"    thread->Fork()                                     *)
(*   Join:    "inc"     multex->P()        "wait"    joinsem->P()          *)
(*            "incV"    ++, multex->V()    "read"    exitsem->V()          *)
(*   Exit:    "dec"     parent's multex->P()                               *)
(*            "decV"    --, multex->V()    "exitP"   exitsem->P()          *)
(*            "joinV"   joinsem->V()       "remove"  Remove()              *)
(*            "gone"    inside Thread::Finish, which does not return       *)
(***************************************************************************)
EXTENDS Integers, FiniteSets

CONSTANTS
  psize,         \* size of the table: 10 in Initialize()
  Codes,         \* the exit codes programs use
  Garbage,       \* what the uninitialised field numwait may hold
  NULL

ASSUME ProcTableAssumption ==
  /\ psize \in Nat \ {0}
  /\ Codes \subseteq Int
  /\ Garbage \subseteq Nat /\ Garbage # {}
  /\ NULL \notin Int

Pids == 0 .. psize - 1

Sems == ({"joinsem", "exitsem", "multex"} \X Pids) \cup {<<"bmsem", 0>>}

VARIABLES
  pcb,       \* the slots that are not NULL
  parentID, exitcode, numwait,
  value,     \* the values of the semaphores
  deleted,   \* processes whose destructor ~PCB has deleted the semaphores
  pc,
  arg,       \* the process a Join waits for, or an Exec creates
  ret,       \* what the last system call returned (register 2)
  halted,
  fault,     \* a process has used a deleted semaphore
  exited,    \* history: the argument of Exit, or NULL
  joined,    \* history: the children that were given to Join
  orderly    \* history: no program has joined a child twice, or exited with
             \* a child it had not joined

pcbVars == <<pcb, parentID, exitcode, numwait>>
history == <<exited, joined, orderly>>
vars    == <<pcbVars, value, deleted, pc, arg, ret, halted, fault, history>>

Places == {"none", "start", "user", "exec", "load", "fork", "loaded", "unlock",
           "inc", "incV", "wait", "read", "dec", "decV", "joinV", "exitP",
           "remove", "gone"}

TypeOK ==
  /\ pcb \in SUBSET Pids
  /\ parentID \in [Pids -> Pids \cup {-1}]
  /\ exitcode \in [Pids -> Codes \cup {NULL}]
  /\ numwait \in [Pids -> Nat]
  /\ value \in [Sems -> Nat]
  /\ deleted \in SUBSET pcb
  /\ pc \in [Pids -> Places]
  /\ arg \in [Pids -> Pids]
  /\ ret \in [Pids -> Codes \cup Pids \cup {-1, NULL}]
  /\ halted \in BOOLEAN /\ fault \in BOOLEAN
  /\ exited \in [Pids -> Codes \cup {NULL}]
  /\ joined \in SUBSET Pids /\ orderly \in BOOLEAN

(* PTable(psize): slot 0 is the program given to -x.                       *)
Init ==
  /\ pcb = {0}
  /\ parentID = [p \in Pids |-> -1]
  /\ exitcode = [p \in Pids |-> NULL]
  /\ \E g \in Garbage : numwait = [p \in Pids |-> IF p = 0 THEN g ELSE 0]
  /\ value = [s \in Sems |-> IF s = <<"bmsem", 0>> \/ s = <<"multex", 0>>
                             THEN 1 ELSE 0]
  /\ deleted = {}
  /\ pc = [p \in Pids |-> IF p = 0 THEN "user" ELSE "none"]
  /\ arg = [p \in Pids |-> p]
  /\ ret = [p \in Pids |-> NULL]
  /\ halted = FALSE /\ fault = FALSE
  /\ exited = [p \in Pids |-> NULL]
  /\ joined = {} /\ orderly = TRUE

-----------------------------------------------------------------------------
(* Helpers.                                                                *)

bmsem      == <<"bmsem", 0>>
joinsem(p) == <<"joinsem", p>>
exitsem(p) == <<"exitsem", p>>
multex(p)  == <<"multex", p>>

Running == ~halted /\ ~fault

At(p, place) == Running /\ pc[p] = place

Goto(p, place) == pc' = [pc EXCEPT ![p] = place]

Return(p, v) == ret' = [ret EXCEPT ![p] = v] /\ Goto(p, "user")

(* A program puts the number of the call in register 2.                    *)
Call(p, place) == ret' = [ret EXCEPT ![p] = NULL] /\ Goto(p, place)

P(s) == value[s] > 0 /\ value' = [value EXCEPT ![s] = @ - 1]

V(s) == value' = [value EXCEPT ![s] = @ + 1]

(* A semaphore of a process whose PCB has been destroyed.                  *)
Dangling(s) == s[1] # "bmsem" /\ s[2] \in deleted

Children(p) == {c \in pcb : parentID[c] = p}
-----------------------------------------------------------------------------
(* Exec.                                                                   *)

(* Exception_Exec.  It returns -1 at once if the file does not open.       *)
Exec(p) ==
  /\ At(p, "user")
  /\ Call(p, "exec")
  /\ UNCHANGED <<pcbVars, value, deleted, arg, halted, fault, history>>

ExecNoFile(p) ==
  /\ At(p, "user")
  /\ Return(p, -1)
  /\ UNCHANGED <<pcbVars, value, deleted, arg, halted, fault, history>>

ExecLock(p) ==
  /\ At(p, "exec")
  /\ P(bmsem)
  /\ Goto(p, "load")
  /\ UNCHANGED <<pcbVars, deleted, arg, ret, halted, fault, history>>

(* Mutant of LoadFails: the error path keeps bmsem.                        *)
LoadFailsLocked(p) ==
  /\ At(p, "load")
  /\ Return(p, -1)
  /\ UNCHANGED <<pcbVars, value, deleted, arg, halted, fault, history>>

(* The program does not open, or has the name of the running thread.  The  *)
(* latter holds no more than the address of the name Exec was given, which *)
(* Exception_Exec has freed, so the comparison may come out either way.    *)
(* The other failure is a full table.                                      *)
LoadFails(p) ==
  /\ At(p, "load")
  /\ V(bmsem)
  /\ Return(p, -1)
  /\ UNCHANGED <<pcbVars, deleted, arg, halted, fault, history>>

GetFreeSlot == CHOOSE i \in Pids \ pcb : \A j \in Pids \ pcb : i <= j

(* Mutant of NewSemaphores: joinsem starts at 1.                           *)
NewSemaphoresJoinable(index) ==
  [value EXCEPT ![joinsem(index)] = 1, ![exitsem(index)] = 0, ![multex(index)] = 0]

(* The semaphores of a new PCB, once multex (initially 1) has been taken.  *)
NewSemaphores(index) ==
  [value EXCEPT ![joinsem(index)] = 0, ![exitsem(index)] = 0, ![multex(index)] = 0]

(* A new PCB in the first free slot, and PCB::Exec up to multex->P().      *)
Load(p) ==
  /\ At(p, "load")
  /\ Pids # pcb
  /\ LET index == GetFreeSlot
     IN  /\ pcb' = pcb \cup {index}
         /\ parentID' = [parentID EXCEPT ![index] = p]
         /\ \E g \in Garbage : numwait' = [numwait EXCEPT ![index] = g]
         /\ value' = NewSemaphores(index)
         /\ arg' = [arg EXCEPT ![p] = index]
  /\ Goto(p, "fork")
  /\ UNCHANGED <<exitcode, deleted, ret, halted, fault, history>>

Fork(p) ==
  /\ At(p, "fork")
  /\ pc' = [pc EXCEPT ![p] = "loaded", ![arg[p]] = "start"]
  /\ UNCHANGED <<pcbVars, value, deleted, arg, ret, halted, fault, history>>

Loaded(p) ==
  /\ At(p, "loaded")
  /\ V(multex(arg[p]))
  /\ Goto(p, "unlock")
  /\ UNCHANGED <<pcbVars, deleted, arg, ret, halted, fault, history>>

ExecUnlock(p) ==
  /\ At(p, "unlock")
  /\ V(bmsem)
  /\ Return(p, arg[p])
  /\ UNCHANGED <<pcbVars, deleted, arg, halted, fault, history>>

(* StartProcess_2 loads the program and jumps to it.  When too few frames  *)
(* are left the address space is empty, the first instruction fetch raises *)
(* AddressErrorException, and ExceptionHandler halts the machine.          *)
Start(p) ==
  /\ At(p, "start")
  /\ Goto(p, "user")
  /\ UNCHANGED <<pcbVars, value, deleted, arg, ret, halted, fault, history>>

StartOutOfMemory(p) ==
  /\ At(p, "start")
  /\ halted' = TRUE
  /\ UNCHANGED <<pcbVars, value, deleted, pc, arg, ret, fault, history>>

-----------------------------------------------------------------------------
(* Join.                                                                   *)

(* JoinUpdate accepts only a child of the caller.  The PCB of a process    *)
(* that has been removed still passes the test: it is never freed, because *)
(* its destructor does not return.                                         *)
CanJoin(p, pid) == pid \in pcb /\ parentID[pid] = p

JoinFails(p, pid) ==
  /\ At(p, "user")
  /\ ~CanJoin(p, pid)
  /\ Return(p, -1)
  /\ UNCHANGED <<pcbVars, value, deleted, arg, halted, fault, history>>

Join(p, pid) ==
  /\ At(p, "user")
  /\ CanJoin(p, pid)
  /\ orderly' = (orderly /\ pid \notin joined)
  /\ joined' = joined \cup {pid}
  /\ arg' = [arg EXCEPT ![p] = pid]
  /\ Call(p, "inc")
  /\ UNCHANGED <<pcbVars, value, deleted, halted, fault, exited>>

IncNumWait(p) ==
  /\ At(p, "inc")
  /\ P(multex(p))
  /\ Goto(p, "incV")
  /\ UNCHANGED <<pcbVars, deleted, arg, ret, halted, fault, history>>

IncNumWaitDone(p) ==
  /\ At(p, "incV")
  /\ numwait' = [numwait EXCEPT ![p] = @ + 1]
  /\ V(multex(p))
  /\ Goto(p, "wait")
  /\ UNCHANGED <<pcb, parentID, exitcode, deleted, arg, ret, halted, fault,
                 history>>

JoinWait(p) ==
  /\ At(p, "wait")
  /\ ~Dangling(joinsem(arg[p]))
  /\ P(joinsem(arg[p]))
  /\ Goto(p, "read")
  /\ UNCHANGED <<pcbVars, deleted, arg, ret, halted, fault, history>>

(* Mutant of ExitRelease: the child is not allowed to leave.               *)
ReadWithoutRelease(p) ==
  /\ At(p, "read")
  /\ Return(p, exitcode[arg[p]])
  /\ UNCHANGED <<pcbVars, value, deleted, arg, halted, fault, history>>

(* GetExitCode, then ExitRelease.                                          *)
ExitRelease(p) ==
  /\ At(p, "read")
  /\ ~Dangling(exitsem(arg[p]))
  /\ V(exitsem(arg[p]))
  /\ Return(p, exitcode[arg[p]])
  /\ UNCHANGED <<pcbVars, deleted, arg, halted, fault, history>>
-----------------------------------------------------------------------------
(* Exit.                                                                   *)

(* Mutant of ExitUpdate: the parent is released before its numwait is      *)
(* decremented.                                                            *)
ExitUpdateReleasesFirst == <<"joinV", "dec", "decV", "exitP", "remove">>

(* DecNumWait, JoinRelease, ExitWait and Remove, in this order.            *)
ExitUpdate == <<"dec", "decV", "joinV", "exitP", "remove">>

After(place) == ExitUpdate[1 + CHOOSE i \in 1 .. 4 : ExitUpdate[i] = place]

(* The first program halts the machine.                                    *)
ExitMain ==
  /\ At(0, "user")
  /\ halted' = TRUE
  /\ UNCHANGED <<pcbVars, value, deleted, pc, arg, ret, fault, history>>

Exit(p, code) ==
  /\ At(p, "user")
  /\ p # 0
  /\ orderly' = (orderly /\ Children(p) \subseteq joined)
  /\ exitcode' = [exitcode EXCEPT ![p] = code]
  /\ exited' = [exited EXCEPT ![p] = code]
  /\ Call(p, ExitUpdate[1])
  /\ UNCHANGED <<pcb, parentID, numwait, value, deleted, arg, halted, fault,
                 joined>>

DecNumWait(p) ==
  /\ At(p, "dec")
  /\ ~Dangling(multex(parentID[p]))
  /\ P(multex(parentID[p]))
  /\ Goto(p, After("dec"))
  /\ UNCHANGED <<pcbVars, deleted, arg, ret, halted, fault, history>>

(* Mutant of DecNumWaitDone: a zero returns early.                         *)
DecReturnsLocked(p) ==
  LET parent == parentID[p]
  IN  /\ At(p, "decV")
      /\ ~Dangling(multex(parent))
      /\ IF numwait[parent] # 0
         THEN numwait' = [numwait EXCEPT ![parent] = @ - 1] /\ V(multex(parent))
         ELSE UNCHANGED <<numwait, value>>
      /\ Goto(p, After("decV"))
      /\ UNCHANGED <<pcb, parentID, exitcode, deleted, arg, ret, halted, fault,
                     history>>

DecNumWaitDone(p) ==
  LET parent == parentID[p]
  IN  /\ At(p, "decV")
      /\ ~Dangling(multex(parent))
      /\ numwait' = [numwait EXCEPT ![parent] = IF @ # 0 THEN @ - 1 ELSE @]
      /\ V(multex(parent))
      /\ Goto(p, After("decV"))
      /\ UNCHANGED <<pcb, parentID, exitcode, deleted, arg, ret, halted, fault,
                     history>>

(* Mutant of JoinRelease: the child does not wait for its parent.          *)
ReleaseWithoutExitWait(p) ==
  /\ At(p, "joinV")
  /\ V(joinsem(p))
  /\ Goto(p, After("exitP"))
  /\ UNCHANGED <<pcbVars, deleted, arg, ret, halted, fault, history>>

JoinRelease(p) ==
  /\ At(p, "joinV")
  /\ V(joinsem(p))
  /\ Goto(p, After("joinV"))
  /\ UNCHANGED <<pcbVars, deleted, arg, ret, halted, fault, history>>

ExitWait(p) ==
  /\ At(p, "exitP")
  /\ P(exitsem(p))
  /\ Goto(p, "remove")
  /\ UNCHANGED <<pcbVars, deleted, arg, ret, halted, fault, history>>

(* Remove deletes the PCB.  Its destructor deletes the semaphores and then *)
(* calls thread->Finish(), so the slot is never set to NULL.               *)
Remove(p) ==
  /\ At(p, "remove")
  /\ deleted' = deleted \cup {p}
  /\ Goto(p, "gone")
  /\ UNCHANGED <<pcbVars, value, arg, ret, halted, fault, history>>

-----------------------------------------------------------------------------
(* The semaphore of another process that p is about to use.                *)
Uses(p) ==
  CASE pc[p] = "loaded"          -> multex(arg[p])
    [] pc[p] = "wait"            -> joinsem(arg[p])
    [] pc[p] = "read"            -> exitsem(arg[p])
    [] pc[p] \in {"dec", "decV"} -> multex(parentID[p])
    [] OTHER                     -> bmsem

(* What follows the use of a deleted semaphore is undefined; the model     *)
(* stops there.                                                            *)
UseAfterDelete(p) ==
  /\ Running
  /\ Dangling(Uses(p))
  /\ fault' = TRUE
  /\ UNCHANGED <<pcbVars, value, deleted, pc, arg, ret, halted, history>>

Stopped == ~Running /\ UNCHANGED vars

(* The system calls a program makes.                                       *)
SystemCall(p) ==
  \/ Exec(p) \/ ExecNoFile(p)
  \/ \E pid \in Pids \cup {-1, psize} : JoinFails(p, pid)
  \/ \E pid \in Pids : Join(p, pid)
  \/ \E code \in Codes : Exit(p, code)

(* What the kernel then does for it.                                       *)
KernelStep(p) ==
  \/ ExecLock(p) \/ LoadFails(p) \/ Load(p) \/ Fork(p) \/ Loaded(p)
  \/ ExecUnlock(p) \/ Start(p) \/ StartOutOfMemory(p)
  \/ IncNumWait(p) \/ IncNumWaitDone(p) \/ JoinWait(p) \/ ExitRelease(p)
  \/ DecNumWait(p) \/ DecNumWaitDone(p) \/ JoinRelease(p) \/ ExitWait(p)
  \/ Remove(p) \/ UseAfterDelete(p)

Next ==
  \/ \E p \in Pids : SystemCall(p) \/ KernelStep(p)
  \/ ExitMain
  \/ Stopped

Spec == Init /\ [][Next]_vars

(* A thread that is ready gets the processor (under -rs), so a process     *)
(* inside a system call goes on.  Nothing is assumed of the programs.      *)
FairSpec == Spec /\ \A p \in Pids : WF_vars(KernelStep(p))

-----------------------------------------------------------------------------
(* Properties.                                                             *)

(* No process uses a semaphore of a PCB that has been destroyed.  ~PCB     *)
(* deletes them as soon as the parent allows the process to leave, while   *)
(* its children may still refer to its multex, its parent to its joinsem.  *)
NoUseAfterDelete == ~fault

(* It does not happen while every program joins each of its children once, *)
(* before it exits.                                                        *)
OrderlyIsSafe == orderly => ~fault

(* Join returns the value its child gave to Exit, and only after it did,   *)
(* however the two interleave.                                             *)
JoinReturnsExitCode ==
  [][\A p \in Pids : pc[p] = "read" /\ pc'[p] = "user" =>
       exited[arg[p]] \in Codes /\ ret'[p] = exited[arg[p]]]_vars

(* A process is destroyed only after a Join of it, and not while its       *)
(* parent is still to read its exit code: the destruction waits for the    *)
(* parent's ExitRelease, which comes after the reading.                    *)
ParentReadBeforeRemove ==
  \A p \in deleted : /\ p \in joined
                     /\ pc[parentID[p]] = "read" => arg[parentID[p]] # p

(* bmsem lets one process at a time load a program, on success and on      *)
(* every error path.                                                       *)
OneLoader ==
  /\ Cardinality({p \in Pids : pc[p] \in {"load", "fork", "loaded", "unlock"}})
       + value[bmsem] = 1

(* Among orderly programs a Join of a child that has called Exit returns,  *)
(* unless the machine halts first.                                         *)
JoinReturns ==
  \A p \in Pids :
    pc[p] \in {"inc", "incV", "wait", "read"} /\ exited[arg[p]] # NULL
      ~> pc[p] = "user" \/ ~Running \/ ~orderly

(* Among orderly programs a process that was given to Join and has called  *)
(* Exit is destroyed, unless the machine halts first.                      *)
ExitCompletes ==
  \A p \in Pids :
    exited[p] # NULL /\ p \in joined ~> pc[p] = "gone" \/ ~Running \/ ~orderly

=============================================================================
