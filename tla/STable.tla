------------------------------- MODULE STable -------------------------------
(***************************************************************************)
(* The named semaphores of user programs: STable and the system calls      *)
(* CreateSemaphore, Wait and Signal.  Each call finds its semaphore and    *)
(* reaches the test of Semaphore::P, or ends, without giving the processor *)
(* up.  P and V are those of the atomic semaphore that module Kernel       *)
(* implements; P waits for a value other than zero.                        *)
(*                                                                         *)
(* Sem copies the name to name[50], which the compiler pads to 52 bytes,   *)
(* and then stores its pointer behind it.  A name of 51 characters at most *)
(* is kept.  The end of a longer one, LongNames, is overwritten by the     *)
(* pointer, so that what the slot holds is another string as long.  Names  *)
(* of more than 55 characters, which overrun the object, are not modelled. *)
(***************************************************************************)
EXTENDS BitMap

CONSTANTS
  Callers,         \* the processes
  LongNames,       \* strings of 52 characters or more
  MAX_SEMAPHORE    \* 10 in stable.h

ASSUME STableAssumption == MAX_SEMAPHORE \in Nat

VARIABLES
  bm,       \* the bitmap of slots in use
  semTab,   \* the Sem each slot points to, or NoSem
  inside    \* the slot each process is inside P() on, or -1

semVars == <<bm, semTab, inside>>

NoSem == [name |-> "", value |-> 0]

(* The object that Sem's constructor can leave.                            *)
Sem(na, i) ==
  [name : IF na \in LongNames THEN LongNames ELSE {na}, value : {i}]

SemInit ==
  /\ bm = Clean
  /\ semTab = [i \in 0..(MAX_SEMAPHORE - 1) |-> NoSem]
  /\ inside = [p \in Callers |-> -1]

(* The slot whose semaphore has this name, or -1.                          *)
Lookup(name) ==
  IF \E i \in bm : semTab[i].name = name
  THEN CHOOSE i \in bm : /\ semTab[i].name = name
                         /\ \A j \in bm : semTab[j].name = name => i <= j
  ELSE -1

(* Mutant of Create: an existing name is not refused.                      *)
CreateAgain(name, init) ==
  LET pid == FindBit(bm, MAX_SEMAPHORE)
  IN  IF pid = -1
      THEN UNCHANGED semVars
      ELSE /\ bm' = Mark(bm, pid)
           /\ \E s \in Sem(name, init) : semTab' = [semTab EXCEPT ![pid] = s]
           /\ UNCHANGED inside

Create(name, init) ==
  LET pid == FindBit(bm, MAX_SEMAPHORE)
  IN  IF Lookup(name) # -1 \/ pid = -1
      THEN UNCHANGED semVars
      ELSE /\ bm' = Mark(bm, pid)
           /\ \E s \in Sem(name, init) : semTab' = [semTab EXCEPT ![pid] = s]
           /\ UNCHANGED inside

CreateResult(name) ==
  IF Lookup(name) # -1 \/ FindBit(bm, MAX_SEMAPHORE) = -1 THEN -1 ELSE 0

(* STable::Wait, up to the loop of Semaphore::P, and the end of that loop. *)
Wait(p, name) ==
  /\ inside' = [inside EXCEPT ![p] = Lookup(name)]
  /\ UNCHANGED <<bm, semTab>>

Proceed(p) ==
  /\ inside[p] # -1
  /\ semTab[inside[p]].value # 0
  /\ semTab' = [semTab EXCEPT ![inside[p]].value = @ - 1]
  /\ inside' = [inside EXCEPT ![p] = -1]
  /\ UNCHANGED bm

Signal(name) ==
  /\ semTab' = IF Lookup(name) = -1 THEN semTab
               ELSE [semTab EXCEPT ![Lookup(name)].value = @ + 1]
  /\ UNCHANGED <<bm, inside>>

LookupResult(name) == IF Lookup(name) = -1 THEN -1 ELSE 0

-----------------------------------------------------------------------------
(* Properties.                                                             *)

(* Every semaphore that was created with a name that Sem can hold is found *)
(* by its name, and no other one is; so processes that wait for a name     *)
(* wait for the same semaphore, whatever longer names others use.          *)
SemaphoresNamed ==
  /\ \A i \in bm : semTab[i].name \notin LongNames => Lookup(semTab[i].name) = i
  /\ \A i \in (0..(MAX_SEMAPHORE - 1)) \ bm : semTab[i] = NoSem

=============================================================================
