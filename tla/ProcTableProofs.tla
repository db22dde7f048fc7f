-------------------------- MODULE ProcTableProofs ---------------------------
(***************************************************************************)
(* Proofs about the process table, for tables of any size and any exit     *)
(* codes: first a lemma for each step of Exit, then the theorems.          *)
(***************************************************************************)
EXTENDS ProcTableExecProofs

(* Exit records the code.                                                  *)
LEMMA ExitStep ==
  ASSUME IInv, NEW p \in Pids, NEW code \in Codes, Exit(p, code)
  PROVE  IInv'
<1> USE SemNames
DEF IInv, Exit, At, Running, Goto, Call, Children, pcbVars, history
<1>0. p \in pcb
  BY ZenonT(60) DEF Slots, TypeOK, Leaving
<1>1. TypeOK'
  BY ExitOrder, ZenonT(60) DEF TypeOK, Places
<1>2. Slots'
  BY SMTT(60) DEF Slots
<1>3. Loader'
  BY ExitOrder, SMTT(60) DEF Loader, Loading
<1>4. Joins'
  BY ExitOrder, SMTT(60) DEF Joins, Joining
<1>5. Exits'
  BY ZenonT(60) DEF TypeOK, Exits
<1>6. Tokens'
  <2> SUFFICES ASSUME NEW c \in Pids
               PROVE  /\ Token(c)'
                      /\ value'[exitsem(c)] > 0 \/ pc'[c] \in Ending => c \in joined'
    BY ZenonT(60) DEF Tokens
  <2>1. Token(c) /\ (value[exitsem(c)] > 0 \/ pc[c] \in Ending => c \in joined)
    BY ZenonT(60) DEF Tokens
  <2>2. Token(c)'
    BY <2>1, ExitOrder, SMTT(60) DEF Token, Reads
  <2>3. value'[exitsem(c)] > 0 \/ pc'[c] \in Ending => c \in joined'
    BY <2>1, ExitOrder, SMTT(60) DEF Ending
  <2> QED BY <2>2, <2>3, ZenonT(60)
<1>7. orderly' => Fresh'
  BY ExitOrder, ZenonT(60) DEF Orderly, Fresh, TypeOK, Ending
<1>8. orderly' => Served'
  BY SMTT(60) DEF Orderly, Served, TypeOK, Released, Joining
<1>9. orderly' => Childless'
  BY SMTT(60) DEF Orderly, Childless, TypeOK, Released, Served, Joining
<1> QED BY <1>1, <1>2, <1>3, <1>4, <1>5, <1>6, <1>7, <1>8, <1>9, ZenonT(60)
           DEF Orderly

(* The child passes the multex of its parent.                              *)
LEMMA DecNumWaitStep ==
  ASSUME IInv, NEW p \in Pids, DecNumWait(p)
  PROVE  IInv'
<1> USE SemNames DEF IInv, DecNumWait, At, Running, Goto, P, pcbVars, history
<1>0. p \in pcb /\ p # 0 /\ parentID[p] \in Pids
  BY ExitOrder, ZenonT(60) DEF Slots, Leaving, TypeOK
<1>1. TypeOK'
  BY ExitOrder, <1>0, SMTT(60) DEF TypeOK, Places
<1>2. Slots'
  BY SMTT(60) DEF Slots, Leaving
<1>3. Loader'
  BY ExitOrder, <1>0, SMTT(60) DEF Loader, Loading
<1>4. Joins'
  BY ExitOrder, SMTT(60) DEF Joins, Joining
<1>5. Exits'
  BY SMTT(60) DEF Exits, Leaving
<1>6. Tokens'
  <2> SUFFICES ASSUME NEW c \in Pids
               PROVE  /\ Token(c)'
                      /\ value'[exitsem(c)] > 0 \/ pc'[c] \in Ending => c \in joined'
    BY ZenonT(60) DEF Tokens
  <2>1. Token(c) /\ (value[exitsem(c)] > 0 \/ pc[c] \in Ending => c \in joined)
    BY ZenonT(60) DEF Tokens
  <2>2. Token(c)'
    BY <2>1, ExitOrder, SMTT(60) DEF Token, Reads, Leaving, Slots
  <2>3. value'[exitsem(c)] > 0 \/ pc'[c] \in Ending => c \in joined'
    BY <2>1, ExitOrder, SMTT(60) DEF Ending
  <2> QED BY <2>2, <2>3, ZenonT(60)
<1>7. orderly' => Fresh'
  BY ExitOrder, SMTT(60) DEF Orderly, Fresh, Ending
<1>8. orderly' => Served'
  BY SMTT(60) DEF Orderly, Served, Released, Joining
<1>9. orderly' => Childless'
  BY SMTT(60) DEF Orderly, Childless, Leaving, Released
<1> QED BY <1>1, <1>2, <1>3, <1>4, <1>5, <1>6, <1>7, <1>8, <1>9, ZenonT(60)
           DEF Orderly

(* The child takes its parent off the count.                               *)
LEMMA DecNumWaitDoneStep ==
  ASSUME IInv, NEW p \in Pids, DecNumWaitDone(p)
  PROVE  IInv'
<1> USE SemNames
DEF IInv, DecNumWaitDone, At, Running, Goto, V, pcbVars, history
<1>0. p \in pcb /\ p # 0 /\ parentID[p] \in Pids
  BY ExitOrder, ZenonT(60) DEF Slots, Leaving, TypeOK
<1>1. TypeOK'
  BY ExitOrder, <1>0, SMTT(60) DEF TypeOK, Places
<1>2. Slots'
  BY SMTT(60) DEF Slots, Leaving
<1>3. Loader'
  BY ExitOrder, <1>0, SMTT(60) DEF Loader, Loading
<1>4. Joins'
  BY ExitOrder, SMTT(60) DEF Joins, Joining
<1>5. Exits'
  BY SMTT(60) DEF Exits, Leaving
<1>6. Tokens'
  <2> SUFFICES ASSUME NEW c \in Pids
               PROVE  /\ Token(c)'
                      /\ value'[exitsem(c)] > 0 \/ pc'[c] \in Ending => c \in joined'
    BY ZenonT(60) DEF Tokens
  <2>1. Token(c) /\ (value[exitsem(c)] > 0 \/ pc[c] \in Ending => c \in joined)
    BY ZenonT(60) DEF Tokens
  <2>2. Token(c)'
    BY <2>1, ExitOrder, SMTT(60) DEF Token, Reads, Leaving, Slots
  <2>3. value'[exitsem(c)] > 0 \/ pc'[c] \in Ending => c \in joined'
    BY <2>1, ExitOrder, <1>0, SMTT(60) DEF Ending
  <2> QED BY <2>2, <2>3, ZenonT(60)
<1>7. orderly' => Fresh'
  BY ExitOrder, <1>0, SMTT(60) DEF Orderly, Fresh, TypeOK, Ending
<1>8. orderly' => Served'
  BY SMTT(60) DEF Orderly, Served, Released, Joining
<1>9. orderly' => Childless'
  BY SMTT(60) DEF Orderly, Childless, Leaving, Released
<1> QED BY <1>1, <1>2, <1>3, <1>4, <1>5, <1>6, <1>7, <1>8, <1>9, ZenonT(60)
           DEF Orderly

(* The child announces its code: the permission comes into being.          *)
LEMMA JoinReleaseStep ==
  ASSUME IInv, NEW p \in Pids, JoinRelease(p)
  PROVE  IInv'
<1> USE SemNames
DEF IInv, JoinRelease, At, Running, Goto, V, pcbVars, history
<1>0. p \in pcb /\ p # 0 /\ parentID[p] \in Pids
  BY ExitOrder, ZenonT(60) DEF Slots, Leaving, TypeOK
<1>1. TypeOK'
  BY ExitOrder, SMTT(60) DEF TypeOK, Places
<1>2. Slots'
  BY SMTT(60) DEF Slots, Leaving
<1>3. Loader'
  BY ExitOrder, SMTT(60) DEF Loader, Loading
<1>4. Joins'
  BY ExitOrder, SMTT(60) DEF Joins, Joining
<1>5. Exits'
  BY SMTT(60) DEF Exits, Leaving
<1>6. Tokens'
  <2> SUFFICES ASSUME NEW c \in Pids
               PROVE  /\ Token(c)'
                      /\ value'[exitsem(c)] > 0 \/ pc'[c] \in Ending => c \in joined'
    BY ZenonT(60) DEF Tokens
  <2>1. Token(c) /\ (value[exitsem(c)] > 0 \/ pc[c] \in Ending => c \in joined)
    BY ZenonT(60) DEF Tokens
  <2>2. Token(c)'
    BY <2>1, ExitOrder, SMTT(60) DEF TypeOK, Token, Reads
  <2>3. value'[exitsem(c)] > 0 \/ pc'[c] \in Ending => c \in joined'
    BY <2>1, ExitOrder, SMTT(60) DEF Ending
  <2> QED BY <2>2, <2>3, ZenonT(60)
<1>7. orderly' => Fresh'
  BY ExitOrder, ZenonT(60) DEF Orderly, Fresh, TypeOK, Ending
<1>8. orderly' => Served'
  BY SMTT(60) DEF Orderly, Served, Released, Joining
<1>9. orderly' => Childless'
  BY SMTT(60) DEF Orderly, Childless, Leaving, Released
<1> QED BY <1>1, <1>2, <1>3, <1>4, <1>5, <1>6, <1>7, <1>8, <1>9, ZenonT(60)
           DEF Orderly

(* The child takes the permission; its parent has joined it.               *)
LEMMA ExitWaitStep ==
  ASSUME IInv, NEW p \in Pids, ExitWait(p)
  PROVE  IInv'
<1> USE SemNames DEF IInv, ExitWait, At, Running, Goto, P, pcbVars, history
<1>0. p \in pcb /\ p # 0 /\ parentID[p] \in Pids
  BY ExitOrder, ZenonT(60) DEF Slots, Leaving, TypeOK
<1>1. TypeOK'
  BY SMTT(60) DEF TypeOK, Places
<1>2. Slots'
  BY SMTT(60) DEF Slots, Leaving
<1>3. Loader'
  BY SMTT(60) DEF Loader, Loading
<1>4. Joins'
  BY SMTT(60) DEF Joins, Joining
<1>5. Exits'
  BY SMTT(60) DEF Exits, Leaving
<1>6. Tokens'
  <2> SUFFICES ASSUME NEW c \in Pids
               PROVE  /\ Token(c)'
                      /\ value'[exitsem(c)] > 0 \/ pc'[c] \in Ending => c \in joined'
    BY ZenonT(60) DEF Tokens
  <2>1. Token(c) /\ (value[exitsem(c)] > 0 \/ pc[c] \in Ending => c \in joined)
    BY ZenonT(60) DEF Tokens
  <2>2. Token(c)'
    BY <2>1, SMTT(60) DEF TypeOK, Token, Reads
  <2>3. value'[exitsem(c)] > 0 \/ pc'[c] \in Ending => c \in joined'
    BY <2>1, SMTT(60)
  <2> QED BY <2>2, <2>3, ZenonT(60)
<1>7. orderly' => Fresh'
  BY SMTT(60) DEF Orderly, Fresh
<1>8. orderly' => Served'
  BY SMTT(60) DEF Orderly, Served, Released, Joining
<1>9. orderly' => Childless'
  BY SMTT(60) DEF Orderly, Childless, Leaving, Released
<1> QED BY <1>1, <1>2, <1>3, <1>4, <1>5, <1>6, <1>7, <1>8, <1>9, ZenonT(60)
           DEF Orderly

(* ~PCB deletes the semaphores of a process that was joined.               *)
LEMMA RemoveStep ==
  ASSUME IInv, NEW p \in Pids, Remove(p)
  PROVE  IInv'
<1> USE SemNames DEF IInv, Remove, At, Running, Goto, pcbVars, history
<1>0. p \in pcb /\ p # 0 /\ parentID[p] \in Pids
  BY ExitOrder, ZenonT(60) DEF Slots, Leaving, TypeOK
<1>1. TypeOK'
  BY <1>0, ZenonT(60) DEF TypeOK, Places
<1>2. Slots'
  BY SMTT(60) DEF Slots, Leaving
<1>3. Loader'
  BY SMTT(60) DEF Loader, Loading
<1>4. Joins'
  BY SMTT(60) DEF Joins, Joining
<1>5. Exits'
  BY SMTT(60) DEF TypeOK, Exits, Leaving
<1>6. Tokens'
  <2> SUFFICES ASSUME NEW c \in Pids
               PROVE  /\ Token(c)'
                      /\ value'[exitsem(c)] > 0 \/ pc'[c] \in Ending => c \in joined'
    BY ZenonT(60) DEF Tokens
  <2>1. Token(c) /\ (value[exitsem(c)] > 0 \/ pc[c] \in Ending => c \in joined)
    BY ZenonT(60) DEF Tokens
  <2>2. Token(c)'
    BY <2>1, SMTT(60) DEF Token, Reads
  <2>3. value'[exitsem(c)] > 0 \/ pc'[c] \in Ending => c \in joined'
    BY <2>1, SMTT(60) DEF Ending
  <2> QED BY <2>2, <2>3, ZenonT(60)
<1>7. orderly' => Fresh'
  BY SMTT(60) DEF Orderly, Fresh, Ending
<1>8. orderly' => Served'
  BY SMTT(60) DEF Orderly, Served, Released, Joining
<1>9. orderly' => Childless'
  BY SMTT(60) DEF Orderly, Childless, Leaving, Released
<1> QED BY <1>1, <1>2, <1>3, <1>4, <1>5, <1>6, <1>7, <1>8, <1>9, ZenonT(60)
           DEF Orderly

(* A semaphore in use is dangling only if some program was not orderly.    *)
LEMMA UseAfterDeleteStep ==
  ASSUME IInv, NEW p \in Pids, UseAfterDelete(p)
  PROVE  IInv'
<1> USE DEF IInv
<1>1. fault' = TRUE
      /\ UNCHANGED <<pcb, parentID, exitcode, numwait, value, deleted, pc, arg, ret,
                     halted, exited, joined, orderly>>
  BY ZenonT(60) DEF UseAfterDelete, pcbVars, history
<1>2. ASSUME orderly PROVE FALSE
  <2>1. Dangling(Uses(p))
    BY ZenonT(60) DEF UseAfterDelete
  <2>2. \A q \in deleted : q \in Pids /\ q \in pcb /\ pc[q] = "gone" /\ q \in joined
    BY ZenonT(60) DEF Exits, TypeOK, Tokens, Ending
  <2>3. CASE pc[p] = "loaded"
    <3>1. arg[p] \in deleted
      BY <2>1, <2>3, DanglingNames, ZenonT(60) DEF Uses
    <3>2. arg[p] \notin joined
      BY <2>3, ZenonT(60) DEF Loader
    <3> QED BY <2>2, <3>1, <3>2, ZenonT(60)
  <2>4. CASE pc[p] = "wait"
    <3>1. arg[p] \in deleted
      BY <2>1, <2>4, DanglingNames, ZenonT(60) DEF Uses
    <3>2. pc[arg[p]] # "gone"
      BY <1>2, <2>4, ZenonT(60) DEF Orderly, Fresh, Ending
    <3> QED BY <2>2, <3>1, <3>2, ZenonT(60)
  <2>5. CASE pc[p] = "read"
    <3>1. arg[p] \in deleted
      BY <2>1, <2>5, DanglingNames, ZenonT(60) DEF Uses
    <3>2. Reads(arg[p]) /\ Token(arg[p])
      BY <2>5, ZenonT(60) DEF Joins, Joining, Reads, Tokens, TypeOK
    <3> QED BY <2>2, <3>1, <3>2, ZenonT(60) DEF Token
  <2>6. CASE pc[p] \in {"dec", "decV"}
    <3>1. parentID[p] \in deleted
      BY <2>1, <2>6, DanglingNames, ZenonT(60) DEF Uses
    <3>2. p \in pcb
      BY <2>6, ZenonT(60) DEF Slots
    <3>3. pc[p] \in Released
      BY <1>2, <2>2, <3>1, <3>2, ZenonT(60) DEF Orderly, Childless, Leaving
    <3> QED BY <2>6, <3>3, ZenonT(60) DEF Released
  <2>7. CASE pc[p] \notin {"loaded", "wait", "read", "dec", "decV"}
    <3>1. Uses(p) = bmsem
      BY <2>7, ZenonT(60) DEF Uses
    <3> QED BY <2>1, <3>1, DanglingNames, ZenonT(60)
  <2> QED BY <2>3, <2>4, <2>5, <2>6, <2>7, ZenonT(60)
<1>3. TypeOK' /\ Slots' /\ Loader' /\ Joins' /\ Exits' /\ Tokens'
  BY <1>1, ZenonT(60)
     DEF TypeOK, Slots, Loader, Joins, Exits, Tokens, Token, Reads
<1> QED BY <1>1, <1>2, <1>3, ZenonT(60)

(* The invariant holds initially.                                          *)
LEMMA InitIInv ==
  Init => IInv
<1> SUFFICES ASSUME Init PROVE IInv
  BY ZenonT(60)
<1> USE ProcTableAssumption, SemNames DEF Init
<1>0. 0 \in Pids
  BY SMTT(60) DEF Pids
<1>1. TypeOK
  <2>1. numwait \in [Pids -> Nat]
    BY SMTT(60)
  <2>2. value \in [Sems -> Nat]
    BY ZenonT(60)
  <2> QED BY <1>0, <2>1, <2>2, ZenonT(60) DEF TypeOK, Places
<1>2. Slots
  BY <1>0, ZenonT(60) DEF Slots, Leaving
<1>3. Loader
  BY <1>0, SMTT(60) DEF Loader, Loading, bmsem, Sems
<1>4. Joins /\ Exits
  BY <1>0, ZenonT(60) DEF Joins, Joining, Exits, Leaving
<1>5. Tokens
  <2>1. \A c \in Pids : value[joinsem(c)] = 0 /\ value[exitsem(c)] = 0
    BY ZenonT(60) DEF joinsem, exitsem, Sems
  <2>2. \A c \in Pids : pc[c] \in {"user", "none"} /\ parentID[c] = -1
    BY <1>0, ZenonT(60)
  <2>3. \A c \in Pids : ~Reads(c)
    BY <2>2, ZenonT(60) DEF Reads, Pids
  <2> HIDE DEF Init
  <2>4. ASSUME NEW c \in Pids
        PROVE  Token(c) /\ ~(value[exitsem(c)] > 0) /\ pc[c] \notin Ending
    BY <2>1, <2>2, <2>3, SMTT(60) DEF Token, Ending
  <2> QED BY <2>4, ZenonT(60) DEF Tokens
<1>6. Orderly
  BY <1>0, ZenonT(60) DEF Orderly, Fresh, Served, Childless, Leaving
<1> QED BY <1>1, <1>2, <1>3, <1>4, <1>5, <1>6, ZenonT(60) DEF IInv

(* A step of one process leaves the others where they are, except that     *)
(* Fork starts a child.                                                    *)
LEMMA OthersStay ==
  ASSUME TypeOK, NEW p \in Pids, NEW q \in Pids, q # p,
         SystemCall(q) \/ KernelStep(q)
  PROVE  pc'[p] \in {pc[p], "start"}
<1> USE DEF TypeOK, Goto, Return, Call
<1>1. CASE SystemCall(q)
  BY <1>1, ZenonT(60) DEF SystemCall, Exec, ExecNoFile, JoinFails, Join, Exit
<1>2. CASE KernelStep(q)
  BY <1>2, ZenonT(60)
  DEF KernelStep, ExecLock, LoadFails, Load, Fork, Loaded, ExecUnlock,
      Start, StartOutOfMemory, IncNumWait, IncNumWaitDone, JoinWait,
      ExitRelease, DecNumWait, DecNumWaitDone, JoinRelease, ExitWait, Remove,
      UseAfterDelete
<1> QED BY <1>1, <1>2, ZenonT(60)

-----------------------------------------------------------------------------
INSTANCE FiniteSetTheorems

(* The slot that GetFreeSlot finds is free.                                *)
LEMMA FreeSlot ==
  ASSUME pcb \in SUBSET Pids, Pids # pcb
  PROVE  GetFreeSlot \in Pids \ pcb
<1> DEFINE Free == Pids \ pcb
           Less == OpToRel(<, Nat)
<1>1. Free # {} /\ Free \subseteq Nat
  <2> HIDE DEF Less
  <2>1. Pids \subseteq Nat
    BY ProcTableAssumption, SMTT(60) DEF Pids
  <2>2. \E i \in Pids : i \notin pcb
    BY ZenonT(60)
  <2> QED BY <2>1, <2>2, ZenonT(60)
<1>2. \E i \in Free : \A j \in Free : ~(<<j, i>> \in Less)
  <2> HIDE DEF Free, Less
  <2>1. IsWellFoundedOn(Less, Nat)
    BY NatLessThanWellFounded, ZenonT(60) DEF Less
  <2> QED BY <1>1, <2>1, WFMin, ZenonT(60)
<1>3. PICK i \in Free : \A j \in Free : ~(<<j, i>> \in Less)
  BY <1>2, ZenonT(60)
<1>4. ASSUME NEW j \in Free PROVE i <= j
  <2>1. j < i => <<j, i>> \in Less
    <3> HIDE DEF Free
    <3> QED BY <1>1, ZenonT(60) DEF OpToRel
  <2> HIDE DEF Free, Less
  <2> QED BY <1>1, <1>3, <2>1, SMTT(60)
<1> QED BY <1>4, ZenonT(60) DEF GetFreeSlot

(* Every step preserves the invariant.                                     *)
LEMMA StepIInv ==
  IInv /\ [Next]_vars => IInv'
<1> SUFFICES ASSUME IInv, [Next]_vars PROVE IInv'
  BY ZenonT(60)
<1>1. ASSUME NEW p \in Pids, SystemCall(p) PROVE IInv'
  BY <1>1, ExecStep, ExecNoFileStep, JoinFailsStep, JoinStep, ExitStep,
     ZenonT(60)
  DEF SystemCall
<1>0. Pids # pcb => GetFreeSlot \in Pids \ pcb
  BY FreeSlot, ZenonT(60) DEF IInv, TypeOK
<1>6. ASSUME NEW p \in Pids, Load(p) PROVE IInv'
  BY <1>0, <1>6, LoadStep, ZenonT(60) DEF Load
<1>2. ASSUME NEW p \in Pids, KernelStep(p) PROVE IInv'
  BY <1>2, <1>6, ExecLockStep, LoadFailsStep, ForkStep, LoadedStep,
     ExecUnlockStep, StartStep, StartOutOfMemoryStep, IncNumWaitStep,
     IncNumWaitDoneStep, JoinWaitStep, ExitReleaseStep, DecNumWaitStep,
     DecNumWaitDoneStep, JoinReleaseStep, ExitWaitStep, RemoveStep,
     UseAfterDeleteStep, ZenonT(60)
  DEF KernelStep
<1>3. ASSUME UNCHANGED <<pcb, parentID, exitcode, numwait, value, deleted, pc, arg,
                         ret, fault, exited, joined, orderly>>,
             halted' \in BOOLEAN
      PROVE  IInv'
  <2>1. TypeOK' /\ Slots' /\ Loader' /\ Joins' /\ Exits'
    BY <1>3, ZenonT(60) DEF IInv, TypeOK, Slots, Loader, Joins, Exits
  <2>2. Tokens' /\ (orderly' => Orderly')
    BY <1>3, ZenonT(60)
       DEF IInv, Tokens, Token, Reads, Orderly, Fresh, Served, Childless
  <2> QED BY <2>1, <2>2, ZenonT(60) DEF IInv
<1>4. CASE ExitMain
  BY <1>3, <1>4, ZenonT(60) DEF ExitMain, pcbVars, history
<1>5. CASE UNCHANGED vars
  BY <1>3, <1>5, ZenonT(60) DEF vars, pcbVars, history, IInv, TypeOK
<1> QED BY <1>1, <1>2, <1>4, <1>5, ZenonT(60) DEF Next, Stopped

(* The inductive invariant holds in every reachable state.                 *)
THEOREM Inductive ==
  Spec => []IInv
<1> QED BY InitIInv, StepIInv, PTL DEF Spec

-----------------------------------------------------------------------------
(* The table, the semaphores and the system calls in progress keep their   *)
(* types: in particular every semaphore value stays a natural number, and  *)
(* every deleted process is one of the table.                              *)
THEOREM TypeCorrectness ==
  Spec => []TypeOK
<1>1. IInv => TypeOK
  BY ZenonT(60) DEF IInv
<1> QED BY <1>1, Inductive, PTL

(* A process is destroyed only after a Join of it, and not while its       *)
(* parent is still to read its exit code, for tables of any size: Remove   *)
(* comes after ExitWait, and the permission to leave has gone through the  *)
(* parent by then.                                                         *)
THEOREM ParentReadCorrectness ==
  Spec => []ParentReadBeforeRemove
<1>1. IInv => ParentReadBeforeRemove
  <2> SUFFICES ASSUME IInv, NEW p \in deleted
               PROVE  /\ p \in joined
                      /\ pc[parentID[p]] = "read" => arg[parentID[p]] # p
    BY ZenonT(60) DEF ParentReadBeforeRemove
  <2>1. p \in Pids /\ p \in pcb /\ pc[p] = "gone"
    BY ZenonT(60) DEF IInv, TypeOK, Exits
  <2>2. p \in joined
    BY <2>1, ZenonT(60) DEF IInv, Tokens, Ending
  <2>3. p # 0 /\ parentID[p] \in Pids
    BY <2>1, ZenonT(60) DEF IInv, Slots, Leaving
  <2>4. ~Reads(p)
    BY <2>1, ZenonT(60) DEF IInv, Tokens, Token
  <2> QED BY <2>2, <2>3, <2>4, ZenonT(60) DEF Reads
<1> QED BY <1>1, Inductive, PTL

(* bmsem admits one loader at a time, however many processes call Exec.    *)
THEOREM LoaderCorrectness ==
  Spec => []OneLoader
<1>1. IInv => OneLoader
  <2> SUFFICES ASSUME IInv PROVE OneLoader
    BY ZenonT(60)
  <2> DEFINE Holders == {p \in Pids : pc[p] \in Loading}
  <2>1. value[bmsem] \in Nat /\ value[bmsem] <= 1
    BY SemNames, ProcTableAssumption, ZenonT(60)
       DEF IInv, TypeOK, Loader, Sems, bmsem
  <2>2. Cardinality(Holders) + value[bmsem] = 1
    <3>1. CASE \E p \in Pids : pc[p] \in Loading
      <4>1. PICK p \in Pids : pc[p] \in Loading
        BY <3>1, ZenonT(60)
      <4>2. Holders = {p} /\ value[bmsem] = 0
        BY <4>1, ZenonT(60) DEF IInv, Loader
      <4>3. Cardinality({p}) = 1
        BY FS_Singleton, ZenonT(60)
      <4> HIDE DEF Holders
      <4> QED BY <4>2, <4>3, SMTT(60)
    <3>2. CASE ~\E p \in Pids : pc[p] \in Loading
      <4>1. Holders = {} /\ value[bmsem] = 1
        BY <2>1, <3>2, SMTT(60) DEF IInv, Loader
      <4> HIDE DEF Holders
      <4> QED BY <4>1, FS_EmptySet, SMTT(60)
    <3> QED BY <3>1, <3>2, ZenonT(60)
  <2> QED BY <2>2, ZenonT(60) DEF OneLoader, Loading
<1> QED BY <1>1, Inductive, PTL

(* While every program joins each of its children once before it exits, no *)
(* process uses a semaphore of a destroyed PCB, for tables of any size.    *)
THEOREM OrderlyCorrectness ==
  Spec => []OrderlyIsSafe
<1>1. IInv => OrderlyIsSafe
  BY ZenonT(60) DEF IInv, Orderly, OrderlyIsSafe
<1> QED BY <1>1, Inductive, PTL

(* Join returns the exit code its child gave to Exit, never the code of    *)
(* another process and never before there is one.                          *)
THEOREM JoinCorrectness ==
  Spec => JoinReturnsExitCode
<1> DEFINE Returned == \A p \in Pids : pc[p] = "read" /\ pc'[p] = "user" =>
                         exited[arg[p]] \in Codes /\ ret'[p] = exited[arg[p]]
<1>1. IInv /\ [Next]_vars => [Returned]_vars
  <2> SUFFICES ASSUME IInv, Next,
                      NEW p \in Pids, pc[p] = "read", pc'[p] = "user"
               PROVE  exited[arg[p]] \in Codes /\ ret'[p] = exited[arg[p]]
    BY ZenonT(60)
  <2>1. pc[arg[p]] = "exitP" /\ arg[p] \in Pids
    BY SMTT(60) DEF IInv, Joins, Joining, Tokens, Token, Reads, TypeOK
  <2>2. exited[arg[p]] \in Codes
    BY <2>1, ZenonT(60) DEF IInv, Exits, Leaving
  <2>3. ExitRelease(p)
    <3>1. ASSUME NEW q \in Pids, SystemCall(q) PROVE FALSE
      <4>1. CASE q = p
        BY <3>1, <4>1, ZenonT(60)
        DEF SystemCall, Exec, ExecNoFile, JoinFails, Join, Exit, At
      <4>2. CASE q # p
        BY <3>1, <4>2, OthersStay, ZenonT(60) DEF IInv
      <4> QED BY <4>1, <4>2, ZenonT(60)
    <3>2. ASSUME NEW q \in Pids, KernelStep(q) PROVE ExitRelease(p)
      <4>1. CASE q = p
        <5>1. /\ ~ExecLock(q) /\ ~LoadFails(q) /\ ~Load(q) /\ ~Fork(q)
              /\ ~Loaded(q) /\ ~ExecUnlock(q) /\ ~Start(q) /\ ~StartOutOfMemory(q)
          BY <4>1, ZenonT(60)
          DEF ExecLock, LoadFails, Load, Fork, Loaded, ExecUnlock, Start,
              StartOutOfMemory, At
        <5>2. /\ ~IncNumWait(q) /\ ~IncNumWaitDone(q) /\ ~JoinWait(q)
              /\ ~DecNumWait(q) /\ ~DecNumWaitDone(q) /\ ~JoinRelease(q)
              /\ ~ExitWait(q) /\ ~Remove(q)
          BY <4>1, ZenonT(60)
          DEF IncNumWait, IncNumWaitDone, JoinWait, DecNumWait,
          DecNumWaitDone,
              JoinRelease, ExitWait, Remove, At
        <5>3. ~UseAfterDelete(q)
          BY ZenonT(60) DEF UseAfterDelete
        <5> QED BY <3>2, <4>1, <5>1, <5>2, <5>3, ZenonT(60) DEF KernelStep
      <4>2. CASE q # p
        BY <3>2, <4>2, OthersStay, ZenonT(60) DEF IInv
      <4> QED BY <4>1, <4>2, ZenonT(60)
    <3> QED BY <3>1, <3>2, ZenonT(60) DEF Next, ExitMain, Stopped, vars
  <2> QED BY <2>2, <2>3, ZenonT(60)
             DEF ExitRelease, Return, IInv, Exits, TypeOK
<1> QED BY <1>1, Inductive, PTL DEF JoinReturnsExitCode, Spec

=============================================================================
