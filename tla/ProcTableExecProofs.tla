------------------------ MODULE ProcTableExecProofs -------------------------
(***************************************************************************)
(* Exec, from the system call to the start of the child, and Join preserve *)
(* the invariant: a lemma for each step, with a step for each conjunct.    *)
(* First facts about semaphores.                                           *)
(***************************************************************************)
EXTENDS ProcTableInv, TLAPS

(* Semaphores by name: these facts stand for the pairs they are.           *)
LEMMA SemNames ==
  \A p, q \in Pids :
    /\ joinsem(p) \in Sems /\ exitsem(p) \in Sems /\ multex(p) \in Sems
    /\ bmsem \in Sems
    /\ joinsem(p) = joinsem(q) <=> p = q
    /\ exitsem(p) = exitsem(q) <=> p = q
    /\ joinsem(p) # exitsem(q) /\ joinsem(p) # multex(q) /\ joinsem(p) # bmsem
    /\ exitsem(p) # multex(q) /\ exitsem(p) # bmsem
    /\ multex(p) # bmsem
  BY ZenonT(60) DEF joinsem, exitsem, multex, bmsem, Sems

(* A semaphore is dangling when its process is deleted; bmsem never is.    *)
LEMMA DanglingNames ==
  /\ ~Dangling(bmsem)
  /\ \A p : /\ Dangling(joinsem(p)) <=> p \in deleted
            /\ Dangling(exitsem(p)) <=> p \in deleted
            /\ Dangling(multex(p)) <=> p \in deleted
  BY ZenonT(60) DEF Dangling, joinsem, exitsem, multex, bmsem

(* The places after each step of Exit.                                     *)
LEMMA ExitOrder ==
  /\ ExitUpdate[1] = "dec"
  /\ After("dec") = "decV" /\ After("decV") = "joinV"
  /\ After("joinV") = "exitP" /\ After("exitP") = "remove"
  BY SMTT(60) DEF After, ExitUpdate

-----------------------------------------------------------------------------
(* Exec asks for bmsem.                                                    *)
LEMMA ExecStep ==
  ASSUME IInv, NEW p \in Pids, Exec(p)
  PROVE  IInv'
<1> USE SemNames DEF IInv, Exec, At, Running, Goto, Call, pcbVars, history
<1>1. TypeOK'
  BY ZenonT(60) DEF TypeOK, Places
<1>2. Slots'
  BY SMTT(60) DEF Slots, Leaving
<1>3. Loader'
  BY SMTT(60) DEF Loader, Loading
<1>4. Joins'
  BY SMTT(60) DEF Joins, Joining
<1>5. Exits'
  BY SMTT(60) DEF Exits, Leaving
<1>6. Tokens'
  <2> SUFFICES ASSUME NEW c \in Pids
               PROVE  /\ Token(c)'
                      /\ value'[exitsem(c)] > 0 \/ pc'[c] \in Ending => c \in joined'
    BY ZenonT(60) DEF Tokens
  <2>1. Token(c) /\ (value[exitsem(c)] > 0 \/ pc[c] \in Ending => c \in joined)
    BY ZenonT(60) DEF Tokens
  <2>2. Token(c)'
    BY <2>1, SMTT(60) DEF Token, Reads
  <2>3. value'[exitsem(c)] > 0 \/ pc'[c] \in Ending => c \in joined'
    BY <2>1, SMTT(60) DEF Ending
  <2> QED BY <2>2, <2>3, ZenonT(60)
<1>7. orderly' => Fresh'
  BY SMTT(60) DEF Orderly, Fresh, Ending
<1>8. orderly' => Served'
  BY SMTT(60) DEF Orderly, Served, Released, Joining
<1>9. orderly' => Childless'
  BY SMTT(60) DEF Orderly, Childless, Leaving, Released
<1> QED BY <1>1, <1>2, <1>3, <1>4, <1>5, <1>6, <1>7, <1>8, <1>9, ZenonT(60)
           DEF Orderly

(* Exec of a file that does not open returns -1.                           *)
LEMMA ExecNoFileStep ==
  ASSUME IInv, NEW p \in Pids, ExecNoFile(p)
  PROVE  IInv'
<1> USE SemNames
DEF IInv, ExecNoFile, At, Running, Goto, Return, pcbVars, history
<1>1. TypeOK'
  BY ZenonT(60) DEF TypeOK
<1>2. Slots'
  BY SMTT(60) DEF Slots
<1>3. Loader'
  BY SMTT(60) DEF Loader
<1>4. Joins'
  BY SMTT(60) DEF Joins
<1>5. Exits'
  BY SMTT(60) DEF Exits
<1>6. Tokens'
  <2> SUFFICES ASSUME NEW c \in Pids
               PROVE  /\ Token(c)'
                      /\ value'[exitsem(c)] > 0 \/ pc'[c] \in Ending => c \in joined'
    BY ZenonT(60) DEF Tokens
  <2>1. Token(c) /\ (value[exitsem(c)] > 0 \/ pc[c] \in Ending => c \in joined)
    BY ZenonT(60) DEF Tokens
  <2>2. Token(c)'
    BY <2>1, SMTT(60) DEF Token, Reads
  <2>3. value'[exitsem(c)] > 0 \/ pc'[c] \in Ending => c \in joined'
    BY <2>1, SMTT(60)
  <2> QED BY <2>2, <2>3, ZenonT(60)
<1>7. orderly' => Fresh'
  BY SMTT(60) DEF Orderly, Fresh
<1>8. orderly' => Served'
  BY SMTT(60) DEF Orderly, Served
<1>9. orderly' => Childless'
  BY SMTT(60) DEF Orderly, Childless
<1> QED BY <1>1, <1>2, <1>3, <1>4, <1>5, <1>6, <1>7, <1>8, <1>9, ZenonT(60)
           DEF Orderly

(* Exec passes bmsem.                                                      *)
LEMMA ExecLockStep ==
  ASSUME IInv, NEW p \in Pids, ExecLock(p)
  PROVE  IInv'
<1> USE SemNames DEF IInv, ExecLock, At, Running, Goto, P, pcbVars, history
<1>1. TypeOK'
  BY SMTT(60) DEF TypeOK, Places
<1>2. Slots'
  BY SMTT(60) DEF Slots, Leaving
<1>3. Loader'
  BY SMTT(60) DEF TypeOK, Loader, Loading
<1>4. Joins'
  BY SMTT(60) DEF Joins, Joining
<1>5. Exits'
  BY SMTT(60) DEF Exits, Leaving
<1>6. Tokens'
  <2> SUFFICES ASSUME NEW c \in Pids
               PROVE  /\ Token(c)'
                      /\ value'[exitsem(c)] > 0 \/ pc'[c] \in Ending => c \in joined'
    BY ZenonT(60) DEF Tokens
  <2>1. Token(c) /\ (value[exitsem(c)] > 0 \/ pc[c] \in Ending => c \in joined)
    BY ZenonT(60) DEF Tokens
  <2>2. Token(c)'
    BY <2>1, SMTT(60) DEF Token, Reads
  <2>3. value'[exitsem(c)] > 0 \/ pc'[c] \in Ending => c \in joined'
    BY <2>1, SMTT(60) DEF Ending
  <2> QED BY <2>2, <2>3, ZenonT(60)
<1>7. orderly' => Fresh'
  BY SMTT(60) DEF Orderly, Fresh, Ending
<1>8. orderly' => Served'
  BY SMTT(60) DEF Orderly, Served, Released, Joining
<1>9. orderly' => Childless'
  BY SMTT(60) DEF Orderly, Childless, Leaving, Released
<1> QED BY <1>1, <1>2, <1>3, <1>4, <1>5, <1>6, <1>7, <1>8, <1>9, ZenonT(60)
           DEF Orderly

(* A failure to load releases bmsem and returns -1.                        *)
LEMMA LoadFailsStep ==
  ASSUME IInv, NEW p \in Pids, LoadFails(p)
  PROVE  IInv'
<1> USE SemNames
DEF IInv, LoadFails, At, Running, Goto, Return, V, pcbVars, history
<1>1. TypeOK'
  BY SMTT(60) DEF TypeOK, Places
<1>2. Slots'
  BY SMTT(60) DEF Slots, Leaving
<1>3. Loader'
  BY SMTT(60) DEF TypeOK, Loader, Loading
<1>4. Joins'
  BY SMTT(60) DEF Joins, Joining
<1>5. Exits'
  BY SMTT(60) DEF Exits, Leaving
<1>6. Tokens'
  <2> SUFFICES ASSUME NEW c \in Pids
               PROVE  /\ Token(c)'
                      /\ value'[exitsem(c)] > 0 \/ pc'[c] \in Ending => c \in joined'
    BY ZenonT(60) DEF Tokens
  <2>1. Token(c) /\ (value[exitsem(c)] > 0 \/ pc[c] \in Ending => c \in joined)
    BY ZenonT(60) DEF Tokens
  <2>2. Token(c)'
    BY <2>1, SMTT(60) DEF Token, Reads
  <2>3. value'[exitsem(c)] > 0 \/ pc'[c] \in Ending => c \in joined'
    BY <2>1, SMTT(60) DEF Ending
  <2> QED BY <2>2, <2>3, ZenonT(60)
<1>7. orderly' => Fresh'
  BY SMTT(60) DEF Orderly, Fresh, TypeOK, Ending
<1>8. orderly' => Served'
  BY SMTT(60) DEF Orderly, Served, Released, Joining
<1>9. orderly' => Childless'
  BY SMTT(60) DEF Orderly, Childless, Leaving, Released
<1> QED BY <1>1, <1>2, <1>3, <1>4, <1>5, <1>6, <1>7, <1>8, <1>9, ZenonT(60)
           DEF Orderly

(* The child's PCB fills a free slot; no program knows it yet.             *)
LEMMA LoadStep ==
  ASSUME IInv, NEW p \in Pids, Load(p),
         GetFreeSlot \in Pids \ pcb
  PROVE  IInv'
<1> USE SemNames
DEF IInv, Load, At, Running, Goto, NewSemaphores, pcbVars, history
<1>1. TypeOK'
  BY ProcTableAssumption, SMTT(60) DEF TypeOK, Places
<1>2. Slots'
  BY SMTT(60) DEF TypeOK, Slots, Leaving
<1>3. Loader'
  BY SMTT(60) DEF TypeOK, Loader, Loading, Slots
<1>4. Joins'
  BY SMTT(60) DEF TypeOK, Joins, Joining, Slots
<1>5. Exits'
  BY SMTT(60) DEF Exits, Leaving
<1>6. Tokens'
  <2> SUFFICES ASSUME NEW c \in Pids
               PROVE  /\ Token(c)'
                      /\ value'[exitsem(c)] > 0 \/ pc'[c] \in Ending => c \in joined'
    BY ZenonT(60) DEF Tokens
  <2>1. Token(c) /\ (value[exitsem(c)] > 0 \/ pc[c] \in Ending => c \in joined)
    BY ZenonT(60) DEF Tokens
  <2>2. Token(c)'
    BY <2>1, SMTT(60) DEF TypeOK, Token, Reads, Slots
  <2>3. value'[exitsem(c)] > 0 \/ pc'[c] \in Ending => c \in joined'
    BY <2>1, SMTT(60) DEF TypeOK, Ending
  <2> QED BY <2>2, <2>3, ZenonT(60)
<1>7. orderly' => Fresh'
  BY SMTT(60) DEF Orderly, Fresh, TypeOK, Ending, Joins, Tokens, Token
<1>8. orderly' => Served'
  BY SMTT(60) DEF Orderly, Served, TypeOK, Released, Joining, Slots
<1>9. orderly' => Childless'
  BY SMTT(60) DEF Orderly, Childless, TypeOK, Leaving, Released
<1> QED BY <1>1, <1>2, <1>3, <1>4, <1>5, <1>6, <1>7, <1>8, <1>9, ZenonT(60)
           DEF Orderly

(* The child's thread becomes ready.                                       *)
LEMMA ForkStep ==
  ASSUME IInv, NEW p \in Pids, Fork(p)
  PROVE  IInv'
<1> USE SemNames DEF IInv, Fork, At, Running, Goto, pcbVars, history
<1>0. /\ arg[p] \in pcb \ joined /\ arg[p] # p
      /\ pc[arg[p]] = "none" /\ parentID[arg[p]] = p
  BY ZenonT(60) DEF Loader, TypeOK
<1>1. TypeOK'
  BY ZenonT(60) DEF TypeOK, Places
<1>2. Slots'
  BY <1>0, SMTT(60) DEF TypeOK, Slots, Leaving
<1>3. Loader'
  BY <1>0, SMTT(60) DEF TypeOK, Loader, Loading, Slots
<1>4. Joins'
  BY ZenonT(60) DEF TypeOK, Joins, Joining
<1>5. Exits'
  BY <1>0, SMTT(60) DEF TypeOK, Exits, Leaving
<1>6. Tokens'
  <2> SUFFICES ASSUME NEW c \in Pids
               PROVE  /\ Token(c)'
                      /\ value'[exitsem(c)] > 0 \/ pc'[c] \in Ending => c \in joined'
    BY ZenonT(60) DEF Tokens
  <2>1. Token(c) /\ (value[exitsem(c)] > 0 \/ pc[c] \in Ending => c \in joined)
    BY ZenonT(60) DEF Tokens
  <2>2. Token(c)'
    BY <2>1, <1>0, ZenonT(60) DEF TypeOK, Token, Reads
  <2>3. value'[exitsem(c)] > 0 \/ pc'[c] \in Ending => c \in joined'
    BY <2>1, SMTT(60) DEF TypeOK, Ending
  <2> QED BY <2>2, <2>3, ZenonT(60)
<1>7. orderly' => Fresh'
  BY ZenonT(60) DEF Orderly, Fresh, TypeOK, Ending
<1>8. orderly' => Served'
  BY <1>0, SMTT(60) DEF Orderly, Served, TypeOK, Released, Joining
<1>9. orderly' => Childless'
  BY <1>0, SMTT(60) DEF Orderly, Childless, TypeOK, Leaving, Released
<1> QED BY <1>1, <1>2, <1>3, <1>4, <1>5, <1>6, <1>7, <1>8, <1>9, ZenonT(60)
           DEF Orderly

(* PCB::Exec releases the child's multex.                                  *)
LEMMA LoadedStep ==
  ASSUME IInv, NEW p \in Pids, Loaded(p)
  PROVE  IInv'
<1> USE SemNames DEF IInv, Loaded, At, Running, Goto, V, pcbVars, history
<1>1. TypeOK'
  BY SMTT(60) DEF TypeOK, Places
<1>2. Slots'
  BY SMTT(60) DEF Slots, Leaving
<1>3. Loader'
  BY SMTT(60) DEF TypeOK, Loader, Loading
<1>4. Joins'
  BY SMTT(60) DEF Joins, Joining
<1>5. Exits'
  BY SMTT(60) DEF Exits, Leaving
<1>6. Tokens'
  <2> SUFFICES ASSUME NEW c \in Pids
               PROVE  /\ Token(c)'
                      /\ value'[exitsem(c)] > 0 \/ pc'[c] \in Ending => c \in joined'
    BY ZenonT(60) DEF Tokens
  <2>1. Token(c) /\ (value[exitsem(c)] > 0 \/ pc[c] \in Ending => c \in joined)
    BY ZenonT(60) DEF Tokens
  <2>2. Token(c)'
    BY <2>1, ZenonT(60) DEF TypeOK, Token, Reads
  <2>3. value'[exitsem(c)] > 0 \/ pc'[c] \in Ending => c \in joined'
    BY <2>1, SMTT(60) DEF TypeOK, Ending
  <2> QED BY <2>2, <2>3, ZenonT(60)
<1>7. orderly' => Fresh'
  BY SMTT(60) DEF Orderly, Fresh, TypeOK, Ending
<1>8. orderly' => Served'
  BY SMTT(60) DEF Orderly, Served, Released, Joining
<1>9. orderly' => Childless'
  BY SMTT(60) DEF Orderly, Childless, Leaving, Released
<1> QED BY <1>1, <1>2, <1>3, <1>4, <1>5, <1>6, <1>7, <1>8, <1>9, ZenonT(60)
           DEF Orderly

(* Exec releases bmsem and returns the child.                              *)
LEMMA ExecUnlockStep ==
  ASSUME IInv, NEW p \in Pids, ExecUnlock(p)
  PROVE  IInv'
<1> USE SemNames
DEF IInv, ExecUnlock, At, Running, Goto, Return, V, pcbVars, history
<1>1. TypeOK'
  BY SMTT(60) DEF TypeOK, Places
<1>2. Slots'
  BY SMTT(60) DEF Slots, Leaving
<1>3. Loader'
  BY SMTT(60) DEF TypeOK, Loader, Loading
<1>4. Joins'
  BY SMTT(60) DEF Joins, Joining
<1>5. Exits'
  BY SMTT(60) DEF Exits, Leaving
<1>6. Tokens'
  <2> SUFFICES ASSUME NEW c \in Pids
               PROVE  /\ Token(c)'
                      /\ value'[exitsem(c)] > 0 \/ pc'[c] \in Ending => c \in joined'
    BY ZenonT(60) DEF Tokens
  <2>1. Token(c) /\ (value[exitsem(c)] > 0 \/ pc[c] \in Ending => c \in joined)
    BY ZenonT(60) DEF Tokens
  <2>2. Token(c)'
    BY <2>1, SMTT(60) DEF Token, Reads
  <2>3. value'[exitsem(c)] > 0 \/ pc'[c] \in Ending => c \in joined'
    BY <2>1, SMTT(60) DEF Ending
  <2> QED BY <2>2, <2>3, ZenonT(60)
<1>7. orderly' => Fresh'
  BY SMTT(60) DEF Orderly, Fresh, TypeOK, Ending
<1>8. orderly' => Served'
  BY SMTT(60) DEF Orderly, Served, Released, Joining
<1>9. orderly' => Childless'
  BY SMTT(60) DEF Orderly, Childless, Leaving, Released
<1> QED BY <1>1, <1>2, <1>3, <1>4, <1>5, <1>6, <1>7, <1>8, <1>9, ZenonT(60)
           DEF Orderly

(* The child enters its program.                                           *)
LEMMA StartStep ==
  ASSUME IInv, NEW p \in Pids, Start(p)
  PROVE  IInv'
<1> USE SemNames DEF IInv, Start, At, Running, Goto, pcbVars, history
<1>1. TypeOK'
  BY ZenonT(60) DEF TypeOK, Places
<1>2. Slots'
  BY SMTT(60) DEF Slots, Leaving
<1>3. Loader'
  BY SMTT(60) DEF Loader, Loading
<1>4. Joins'
  BY SMTT(60) DEF Joins, Joining
<1>5. Exits'
  BY SMTT(60) DEF Exits, Leaving
<1>6. Tokens'
  <2> SUFFICES ASSUME NEW c \in Pids
               PROVE  /\ Token(c)'
                      /\ value'[exitsem(c)] > 0 \/ pc'[c] \in Ending => c \in joined'
    BY ZenonT(60) DEF Tokens
  <2>1. Token(c) /\ (value[exitsem(c)] > 0 \/ pc[c] \in Ending => c \in joined)
    BY ZenonT(60) DEF Tokens
  <2>2. Token(c)'
    BY <2>1, ZenonT(60) DEF TypeOK, Token, Reads, Joining
  <2>3. value'[exitsem(c)] > 0 \/ pc'[c] \in Ending => c \in joined'
    BY <2>1, SMTT(60) DEF Ending
  <2> QED BY <2>2, <2>3, ZenonT(60)
<1>7. orderly' => Fresh'
  BY SMTT(60) DEF Orderly, Fresh, Ending
<1>8. orderly' => Served'
  BY SMTT(60) DEF Orderly, Served, Released, Joining
<1>9. orderly' => Childless'
  BY SMTT(60) DEF Orderly, Childless, Leaving, Released
<1> QED BY <1>1, <1>2, <1>3, <1>4, <1>5, <1>6, <1>7, <1>8, <1>9, ZenonT(60)
           DEF Orderly

(* A child that finds no frames halts the machine.                         *)
LEMMA StartOutOfMemoryStep ==
  ASSUME IInv, NEW p \in Pids, StartOutOfMemory(p)
  PROVE  IInv'
<1> USE SemNames DEF IInv, StartOutOfMemory, At, Running, pcbVars, history
<1>1. TypeOK'
  BY ZenonT(60) DEF TypeOK
<1>2. Slots'
  BY ZenonT(60) DEF Slots
<1>3. Loader'
  BY ZenonT(60) DEF Loader
<1>4. Joins'
  BY ZenonT(60) DEF Joins
<1>5. Exits'
  BY ZenonT(60) DEF Exits
<1>6. Tokens'
  <2> SUFFICES ASSUME NEW c \in Pids
               PROVE  /\ Token(c)'
                      /\ value'[exitsem(c)] > 0 \/ pc'[c] \in Ending => c \in joined'
    BY ZenonT(60) DEF Tokens
  <2>1. Token(c) /\ (value[exitsem(c)] > 0 \/ pc[c] \in Ending => c \in joined)
    BY ZenonT(60) DEF Tokens
  <2>2. Token(c)'
    BY <2>1, ZenonT(60) DEF Token, Reads
  <2>3. value'[exitsem(c)] > 0 \/ pc'[c] \in Ending => c \in joined'
    BY <2>1, ZenonT(60)
  <2> QED BY <2>2, <2>3, ZenonT(60)
<1>7. orderly' => Fresh'
  BY ZenonT(60) DEF Orderly, Fresh
<1>8. orderly' => Served'
  BY ZenonT(60) DEF Orderly, Served
<1>9. orderly' => Childless'
  BY ZenonT(60) DEF Orderly, Childless
<1> QED BY <1>1, <1>2, <1>3, <1>4, <1>5, <1>6, <1>7, <1>8, <1>9, ZenonT(60)
           DEF Orderly

(* Join of a process that is not a child returns -1.                       *)
LEMMA JoinFailsStep ==
  ASSUME IInv, NEW p \in Pids, NEW pid, JoinFails(p, pid)
  PROVE  IInv'
<1> USE SemNames
DEF IInv, JoinFails, At, Running, Goto, Return, pcbVars, history
<1>1. TypeOK'
  BY ZenonT(60) DEF TypeOK
<1>2. Slots'
  BY SMTT(60) DEF Slots
<1>3. Loader'
  BY SMTT(60) DEF Loader
<1>4. Joins'
  BY SMTT(60) DEF Joins
<1>5. Exits'
  BY SMTT(60) DEF Exits
<1>6. Tokens'
  <2> SUFFICES ASSUME NEW c \in Pids
               PROVE  /\ Token(c)'
                      /\ value'[exitsem(c)] > 0 \/ pc'[c] \in Ending => c \in joined'
    BY ZenonT(60) DEF Tokens
  <2>1. Token(c) /\ (value[exitsem(c)] > 0 \/ pc[c] \in Ending => c \in joined)
    BY ZenonT(60) DEF Tokens
  <2>2. Token(c)'
    BY <2>1, SMTT(60) DEF Token, Reads, Joins
  <2>3. value'[exitsem(c)] > 0 \/ pc'[c] \in Ending => c \in joined'
    BY <2>1, SMTT(60)
  <2> QED BY <2>2, <2>3, ZenonT(60)
<1>7. orderly' => Fresh'
  BY SMTT(60) DEF Orderly, Fresh
<1>8. orderly' => Served'
  BY SMTT(60) DEF Orderly, Served
<1>9. orderly' => Childless'
  BY SMTT(60) DEF Orderly, Childless
<1> QED BY <1>1, <1>2, <1>3, <1>4, <1>5, <1>6, <1>7, <1>8, <1>9, ZenonT(60)
           DEF Orderly

(* Join is called for a child.                                             *)
LEMMA JoinStep ==
  ASSUME IInv, NEW p \in Pids, NEW pid \in Pids, Join(p, pid)
  PROVE  IInv'
<1> USE SemNames
DEF IInv, Join, At, Running, Goto, Call, CanJoin, pcbVars, history
<1>0. p \in pcb
  BY ZenonT(60) DEF Slots, TypeOK, Leaving
<1>1. TypeOK'
  BY ZenonT(60) DEF TypeOK, Places
<1>2. Slots'
  BY SMTT(60) DEF Slots, Leaving
<1>3. Loader'
  BY SMTT(60) DEF Loader, Loading
<1>4. Joins'
  BY ZenonT(60) DEF TypeOK, Joins
<1>5. Exits'
  BY SMTT(60) DEF Exits, Leaving
<1>6. Tokens'
  <2> SUFFICES ASSUME NEW c \in Pids
               PROVE  /\ Token(c)'
                      /\ value'[exitsem(c)] > 0 \/ pc'[c] \in Ending => c \in joined'
    BY ZenonT(60) DEF Tokens
  <2>1. Token(c) /\ (value[exitsem(c)] > 0 \/ pc[c] \in Ending => c \in joined)
    BY ZenonT(60) DEF Tokens
  <2>2. Token(c)'
    BY <2>1, SMTT(60) DEF Token, Reads
  <2>3. value'[exitsem(c)] > 0 \/ pc'[c] \in Ending => c \in joined'
    BY <2>1, SMTT(60) DEF Ending
  <2> QED BY <2>2, <2>3, ZenonT(60)
<1>7. orderly' => Fresh'
  BY SMTT(60) DEF Orderly, Fresh, TypeOK, Ending, Tokens
<1>8. orderly' => Served'
  BY SMTT(60) DEF Orderly, Served, TypeOK, Released, Joining
<1>9. orderly' => Childless'
  BY SMTT(60) DEF Orderly, Childless, TypeOK, Leaving, Released
<1> QED BY <1>1, <1>2, <1>3, <1>4, <1>5, <1>6, <1>7, <1>8, <1>9, ZenonT(60)
           DEF Orderly

(* The parent passes its own multex.                                       *)
LEMMA IncNumWaitStep ==
  ASSUME IInv, NEW p \in Pids, IncNumWait(p)
  PROVE  IInv'
<1> USE SemNames DEF IInv, IncNumWait, At, Running, Goto, P, pcbVars, history
<1>1. TypeOK'
  BY SMTT(60) DEF TypeOK, Places
<1>2. Slots'
  BY SMTT(60) DEF Slots, Leaving
<1>3. Loader'
  BY SMTT(60) DEF Loader, Loading
<1>4. Joins'
  BY SMTT(60) DEF Joins, Joining
<1>5. Exits'
  BY SMTT(60) DEF Exits, Leaving
<1>6. Tokens'
  <2> SUFFICES ASSUME NEW c \in Pids
               PROVE  /\ Token(c)'
                      /\ value'[exitsem(c)] > 0 \/ pc'[c] \in Ending => c \in joined'
    BY ZenonT(60) DEF Tokens
  <2>1. Token(c) /\ (value[exitsem(c)] > 0 \/ pc[c] \in Ending => c \in joined)
    BY ZenonT(60) DEF Tokens
  <2>2. Token(c)'
    BY <2>1, SMTT(60) DEF Token, Reads, Leaving
  <2>3. value'[exitsem(c)] > 0 \/ pc'[c] \in Ending => c \in joined'
    BY <2>1, SMTT(60) DEF Ending
  <2> QED BY <2>2, <2>3, ZenonT(60)
<1>7. orderly' => Fresh'
  BY SMTT(60) DEF Orderly, Fresh, Ending
<1>8. orderly' => Served'
  BY SMTT(60) DEF Orderly, Served, Released, Joining
<1>9. orderly' => Childless'
  BY SMTT(60) DEF Orderly, Childless, Leaving, Released
<1> QED BY <1>1, <1>2, <1>3, <1>4, <1>5, <1>6, <1>7, <1>8, <1>9, ZenonT(60)
           DEF Orderly

(* The parent counts itself as waiting.                                    *)
LEMMA IncNumWaitDoneStep ==
  ASSUME IInv, NEW p \in Pids, IncNumWaitDone(p)
  PROVE  IInv'
<1> USE SemNames
DEF IInv, IncNumWaitDone, At, Running, Goto, V, pcbVars, history
<1>1. TypeOK'
  BY SMTT(60) DEF TypeOK, Places
<1>2. Slots'
  BY SMTT(60) DEF Slots, Leaving
<1>3. Loader'
  BY SMTT(60) DEF Loader, Loading
<1>4. Joins'
  BY SMTT(60) DEF Joins, Joining
<1>5. Exits'
  BY SMTT(60) DEF Exits, Leaving
<1>6. Tokens'
  <2> SUFFICES ASSUME NEW c \in Pids
               PROVE  /\ Token(c)'
                      /\ value'[exitsem(c)] > 0 \/ pc'[c] \in Ending => c \in joined'
    BY ZenonT(60) DEF Tokens
  <2>1. Token(c) /\ (value[exitsem(c)] > 0 \/ pc[c] \in Ending => c \in joined)
    BY ZenonT(60) DEF Tokens
  <2>2. Token(c)'
    BY <2>1, SMTT(60) DEF Token, Reads
  <2>3. value'[exitsem(c)] > 0 \/ pc'[c] \in Ending => c \in joined'
    BY <2>1, SMTT(60) DEF Ending
  <2> QED BY <2>2, <2>3, ZenonT(60)
<1>7. orderly' => Fresh'
  BY SMTT(60) DEF Orderly, Fresh, TypeOK, Ending
<1>8. orderly' => Served'
  BY SMTT(60) DEF Orderly, Served, Released, Joining
<1>9. orderly' => Childless'
  BY SMTT(60) DEF Orderly, Childless, Leaving, Released
<1> QED BY <1>1, <1>2, <1>3, <1>4, <1>5, <1>6, <1>7, <1>8, <1>9, ZenonT(60)
           DEF Orderly

(* The parent passes joinsem and takes the permission to leave.            *)
LEMMA JoinWaitStep ==
  ASSUME IInv, NEW p \in Pids, JoinWait(p)
  PROVE  IInv'
<1> USE SemNames DEF IInv, JoinWait, At, Running, Goto, P, pcbVars, history
<1>1. TypeOK'
  BY SMTT(60) DEF TypeOK, Places
<1>2. Slots'
  BY SMTT(60) DEF Slots, Leaving
<1>3. Loader'
  BY SMTT(60) DEF TypeOK, Loader, Loading
<1>4. Joins'
  BY SMTT(60) DEF Joins, Joining
<1>5. Exits'
  BY SMTT(60) DEF Exits, Leaving
<1>6. Tokens'
  <2> SUFFICES ASSUME NEW c \in Pids
               PROVE  /\ Token(c)'
                      /\ value'[exitsem(c)] > 0 \/ pc'[c] \in Ending => c \in joined'
    BY ZenonT(60) DEF Tokens
  <2>1. Token(c) /\ (value[exitsem(c)] > 0 \/ pc[c] \in Ending => c \in joined)
    BY ZenonT(60) DEF Tokens
  <2>2. Token(c)'
    BY <2>1, SMTT(60) DEF TypeOK, Token, Reads, Joins, Joining
  <2>3. value'[exitsem(c)] > 0 \/ pc'[c] \in Ending => c \in joined'
    BY <2>1, SMTT(60) DEF Ending
  <2> QED BY <2>2, <2>3, ZenonT(60)
<1>7. orderly' => Fresh'
  BY SMTT(60) DEF Orderly, Fresh, Ending
<1>8. orderly' => Served'
  BY SMTT(60) DEF Orderly, Served, Released, Joining
<1>9. orderly' => Childless'
  BY SMTT(60) DEF Orderly, Childless, Leaving, Released
<1> QED BY <1>1, <1>2, <1>3, <1>4, <1>5, <1>6, <1>7, <1>8, <1>9, ZenonT(60)
           DEF Orderly

(* The parent has read the code and hands the permission on.               *)
LEMMA ExitReleaseStep ==
  ASSUME IInv, NEW p \in Pids, ExitRelease(p)
  PROVE  IInv'
<1> USE SemNames
DEF IInv, ExitRelease, At, Running, Goto, Return, V, pcbVars, history
<1>1. TypeOK'
  BY SMTT(60) DEF TypeOK, Places
<1>2. Slots'
  BY SMTT(60) DEF Slots, Leaving
<1>3. Loader'
  BY SMTT(60) DEF TypeOK, Loader, Loading
<1>4. Joins'
  BY SMTT(60) DEF Joins, Joining
<1>5. Exits'
  BY SMTT(60) DEF Exits, Leaving
<1>6. Tokens'
  <2> SUFFICES ASSUME NEW c \in Pids
               PROVE  /\ Token(c)'
                      /\ value'[exitsem(c)] > 0 \/ pc'[c] \in Ending => c \in joined'
    BY ZenonT(60) DEF Tokens
  <2>1. Token(c) /\ (value[exitsem(c)] > 0 \/ pc[c] \in Ending => c \in joined)
    BY ZenonT(60) DEF Tokens
  <2>2. Token(c)'
    BY <2>1, SMTT(60) DEF TypeOK, Token, Reads, Joins, Joining
  <2>3. value'[exitsem(c)] > 0 \/ pc'[c] \in Ending => c \in joined'
    BY <2>1, SMTT(60) DEF TypeOK, Ending, Joins, Joining
  <2> QED BY <2>2, <2>3, ZenonT(60)
<1>7. orderly' => Fresh'
  BY SMTT(60) DEF Orderly, Fresh, TypeOK, Ending, Joins, Joining
<1>8. orderly' => Served'
  BY SMTT(60) DEF Orderly, Served, TypeOK, Released, Tokens, Token, Reads
<1>9. orderly' => Childless'
  BY SMTT(60) DEF Orderly, Childless, Leaving, Released
<1> QED BY <1>1, <1>2, <1>3, <1>4, <1>5, <1>6, <1>7, <1>8, <1>9, ZenonT(60)
           DEF Orderly

=============================================================================
