---------------------------- MODULE ProcTableInv ----------------------------
(***************************************************************************)
(* The inductive invariant of the process table.                           *)
(***************************************************************************)
EXTENDS ProcTable

Loading  == {"load", "fork", "loaded", "unlock"}
Joining  == {"inc", "incV", "wait", "read"}
Leaving  == {"dec", "decV", "joinV", "exitP", "remove", "gone"}
Released == {"exitP", "remove", "gone"}
Ending   == {"remove", "gone"}

(* Slots are filled once, by a parent that is in the table.                *)
Slots ==
  /\ 0 \in pcb /\ parentID[0] = -1 /\ pc[0] \notin Leaving
  /\ joined \subseteq pcb
  /\ \A p \in Pids : pc[p] # "none" => p \in pcb
  /\ \A p \in pcb : p # 0 => parentID[p] \in Pids
  /\ \A p \in Pids \ pcb : parentID[p] = -1

(* One process holds bmsem, or none; the child it creates is not yet known *)
(* to any program.                                                         *)
Loader ==
  /\ \A p \in Pids : pc[p] \in Loading =>
       value[bmsem] = 0 /\ \A q \in Pids : pc[q] \in Loading => q = p
  /\ value[bmsem] = 0 => \E p \in Pids : pc[p] \in Loading
  /\ value[bmsem] <= 1
  /\ \A p \in Pids : pc[p] \in {"fork", "loaded"} =>
       arg[p] \in pcb /\ arg[p] \notin joined /\ parentID[arg[p]] = p
  /\ \A p \in Pids : pc[p] = "fork" => pc[arg[p]] = "none"

(* A process in Join waits for a child of its own.                         *)
Joins ==
  \A p \in Pids : pc[p] \in Joining =>
    arg[p] \in joined /\ parentID[arg[p]] = p

Exits ==
  /\ exitcode = exited
  /\ \A p \in Pids : pc[p] \in Leaving => exited[p] \in Codes
  /\ \A p \in deleted : pc[p] = "gone"

(* The parent of c has passed joinsem and not yet released exitsem.        *)
Reads(c) ==
  /\ parentID[c] \in Pids
  /\ pc[parentID[c]] = "read"
  /\ arg[parentID[c]] = c

(* The permission to leave: it comes into being with JoinRelease, passes   *)
(* from joinsem through the parent to exitsem, and ends with ExitWait.     *)
Token(c) ==
  IF pc[c] = "exitP"
  THEN \/ value[joinsem(c)] = 1 /\ value[exitsem(c)] = 0 /\ ~Reads(c)
       \/ value[joinsem(c)] = 0 /\ value[exitsem(c)] = 1 /\ ~Reads(c)
       \/ value[joinsem(c)] = 0 /\ value[exitsem(c)] = 0 /\ Reads(c)
  ELSE value[joinsem(c)] = 0 /\ value[exitsem(c)] = 0 /\ ~Reads(c)

Tokens == \A c \in Pids :
  /\ Token(c)
  /\ value[exitsem(c)] > 0 \/ pc[c] \in Ending => c \in joined

(* What orderly programs add.  A Join in progress is the first one of its  *)
(* child.                                                                  *)
Fresh ==
  \A p \in Pids : pc[p] \in {"inc", "incV", "wait"} =>
    value[exitsem(arg[p])] = 0 /\ pc[arg[p]] \notin Ending

(* A child whose Join has returned has done all it does to its parent, and *)
(* so have all the children of a process that leaves.                      *)
Served ==
  \A c \in joined :
    \/ pc[c] \in Released
    \/ parentID[c] \in Pids /\ pc[parentID[c]] \in Joining /\ arg[parentID[c]] = c

Childless ==
  \A c \in pcb :
    parentID[c] \in Pids /\ pc[parentID[c]] \in Leaving =>
      c \in joined /\ pc[c] \in Released

Orderly == ~fault /\ Fresh /\ Served /\ Childless

IInv ==
  /\ TypeOK /\ Slots /\ Loader /\ Joins /\ Exits /\ Tokens
  /\ orderly => Orderly

=============================================================================
