---------------------------- MODULE KernelProofs ----------------------------
(***************************************************************************)
(* Proofs about the thread kernel, for any set of threads, semaphores and  *)
(* devices and any initial values.                                         *)
(***************************************************************************)
EXTENDS Kernel, FiniteSetTheorems, TLAPS

-----------------------------------------------------------------------------
(* The lists of List (list.cc) seen as sets of their elements.             *)

(* Append adds an element at the end of a list.                            *)
LEMMA AppendElems ==
  ASSUME NEW S, NEW q \in Seq(S), NEW e \in S
  PROVE  /\ Append(q, e) \in Seq(S)
         /\ Append(q, e) # <<>>
         /\ Elems(Append(q, e)) = Elems(q) \cup {e}
         /\ NoDuplicates(q) /\ e \notin Elems(q) => NoDuplicates(Append(q, e))
<1> DEFINE r == Append(q, e)
<1>1. /\ r \in Seq(S)
      /\ Len(r) = Len(q) + 1
      /\ DOMAIN r = 1 .. Len(q) + 1
      /\ DOMAIN q = 1 .. Len(q)
      /\ Len(q) \in Nat
      /\ \A i \in 1 .. Len(q) : r[i] = q[i]
      /\ r[Len(q) + 1] = e
  BY SMTT(60)
<1> HIDE DEF r
<1>2. r # <<>>
  BY <1>1, SMTT(60)
<1>3. Elems(r) = Elems(q) \cup {e}
  BY <1>1, SMTT(60) DEF Elems
<1>4. NoDuplicates(q) /\ e \notin Elems(q) => NoDuplicates(r)
  BY <1>1, SMTT(60) DEF Elems, NoDuplicates
<1> QED
  BY <1>1, <1>2, <1>3, <1>4, ZenonT(60) DEF r

(* Remove takes the first element off a nonempty list.                     *)
LEMMA TailElems ==
  ASSUME NEW S, NEW q \in Seq(S), q # <<>>
  PROVE  /\ Head(q) \in S
         /\ Head(q) \in Elems(q)
         /\ Tail(q) \in Seq(S)
         /\ NoDuplicates(q) => /\ NoDuplicates(Tail(q))
                               /\ Elems(Tail(q)) = Elems(q) \ {Head(q)}
<1> DEFINE r == Tail(q)
<1>1. /\ r \in Seq(S)
      /\ DOMAIN r = 1 .. Len(q) - 1
      /\ DOMAIN q = 1 .. Len(q)
      /\ Len(q) \in Nat \ {0}
      /\ \A i \in 1 .. Len(q) - 1 : r[i] = q[i + 1]
      /\ Head(q) = q[1]
      /\ \A i \in 1 .. Len(q) : q[i] \in S
  BY SMTT(60)
<1> HIDE DEF r
<1>2. Head(q) \in S /\ Head(q) \in Elems(q)
  BY <1>1, SMTT(60) DEF Elems
<1>3. ASSUME NoDuplicates(q)
      PROVE  NoDuplicates(r) /\ Elems(r) = Elems(q) \ {Head(q)}
  <2>1. NoDuplicates(r)
    <3>1. SUFFICES ASSUME NEW i \in 1 .. Len(q) - 1, NEW j \in 1 .. Len(q) - 1,
                          r[i] = r[j]
                   PROVE  i = j
      BY <1>1, ZenonT(60) DEF NoDuplicates
    <3>2. /\ i + 1 \in 1 .. Len(q)
          /\ j + 1 \in 1 .. Len(q)
          /\ q[i + 1] = q[j + 1]
      BY <1>1, <3>1, SMTT(60)
    <3>3. i + 1 = j + 1
      BY <1>1, <1>3, <3>2, ZenonT(60) DEF NoDuplicates
    <3> QED
      BY <3>3, SMTT(60)
  <2>2. ASSUME NEW x \in Elems(r)
        PROVE  x \in Elems(q) \ {Head(q)}
    <3>1. PICK i \in 1 .. Len(q) - 1 : r[i] = x
      BY <1>1, <2>2, ZenonT(60) DEF Elems
    <3>2. i + 1 \in 1 .. Len(q) /\ i + 1 # 1 /\ 1 \in 1 .. Len(q) /\ q[i + 1] = x
      BY <1>1, <3>1, SMTT(60)
    <3> QED
      BY <1>1, <1>3, <3>2, ZenonT(60) DEF Elems, NoDuplicates
  <2>3. ASSUME NEW x \in Elems(q) \ {Head(q)}
        PROVE  x \in Elems(r)
    <3>1. PICK i \in 1 .. Len(q) : q[i] = x
      BY <1>1, <2>3, ZenonT(60) DEF Elems
    <3>2. i - 1 \in 1 .. Len(q) - 1 /\ r[i - 1] = x
      BY <1>1, <2>3, <3>1, SMTT(60)
    <3> QED
      BY <1>1, <3>2, ZenonT(60) DEF Elems
  <2> QED
    BY <2>1, <2>2, <2>3, ZenonT(60)
<1> QED
  BY <1>1, <1>2, <1>3, ZenonT(60) DEF r

(* A list is empty exactly when it has no elements.                        *)
LEMMA EmptyElems ==
  /\ Elems(<<>>) = {}
  /\ NoDuplicates(<<>>)
  /\ \A S : \A q \in Seq(S) : Elems(q) \subseteq S /\ (Elems(q) = {} => q = <<>>)
<1>1. Elems(<<>>) = {} /\ NoDuplicates(<<>>)
  BY SMTT(60) DEF Elems, NoDuplicates
<1>2. ASSUME NEW S, NEW q \in Seq(S)
      PROVE  Elems(q) \subseteq S /\ (Elems(q) = {} => q = <<>>)
  <2>1. DOMAIN q = 1 .. Len(q) /\ Len(q) \in Nat /\ \A i \in 1 .. Len(q) : q[i] \in S
    BY SMTT(60)
  <2>2. q # <<>> => 1 \in DOMAIN q
    BY SMTT(60)
  <2> QED
    BY <2>1, <2>2, ZenonT(60) DEF Elems
<1> QED
  BY <1>1, <1>2, ZenonT(60)

-----------------------------------------------------------------------------
(* The inductive invariant holds initially and is kept by every step.      *)

(* Only finitely many threads have been woken.                             *)
LEMMA WokenFinite ==
  ASSUME NEW s \in Sems
  PROVE  IsFiniteSet(Woken(s)) /\ Cardinality(Woken(s)) \in Nat
<1>1. Woken(s) \subseteq Threads
  BY ZenonT(60) DEF Woken
<1> QED
  BY <1>1, FS_Subset, FS_CardinalityType, KernelAssumption, ZenonT(60)

(* The state Initialize() leaves satisfies the invariant.                  *)
LEMMA InitIInv == Init => IInv
<1> SUFFICES ASSUME Init
             PROVE  IInv
  BY ZenonT(60)
<1> USE KernelAssumption
<1>1. TypeOK
  <2>1. <<NULL, 0>> \in Context
    BY ZenonT(60) DEF Context
  <2>2. queue \in [Sems -> Seq(Threads)] /\ readyList \in Seq(Threads)
    BY SMTT(60) DEF Init
  <2>3. /\ status \in [Threads -> {"NONE", "RUNNING", "READY", "BLOCKED"}]
        /\ pc \in [Threads -> Places]
    BY ZenonT(60) DEF Init, Places
  <2> QED
    BY <2>1, <2>2, <2>3, ZenonT(60) DEF Init, TypeOK
<1>2. PlaceConsistent
  BY ZenonT(60) DEF Init, PlaceConsistent
<1>3. ThreadPlacement
  BY EmptyElems, ZenonT(60) DEF Init, ThreadPlacement
<1>4. NoLostWakeup
  BY ZenonT(60) DEF Init, NoLostWakeup
<1> QED
  BY <1>1, <1>2, <1>3, <1>4, ZenonT(60) DEF IInv

(* Semaphore::V, by a thread or by an interrupt handler, moves the first   *)
(* waiter to the ready list and so adds one to both sides of NoLostWakeup. *)
LEMMA ReleaseIInv ==
  ASSUME IInv, NEW s \in Sems, Release(s),
         UNCHANGED <<currentThread, threadToBeDestroyed, sem>>,
         pc' \in [Threads -> Places],
         \A t \in Threads \ {currentThread} : pc'[t] = pc[t],
         \/ pc[currentThread] \in {"user", "tick"} /\ pc'[currentThread] = "tick"
         \/ pc[currentThread] \in {"sleep", "idle"} /\ pc'[currentThread] = "idle"
  PROVE  /\ status' \in [Threads -> {"NONE", "RUNNING", "READY", "BLOCKED"}]
         /\ readyList' \in Seq(Threads)
         /\ value' \in [Sems -> Nat]
         /\ queue' \in [Sems -> Seq(Threads)]
         /\ PlaceConsistent' /\ ThreadPlacement' /\ NoLostWakeup'
<1> USE DEF IInv
<1>1. CASE queue[s] = <<>>
  <2>1. /\ UNCHANGED <<queue, status, readyList>>
        /\ value' = [value EXCEPT ![s] = @ + 1]
    BY <1>1, ZenonT(60) DEF Release
  <2>2. value' \in [Sems -> Nat]
    BY <2>1, SMTT(60) DEF TypeOK
  <2>3. PlaceConsistent'
    BY <2>1, ZenonT(60) DEF PlaceConsistent, TypeOK
  <2>4. ThreadPlacement'
    BY <2>1, ZenonT(60) DEF ThreadPlacement, TypeOK
  <2>5. NoLostWakeup'
    BY <1>1, <2>1, ZenonT(60) DEF NoLostWakeup, TypeOK, Woken
  <2> QED
    BY <2>1, <2>2, <2>3, <2>4, <2>5, ZenonT(60) DEF TypeOK
<1>2. CASE queue[s] # <<>>
  <2> DEFINE h == Head(queue[s])
  <2>1. /\ value' = [value EXCEPT ![s] = @ + 1]
        /\ queue' = [queue EXCEPT ![s] = Tail(@)]
        /\ status' = [status EXCEPT ![h] = "READY"]
        /\ readyList' = Append(readyList, h)
    BY <1>2, ZenonT(60) DEF Release
  <2>2. /\ h \in Threads
        /\ h \in Elems(queue[s])
        /\ queue'[s] \in Seq(Threads)
        /\ NoDuplicates(queue'[s])
        /\ Elems(queue'[s]) = Elems(queue[s]) \ {h}
        /\ \A r \in Sems \ {s} : queue'[r] = queue[r]
    BY <1>2, <2>1, TailElems, SMTT(60) DEF TypeOK, ThreadPlacement
  <2> HIDE DEF h
  <2>3. status[h] = "BLOCKED" /\ sem[h] = s /\ h \notin Elems(readyList)
    BY <2>2, ZenonT(60) DEF ThreadPlacement
  <2>4. /\ readyList' \in Seq(Threads)
        /\ NoDuplicates(readyList')
        /\ Elems(readyList') = Elems(readyList) \cup {h}
    BY <2>1, <2>2, <2>3, AppendElems, SMTT(60) DEF TypeOK, ThreadPlacement
  <2>5. /\ status' \in [Threads -> {"NONE", "RUNNING", "READY", "BLOCKED"}]
        /\ value' \in [Sems -> Nat]
        /\ queue' \in [Sems -> Seq(Threads)]
    BY <2>1, <2>2, SMTT(60) DEF TypeOK
  <2>6. PlaceConsistent'
    BY <2>1, <2>2, <2>3, KernelAssumption, SMTT(60)
       DEF PlaceConsistent, TypeOK
  <2>7. ThreadPlacement'
    BY <2>1, <2>2, <2>3, <2>4, SMTT(60)
       DEF ThreadPlacement, TypeOK, PlaceConsistent
  <2>8. NoLostWakeup'
    <3>1. SUFFICES ASSUME NEW r \in Sems, queue'[r] # <<>>
                   PROVE  value'[r] <= Cardinality(Woken(r)')
      BY ZenonT(60) DEF NoLostWakeup
    <3>2. CASE r = s
      <4>1. Woken(s)' = Woken(s) \cup {h} /\ h \notin Woken(s)
        BY <2>2, <2>3, ZenonT(60) DEF Woken
      <4>2. Cardinality(Woken(s)') = Cardinality(Woken(s)) + 1
        BY <4>1, WokenFinite, FS_AddElement, ZenonT(60)
      <4> QED
        BY <1>2, <2>1, <3>2, <4>2, WokenFinite, SMTT(60)
           DEF NoLostWakeup, TypeOK
    <3>3. CASE r # s
      <4>1. Woken(r)' = Woken(r)
        BY <2>2, <3>3, ZenonT(60) DEF Woken
      <4> QED
        BY <2>1, <2>2, <3>1, <3>3, <4>1, ZenonT(60) DEF NoLostWakeup, TypeOK
    <3> QED
      BY <3>2, <3>3, ZenonT(60)
  <2> QED
    BY <2>4, <2>5, <2>6, <2>7, <2>8, ZenonT(60)
<1> QED
  BY <1>1, <1>2, ZenonT(60)

(* A pass through the loop of Semaphore::P by the running thread: it       *)
(* sleeps only while the value is 0, and a thread that was woken leaves    *)
(* the woken ones as it takes its unit.                                    *)
LEMMA TryPIInv ==
  ASSUME IInv, NEW s \in Sems, TryP(s),
         \/ pc[currentThread] = "user"
         \/ pc[currentThread] = "P" /\ sem[currentThread] = s
  PROVE  IInv'
<1> DEFINE c == currentThread
<1> USE DEF IInv
<1>0. /\ c \in Threads
      /\ c \notin Elems(readyList)
      /\ \A r \in Sems : c \notin Elems(queue[r])
      /\ status[c] = "RUNNING"
      /\ sem[c] \in {NULL, s}
      /\ sem[c] = s <=> pc[c] = "P"
      /\ NULL \notin Sems
  BY KernelAssumption, SMTT(60) DEF TypeOK, ThreadPlacement, PlaceConsistent
<1>1. CASE value[s] = 0
  <2>1. /\ queue' = [queue EXCEPT ![s] = Append(@, c)]
        /\ status' = [status EXCEPT ![c] = "BLOCKED"]
        /\ sem' = [sem EXCEPT ![c] = s]
        /\ pc' = [pc EXCEPT ![c] = "sleep"]
        /\ UNCHANGED <<value, currentThread, readyList, threadToBeDestroyed,
                       intVars, userVars>>
    BY <1>1, ZenonT(60) DEF TryP, Goto
  <2>2. /\ queue'[s] \in Seq(Threads)
        /\ NoDuplicates(queue'[s])
        /\ Elems(queue'[s]) = Elems(queue[s]) \cup {c}
        /\ \A r \in Sems \ {s} : queue'[r] = queue[r]
    BY <1>0, <2>1, AppendElems, SMTT(60) DEF TypeOK, ThreadPlacement
  <2>3. TypeOK'
    BY <1>0, <2>1, <2>2, ZenonT(60) DEF TypeOK, Places, intVars, userVars
  <2>4. PlaceConsistent'
    BY <1>0, <2>1, KernelAssumption, ZenonT(60) DEF PlaceConsistent, TypeOK
  <2>5. ThreadPlacement'
    BY <1>0, <2>1, <2>2, SMTT(60) DEF ThreadPlacement, TypeOK
  <2>6. NoLostWakeup'
    <3>1. SUFFICES ASSUME NEW r \in Sems, queue'[r] # <<>>
                   PROVE  value'[r] <= Cardinality(Woken(r)')
      BY ZenonT(60) DEF NoLostWakeup
    <3>2. CASE r = s
      <4>1. Woken(s)' \subseteq Threads
        BY ZenonT(60) DEF Woken
      <4>2. Cardinality(Woken(s)') \in Nat
        BY <4>1, FS_Subset, FS_CardinalityType, KernelAssumption, ZenonT(60)
      <4> QED
        BY <1>1, <2>1, <3>2, <4>2, SMTT(60)
    <3>3. CASE r # s
      <4>1. Woken(r)' = Woken(r)
        BY <1>0, <2>1, <2>2, <3>3, ZenonT(60) DEF Woken, TypeOK
      <4> QED
        BY <2>1, <2>2, <3>1, <3>3, <4>1, ZenonT(60) DEF NoLostWakeup
    <3> QED
      BY <3>2, <3>3, ZenonT(60)
  <2> QED
    BY <2>3, <2>4, <2>5, <2>6, ZenonT(60)
<1>2. CASE value[s] # 0
  <2>1. /\ value' = [value EXCEPT ![s] = @ - 1]
        /\ sem' = [sem EXCEPT ![c] = NULL]
        /\ pc' = [pc EXCEPT ![c] = "tick"]
        /\ UNCHANGED <<queue, status, currentThread, readyList,
                       threadToBeDestroyed, intVars, userVars>>
    BY <1>2, ZenonT(60) DEF TryP, Goto
  <2>2. TypeOK'
    BY <1>0, <1>2, <2>1, SMTT(60) DEF TypeOK, Places, intVars, userVars
  <2>3. PlaceConsistent'
    BY <1>0, <2>1, KernelAssumption, ZenonT(60) DEF PlaceConsistent, TypeOK
  <2>4. ThreadPlacement'
    BY <1>0, <2>1, SMTT(60) DEF ThreadPlacement, TypeOK
  <2>5. NoLostWakeup'
    <3>1. SUFFICES ASSUME NEW r \in Sems, queue[r] # <<>>
                   PROVE  value'[r] <= Cardinality(Woken(r)')
      BY <2>1, ZenonT(60) DEF NoLostWakeup
    <3>2. Woken(r)' = IF r = s THEN Woken(r) \ {c} ELSE Woken(r)
      BY <1>0, <2>1, ZenonT(60) DEF Woken, TypeOK
    <3>3. \/ Cardinality(Woken(s) \ {c}) = Cardinality(Woken(s)) - 1
          \/ Cardinality(Woken(s) \ {c}) = Cardinality(Woken(s))
      <4>1. IsFiniteSet(Woken(s))
        BY WokenFinite, ZenonT(60)
      <4>2. Cardinality(Woken(s) \ {c}) = IF c \in Woken(s)
                                          THEN Cardinality(Woken(s)) - 1
                                          ELSE Cardinality(Woken(s))
        BY <4>1, FS_RemoveElement, ZenonT(60)
      <4> QED
        BY <4>2, ZenonT(60)
    <3>4. Cardinality(Woken(r)) \in Nat /\ value[r] <= Cardinality(Woken(r))
      BY <3>1, WokenFinite, ZenonT(60) DEF NoLostWakeup
    <3>5. /\ value[r] \in Nat
          /\ value'[r] = IF r = s THEN value[r] - 1 ELSE value[r]
      BY <2>1, ZenonT(60) DEF TypeOK
    <3>6. CASE r = s
      <4>1. Woken(r)' = Woken(s) \ {c} /\ value'[r] = value[r] - 1
        BY <3>2, <3>5, <3>6, ZenonT(60)
      <4>2. value[r] - 1 <= Cardinality(Woken(s) \ {c})
        BY <3>3, <3>4, <3>5, <3>6, SMTT(60)
      <4> QED
        BY <4>1, <4>2, ZenonT(60)
    <3>7. CASE r # s
      BY <3>2, <3>4, <3>5, <3>7, ZenonT(60)
    <3> QED
      BY <3>6, <3>7, ZenonT(60)
  <2> QED
    BY <2>2, <2>3, <2>4, <2>5, ZenonT(60)
<1> QED
  BY <1>1, <1>2, ZenonT(60)

(* Scheduler::Run, called by Yield or by Sleep, gives the processor to a   *)
(* ready thread and deletes no thread but a finished one.                  *)
LEMMA RunIInv ==
  ASSUME IInv,
         NEW next \in Threads, NEW rl \in Seq(Threads),
         NEW st \in [Threads -> {"NONE", "RUNNING", "READY", "BLOCKED"}],
         NEW back, Run(next, rl, st, back),
         yieldOnReturn' \in BOOLEAN,
         status[next] = "READY",
         NoDuplicates(rl),
         Elems(rl) = {t \in Threads : st[t] = "READY"} \ {next},
         \A t \in Threads \ {currentThread} : st[t] = status[t],
         \/ /\ pc[currentThread] \in {"user", "tick"}
            /\ st[currentThread] = "READY"
            /\ back = "tick"
         \/ /\ pc[currentThread] = "sleep"
            /\ st[currentThread] = status[currentThread]
            /\ back = IF sem[currentThread] = NULL THEN "dead" ELSE "P"
  PROVE  IInv'
<1> DEFINE c == currentThread
           d == threadToBeDestroyed
<1> USE DEF IInv
<1>0. /\ c \in Threads
      /\ d \in Threads \cup {NULL}
      /\ NULL \notin Threads
      /\ next # d
      /\ pc[next] \in {"new", "tick", "P", "sleep"}
      /\ pc[next] = "sleep" => next = c /\ sem[c] # NULL
      /\ pc[next] = "P" <=> sem[next] # NULL /\ next # c
      /\ back \in {"tick", "P", "dead"}
      /\ next = c => back = "P"
  BY KernelAssumption, ZenonT(60)
     DEF TypeOK, ThreadPlacement, PlaceConsistent, Places
<1>1. /\ currentThread' = next
      /\ readyList' = rl
      /\ UNCHANGED <<sem, value, queue, pending, halted, userState>>
  BY ZenonT(60) DEF Run, ThreadRoot, semVars
<1>2. \A t \in Threads :
        /\ status'[t] = IF t = next THEN "RUNNING"
                        ELSE IF t = d /\ pc[next] # "new" THEN "NONE" ELSE st[t]
        /\ pc'[t] = IF t = next /\ pc[t] = "new" THEN "tick"
                    ELSE IF t = d /\ pc[next] # "new" THEN "none"
                    ELSE IF t = c THEN back ELSE pc[t]
  <2>1. CASE pc[next] = "new"
    <3>1. next # c
      BY <1>0, <2>1, ZenonT(60) DEF PlaceConsistent
    <3> QED
      BY <1>0, <2>1, <3>1, SMTT(60)
         DEF Run, ThreadRoot, SaveUserState, RestoreUserState, TypeOK
  <2>2. CASE pc[next] # "new"
    <3>1. [pc EXCEPT ![c] = back][next] # "new"
      BY <1>0, <2>2, ZenonT(60) DEF TypeOK
    <3> QED
      BY <1>0, <2>2, <3>1, SMTT(60) DEF Run, ThreadRoot, Bury, TypeOK
  <2> QED
    BY <2>1, <2>2, ZenonT(60)
<1>3. threadToBeDestroyed' = IF pc[next] = "new" THEN d ELSE NULL
  BY <1>0, ZenonT(60) DEF Run, ThreadRoot, TypeOK, PlaceConsistent
<1>4. TypeOK'
  <2> DEFINE Statuses == {"NONE", "RUNNING", "READY", "BLOCKED"}
             pcs == [pc EXCEPT ![c] = back]
             sts == [st EXCEPT ![next] = "RUNNING"]
  <2>a. /\ pcs \in [Threads -> Places]
        /\ sts \in [Threads -> Statuses]
    BY <1>0, ZenonT(60) DEF TypeOK, Places
  <2>b. /\ [pcs EXCEPT ![next] = "tick"] \in [Threads -> Places]
        /\ Bury(pcs, "none") \in [Threads -> Places]
        /\ Bury(sts, "NONE") \in [Threads -> Statuses]
    <3> HIDE DEF pcs, sts
    <3> QED
      BY <1>0, <2>a, ZenonT(60) DEF Bury, Places
  <2>1. status' \in [Threads -> Statuses] /\ pc' \in [Threads -> Places]
    <3>1. /\ pc' \in {[pcs EXCEPT ![next] = "tick"], Bury(pcs, "none")}
          /\ status' \in {sts, Bury(sts, "NONE")}
      BY ZenonT(60) DEF Run, ThreadRoot
    <3> HIDE DEF pcs, sts
    <3> QED
      BY <2>a, <2>b, <3>1, ZenonT(60)
  <2>2. userRegisters' \in [Threads -> Context]
    BY <1>0, ZenonT(60)
       DEF Run, ThreadRoot, SaveUserState, RestoreUserState, TypeOK
  <2>3. registers' \in Context /\ pageTable' \in Threads \cup {NULL}
    BY <1>0, <2>2, SMTT(60)
       DEF Run, ThreadRoot, SaveUserState, RestoreUserState, TypeOK
  <2>4. space' \in SUBSET Threads
    BY ZenonT(60)
       DEF Run, ThreadRoot, SaveUserState, RestoreUserState, TypeOK
  <2> QED
    BY <1>0, <1>1, <1>3, <2>1, <2>2, <2>3, <2>4, ZenonT(60) DEF TypeOK
<1>5. PlaceConsistent'
  <2>1. pc'[next] \in {"user", "tick", "P", "sleep", "idle"}
    BY <1>0, <1>2, ZenonT(60)
  <2>2. SUFFICES ASSUME NEW t \in Threads
                 PROVE  /\ pc'[t] = "none" <=> status'[t] = "NONE"
                        /\ pc'[t] \in {"user", "sleep", "idle"} => t = next
                        /\ pc'[t] \in {"sleep", "idle"} /\ sem[t] = NULL
                             => status'[t] = "BLOCKED"
                        /\ pc'[t] = "dead" => status'[t] = "BLOCKED" /\ sem[t] = NULL
                        /\ pc'[t] = "new" => status'[t] = "READY"
                        /\ pc'[t] = "P" => sem[t] # NULL
                        /\ sem[t] # NULL => pc'[t] \in {"P", "sleep", "idle"}
                        /\ t = threadToBeDestroyed' =>
                             /\ pc'[t] \in {"sleep", "idle", "dead"}
                             /\ status'[t] = "BLOCKED"
                             /\ sem[t] = NULL
    BY <1>1, <2>1, SMTT(60) DEF PlaceConsistent
  <2>3. /\ pc[t] = "none" <=> status[t] = "NONE"
        /\ pc[t] \in {"user", "sleep", "idle"} => t = c
        /\ pc[t] = "dead" => status[t] = "BLOCKED" /\ sem[t] = NULL
        /\ pc[t] = "new" => status[t] = "READY"
        /\ pc[t] = "P" => sem[t] # NULL
        /\ sem[t] # NULL => pc[t] \in {"P", "sleep", "idle"}
        /\ t = d => /\ pc[t] \in {"sleep", "idle", "dead"}
                    /\ status[t] = "BLOCKED"
                    /\ sem[t] = NULL
    BY ZenonT(60) DEF PlaceConsistent
  <2>4. /\ pc'[t] = IF t = next /\ pc[t] = "new" THEN "tick"
                    ELSE IF t = d /\ pc[next] # "new" THEN "none"
                    ELSE IF t = c THEN back ELSE pc[t]
        /\ status'[t] = IF t = next THEN "RUNNING"
                        ELSE IF t = d /\ pc[next] # "new" THEN "NONE" ELSE st[t]
    BY <1>2, ZenonT(60)
  <2>5. t # c => st[t] = status[t]
    BY ZenonT(60)
  <2>6. CASE t = next
    <3>1. pc'[t] \in {"tick", "P"} /\ (pc'[t] = "P" <=> sem[t] # NULL)
      BY <1>0, <2>3, <2>4, <2>6, ZenonT(60)
    <3>2. status'[t] = "RUNNING" /\ t # threadToBeDestroyed'
      BY <1>0, <1>3, <2>4, <2>6, ZenonT(60)
    <3> QED
      BY <2>6, <3>1, <3>2, ZenonT(60)
  <2>7. CASE t # next /\ t = c
    <3>1. pc[c] = "sleep" /\ sem[c] = NULL => status[c] = "BLOCKED"
      BY <1>0, ZenonT(60) DEF PlaceConsistent
    <3>2. pc[c] \in {"user", "tick"} => sem[c] = NULL /\ c # d
      BY <2>3, <2>7, ZenonT(60)
    <3>3. pc[c] = "sleep" => status[c] # "NONE" /\ status[c] = st[c]
      BY <2>3, <2>7, ZenonT(60)
    <3> QED
      BY <1>0, <1>3, <2>3, <2>4, <2>7, <3>1, <3>2, <3>3, ZenonT(60)
  <2>8. CASE t # next /\ t # c
    BY <1>0, <1>3, <2>3, <2>4, <2>5, <2>8, ZenonT(60)
  <2> QED
    BY <2>6, <2>7, <2>8, ZenonT(60)
<1>6. ThreadPlacement'
  <2>1. SUFFICES ASSUME NEW t \in Threads
                 PROVE  /\ t \in Elems(rl) <=> status'[t] = "READY"
                        /\ \A s \in Sems : t \in Elems(queue[s])
                                            <=> status'[t] = "BLOCKED" /\ sem[t] = s
                        /\ status'[t] = "RUNNING" <=>
                             t = next /\ pc'[t] \notin {"sleep", "idle"}
    BY <1>1, ZenonT(60) DEF ThreadPlacement, TypeOK
  <2>2. CASE t = next
    <3>1. t \notin Elems(rl) /\ \A s \in Sems : t \notin Elems(queue[s])
      BY <2>2, ZenonT(60) DEF ThreadPlacement
    <3>2. status'[t] = "RUNNING" /\ pc'[t] \in {"tick", "P"}
      BY <1>0, <1>2, <2>2, ZenonT(60)
    <3> QED
      BY <2>2, <3>1, <3>2, ZenonT(60)
  <2>3. CASE t # next
    <3>1. /\ t \in Elems(rl) <=> st[t] = "READY"
          /\ \A s \in Sems : t \in Elems(queue[s])
                             <=> status[t] = "BLOCKED" /\ sem[t] = s
          /\ st[t] # status[t] => status[t] # "BLOCKED" /\ st[t] # "BLOCKED"
      BY <1>0, <2>3, ZenonT(60) DEF ThreadPlacement
    <3>2. st[t] # "RUNNING"
      BY <1>0, <2>3, SMTT(60) DEF PlaceConsistent, ThreadPlacement
    <3>3. t = d => st[t] = "BLOCKED" /\ status[t] = "BLOCKED" /\ sem[t] = NULL
      BY <1>0, ZenonT(60) DEF PlaceConsistent
    <3>4. status'[t] = IF t = d /\ pc[next] # "new" THEN "NONE" ELSE st[t]
      BY <1>2, <2>3, ZenonT(60)
    <3>5. \A s \in Sems : s # NULL
      BY KernelAssumption, ZenonT(60)
    <3>6. t \in Elems(rl) <=> status'[t] = "READY"
      BY <3>1, <3>3, <3>4, ZenonT(60)
    <3>7. status'[t] # "RUNNING"
      BY <3>2, <3>4, ZenonT(60)
    <3>8. \A s \in Sems : status'[t] = "BLOCKED" /\ sem[t] = s
                          <=> status[t] = "BLOCKED" /\ sem[t] = s
      BY <3>1, <3>3, <3>4, <3>5, ZenonT(60)
    <3> QED
      BY <2>3, <3>1, <3>6, <3>7, <3>8, ZenonT(60)
  <2> QED
    BY <2>2, <2>3, ZenonT(60)
<1>7. NoLostWakeup'
  <2>1. \A s \in Sems : Woken(s)' = Woken(s)
    BY <1>1, ZenonT(60) DEF Woken
  <2> QED
    BY <1>1, <2>1, ZenonT(60) DEF NoLostWakeup
<1> QED
  BY <1>4, <1>5, <1>6, <1>7, ZenonT(60)

(* The callers of Scheduler::Run: Thread::Yield, which puts the running    *)
(* thread at the end of the ready list, and Thread::Sleep.                 *)
LEMMA YieldIInv ==
  ASSUME IInv, YieldCPU, yieldOnReturn' \in BOOLEAN,
         pc[currentThread] \in {"user", "tick"}
  PROVE  IInv'
<1> DEFINE c == currentThread
<1> USE DEF IInv
<1>1. CASE readyList = <<>>
  <2>1. /\ pc' = [pc EXCEPT ![c] = "tick"]
        /\ UNCHANGED <<currentThread, status, readyList, threadToBeDestroyed,
                       sem, value, queue, pending, halted, userVars>>
    BY <1>1, ZenonT(60) DEF YieldCPU, Goto, semVars
  <2>2. TypeOK'
    BY <2>1, ZenonT(60) DEF TypeOK, Places, userVars
  <2>3. PlaceConsistent' /\ ThreadPlacement'
    BY <2>1, SMTT(60) DEF PlaceConsistent, ThreadPlacement, TypeOK
  <2>4. NoLostWakeup'
    BY <2>1, ZenonT(60) DEF NoLostWakeup, Woken
  <2> QED
    BY <2>2, <2>3, <2>4, ZenonT(60)
<1>2. CASE readyList # <<>>
  <2> DEFINE next == Head(readyList)
             rest == Tail(readyList)
             rl   == Append(rest, c)
             st   == [status EXCEPT ![c] = "READY"]
  <2>1. Run(next, rl, st, "tick")
    BY <1>2, ZenonT(60) DEF YieldCPU
  <2>2. /\ next \in Threads
        /\ rest \in Seq(Threads)
        /\ NoDuplicates(rest)
        /\ Elems(rest) = Elems(readyList) \ {next}
        /\ next \in Elems(readyList)
    BY <1>2, TailElems, ZenonT(60) DEF TypeOK, ThreadPlacement
  <2>3. c \in Threads /\ status[c] = "RUNNING" /\ c \notin Elems(readyList)
    BY ZenonT(60) DEF TypeOK, ThreadPlacement
  <2>4. /\ rl \in Seq(Threads)
        /\ NoDuplicates(rl)
        /\ Elems(rl) = Elems(rest) \cup {c}
    <3>1. c \notin Elems(rest)
      BY <2>2, <2>3, ZenonT(60)
    <3> HIDE DEF c, rest, IInv
    <3> QED
      BY <2>2, <2>3, <3>1, AppendElems, SMTT(60)
  <2>5. /\ st \in [Threads -> {"NONE", "RUNNING", "READY", "BLOCKED"}]
        /\ st[c] = "READY"
        /\ \A t \in Threads \ {c} : st[t] = status[t]
    BY <2>3, ZenonT(60) DEF TypeOK
  <2>6. status[next] = "READY"
    BY <2>2, ZenonT(60) DEF ThreadPlacement
  <2>7. Elems(rl) = {t \in Threads : st[t] = "READY"} \ {next}
    <3>1. \A t \in Threads : t \in Elems(readyList) <=> status[t] = "READY"
      BY ZenonT(60) DEF ThreadPlacement
    <3>2. Elems(rl) \subseteq Threads
      BY <2>4, SMTT(60) DEF Elems
    <3> HIDE DEF rl, st, next, rest
    <3> QED
      BY <2>2, <2>3, <2>4, <2>5, <2>6, <3>1, <3>2, ZenonT(60)
  <2> HIDE DEF rl, st, next, rest
  <2> QED
    BY <2>1, <2>2, <2>4, <2>5, <2>6, <2>7, RunIInv, ZenonT(60)
<1> QED
  BY <1>1, <1>2, ZenonT(60)

(* Thread::Sleep gives the processor to the head of the ready list.        *)
LEMMA SleepIInv == IInv /\ Sleep => IInv'
<1> SUFFICES ASSUME IInv, Sleep PROVE IInv'
  BY ZenonT(60)
<1> DEFINE next == Head(readyList)
           rest == Tail(readyList)
           back == IF sem[currentThread] = NULL THEN "dead" ELSE "P"
<1> USE DEF IInv
<1>1. /\ Run(next, rest, status, back)
      /\ yieldOnReturn' \in BOOLEAN
      /\ pc[currentThread] = "sleep"
      /\ readyList # <<>>
      /\ status \in [Threads -> {"NONE", "RUNNING", "READY", "BLOCKED"}]
  BY ZenonT(60) DEF Sleep, At, TypeOK
<1>2. /\ next \in Threads
      /\ rest \in Seq(Threads)
      /\ NoDuplicates(rest)
      /\ Elems(rest) = Elems(readyList) \ {next}
      /\ next \in Elems(readyList)
  BY <1>1, TailElems, ZenonT(60) DEF TypeOK, ThreadPlacement
<1>3. /\ Elems(readyList) = {t \in Threads : status[t] = "READY"}
      /\ status[next] = "READY"
  <2>1. Elems(readyList) \subseteq Threads
    BY SMTT(60) DEF Elems, TypeOK
  <2> QED
    BY <1>2, <2>1, ZenonT(60) DEF ThreadPlacement
<1> HIDE DEF next, rest
<1> QED
  BY <1>1, <1>2, <1>3, RunIInv, ZenonT(60)

(* A new thread goes to the end of the ready list (Thread::Fork).          *)
LEMMA ForkIInv ==
  ASSUME IInv, NEW t \in Threads, Fork(t)
  PROVE  IInv'
<1> DEFINE c == currentThread
<1> USE DEF IInv
<1>1. /\ pc[c] = "user" /\ pc[t] = "none" /\ t # c
      /\ pc' = [pc EXCEPT ![t] = "new", ![c] = "tick"]
      /\ status' = [status EXCEPT ![t] = "READY"]
      /\ readyList' = Append(readyList, t)
      /\ UNCHANGED <<currentThread, threadToBeDestroyed, sem, value, queue,
                     intVars, userVars>>
  BY ZenonT(60) DEF Fork, At, semVars
<1>2. /\ c \in Threads
      /\ status[t] = "NONE"
      /\ sem[t] = NULL
      /\ t # threadToBeDestroyed
      /\ t \notin Elems(readyList)
  BY <1>1, ZenonT(60) DEF PlaceConsistent, ThreadPlacement, TypeOK
<1>3. /\ readyList' \in Seq(Threads)
      /\ NoDuplicates(readyList')
      /\ Elems(readyList') = Elems(readyList) \cup {t}
  BY <1>1, <1>2, AppendElems, SMTT(60) DEF TypeOK, ThreadPlacement
<1>4. TypeOK'
  BY <1>1, <1>2, <1>3, ZenonT(60) DEF TypeOK, Places, intVars, userVars
<1>5. PlaceConsistent'
  BY <1>1, <1>2, ZenonT(60) DEF PlaceConsistent, TypeOK
<1>6. ThreadPlacement'
  BY <1>1, <1>2, <1>3, KernelAssumption, ZenonT(60)
     DEF ThreadPlacement, TypeOK
<1>7. NoLostWakeup'
  BY <1>1, ZenonT(60) DEF NoLostWakeup, Woken
<1> QED
  BY <1>4, <1>5, <1>6, <1>7, ZenonT(60)

(* A step that touches neither the lists, nor the statuses, nor the        *)
(* semaphores, and moves the running thread from one place to another of   *)
(* the same kind, keeps the invariant.                                     *)
LEMMA MoveIInv ==
  ASSUME IInv, TypeOK',
         UNCHANGED <<currentThread, status, readyList, threadToBeDestroyed,
                     sem, value, queue>>,
         \A t \in Threads \ {currentThread} : pc'[t] = pc[t],
         \/ pc'[currentThread] = pc[currentThread]
         \/ {pc[currentThread], pc'[currentThread]} \subseteq {"user", "tick"}
         \/ {pc[currentThread], pc'[currentThread]} \subseteq {"sleep", "idle"}
  PROVE  IInv'
<1> USE DEF IInv
<1>1. PlaceConsistent'
  BY SMTT(60) DEF PlaceConsistent, TypeOK
<1>2. ThreadPlacement'
  BY ZenonT(60) DEF ThreadPlacement, PlaceConsistent, TypeOK
<1>3. NoLostWakeup'
  BY ZenonT(60) DEF NoLostWakeup, Woken
<1> QED
  BY <1>1, <1>2, <1>3, ZenonT(60)

(* The handler CheckIfDue runs, while the clock advances or the processor  *)
(* idles, keeps the invariant: a device's V, or the timer's request.       *)
LEMMA HandlerIInv ==
  ASSUME IInv, CheckIfDueRest,
         TimerHandler \/ \E d \in Devices : DeviceHandler(d),
         pc' \in [Threads -> Places],
         \A t \in Threads \ {currentThread} : pc'[t] = pc[t],
         \/ pc[currentThread] = "tick" /\ pc'[currentThread] = "tick"
         \/ pc[currentThread] \in {"sleep", "idle"} /\ pc'[currentThread] = "idle"
  PROVE  IInv'
<1> USE DEF IInv
<1>1. UNCHANGED <<currentThread, threadToBeDestroyed, sem, halted, userVars>>
  BY ZenonT(60) DEF CheckIfDueRest
<1>2. CASE TimerHandler
  <2>1. UNCHANGED <<pending, status, readyList, value, queue>> /\ yieldOnReturn'
    BY <1>2, ZenonT(60) DEF TimerHandler, semVars
  <2>2. TypeOK'
    BY <1>1, <2>1, ZenonT(60) DEF TypeOK, userVars
  <2> QED
    BY <1>1, <2>1, <2>2, MoveIInv, ZenonT(60)
<1>3. ASSUME NEW d \in Devices, DeviceHandler(d)
      PROVE  IInv'
  <2>1. /\ pending' \subseteq pending
        /\ UNCHANGED yieldOnReturn
        /\ Release(DeviceSem[d])
        /\ DeviceSem[d] \in Sems
    BY <1>3, KernelAssumption, ZenonT(60) DEF DeviceHandler
  <2>2. /\ status' \in [Threads -> {"NONE", "RUNNING", "READY", "BLOCKED"}]
        /\ readyList' \in Seq(Threads)
        /\ value' \in [Sems -> Nat]
        /\ queue' \in [Sems -> Seq(Threads)]
        /\ PlaceConsistent' /\ ThreadPlacement' /\ NoLostWakeup'
    BY <1>1, <2>1, ReleaseIInv, ZenonT(60)
  <2>3. TypeOK'
    BY <1>1, <2>1, <2>2, ZenonT(60) DEF TypeOK, userVars
  <2> QED
    BY <2>2, <2>3, ZenonT(60)
<1> QED
  BY <1>2, <1>3, ZenonT(60)

(* Every step of the kernel keeps the invariant.                           *)
LEMMA NextIInv == IInv /\ [Next]_vars => IInv'
<1> SUFFICES ASSUME IInv, [Next]_vars PROVE IInv'
  BY ZenonT(60)
<1> DEFINE c == currentThread
<1>0. TypeOK /\ c \in Threads
  BY ZenonT(60) DEF IInv, TypeOK
<1>1. ASSUME NEW t \in Threads, Fork(t) PROVE IInv'
  BY <1>1, ForkIInv, ZenonT(60)
<1>2. ASSUME NEW s \in Sems, P(s) PROVE IInv'
  BY <1>2, TryPIInv, ZenonT(60) DEF P, At
<1>3. ASSUME NEW s \in Sems, V(s) PROVE IInv'
  <2>1. /\ Release(s)
        /\ pc[c] = "user"
        /\ pc' = [pc EXCEPT ![c] = "tick"]
        /\ UNCHANGED <<currentThread, threadToBeDestroyed, sem, intVars,
                       userVars>>
    BY <1>3, ZenonT(60) DEF V, At, Goto
  <2>2. /\ pc' \in [Threads -> Places]
        /\ pc'[c] = "tick"
        /\ \A t \in Threads \ {c} : pc'[t] = pc[t]
    BY <1>0, <2>1, ZenonT(60) DEF TypeOK, Places
  <2>3. /\ status' \in [Threads -> {"NONE", "RUNNING", "READY", "BLOCKED"}]
        /\ readyList' \in Seq(Threads)
        /\ value' \in [Sems -> Nat]
        /\ queue' \in [Sems -> Seq(Threads)]
        /\ PlaceConsistent' /\ ThreadPlacement' /\ NoLostWakeup'
    BY <2>1, <2>2, ReleaseIInv, ZenonT(60)
  <2>4. TypeOK'
    BY <1>0, <2>1, <2>2, <2>3, ZenonT(60) DEF TypeOK, intVars, userVars
  <2> QED
    BY <2>3, <2>4, ZenonT(60) DEF IInv
<1>4. ASSUME NEW d \in Devices, Schedule(d) PROVE IInv'
  <2>1. TypeOK'
    BY <1>0, <1>4, ZenonT(60) DEF Schedule, TypeOK, semVars, userVars
  <2> QED
    BY <1>4, <2>1, MoveIInv, ZenonT(60) DEF Schedule, semVars
<1>5. ASSUME TimerTick \/ \E d \in Devices : DeviceTick(d)
      PROVE  IInv'
  <2>1. /\ TimerHandler \/ \E d \in Devices : DeviceHandler(d)
        /\ CheckIfDueRest
        /\ pc[c] = "tick" /\ pc' = pc
    BY <1>5, ZenonT(60) DEF TimerTick, DeviceTick, At
  <2> QED
    BY <1>0, <2>1, HandlerIInv, ZenonT(60) DEF TypeOK
<1>6. ASSUME TimerIdle \/ \E d \in Devices : DeviceIdle(d)
      PROVE  IInv'
  <2>1. /\ TimerHandler \/ \E d \in Devices : DeviceHandler(d)
        /\ CheckIfDueRest
        /\ pc[c] \in {"sleep", "idle"}
        /\ pc' = [pc EXCEPT ![c] = "idle"]
    BY <1>6, ZenonT(60) DEF TimerIdle, DeviceIdle, Idling, At, Goto
  <2>2. /\ pc' \in [Threads -> Places]
        /\ pc'[c] = "idle"
        /\ \A t \in Threads \ {c} : pc'[t] = pc[t]
    BY <1>0, <2>1, ZenonT(60) DEF TypeOK, Places
  <2> QED
    BY <2>1, <2>2, HandlerIInv, ZenonT(60)
<1>7. ASSUME Yield PROVE IInv'
  BY <1>0, <1>7, YieldIInv, ZenonT(60) DEF Yield, At, TypeOK
<1>8. ASSUME Finish PROVE IInv'
  <2>1. /\ pc[c] = "user"
        /\ threadToBeDestroyed' = c
        /\ status' = [status EXCEPT ![c] = "BLOCKED"]
        /\ pc' = [pc EXCEPT ![c] = "sleep"]
        /\ UNCHANGED <<currentThread, readyList, sem, value, queue, intVars,
                       userVars>>
    BY <1>8, ZenonT(60) DEF Finish, At, Goto, semVars
  <2>2. status[c] = "RUNNING" /\ sem[c] = NULL
    BY <1>0, <2>1, ZenonT(60) DEF IInv, ThreadPlacement, PlaceConsistent
  <2>3. TypeOK'
    BY <1>0, <2>1, ZenonT(60) DEF TypeOK, Places, intVars, userVars
  <2>4. PlaceConsistent'
    BY <1>0, <2>1, <2>2, ZenonT(60) DEF IInv, PlaceConsistent, TypeOK
  <2>5. ThreadPlacement'
    <3>1. \A s \in Sems : s # NULL
      BY KernelAssumption, ZenonT(60)
    <3>2. /\ status'[c] = "BLOCKED"
          /\ pc'[c] = "sleep"
          /\ \A t \in Threads \ {c} : status'[t] = status[t] /\ pc'[t] = pc[t]
      BY <1>0, <2>1, ZenonT(60) DEF TypeOK
    <3>3. /\ NoDuplicates(readyList') /\ readyList' = readyList
          /\ \A s \in Sems : NoDuplicates(queue'[s]) /\ queue'[s] = queue[s]
      BY <2>1, ZenonT(60) DEF IInv, ThreadPlacement
    <3>4. SUFFICES ASSUME NEW t \in Threads
                   PROVE  /\ t \in Elems(readyList) <=> status'[t] = "READY"
                          /\ \A s \in Sems : t \in Elems(queue[s])
                                              <=> status'[t] = "BLOCKED" /\ sem[t] = s
                          /\ status'[t] = "RUNNING" <=>
                               t = c /\ pc'[t] \notin {"sleep", "idle"}
      BY <2>1, <3>3, ZenonT(60) DEF ThreadPlacement
    <3>5. /\ t \in Elems(readyList) <=> status[t] = "READY"
          /\ \A s \in Sems : t \in Elems(queue[s])
                              <=> status[t] = "BLOCKED" /\ sem[t] = s
          /\ status[t] = "RUNNING" <=> t = c /\ pc[t] \notin {"sleep", "idle"}
      BY ZenonT(60) DEF IInv, ThreadPlacement
    <3>6. CASE t = c
      BY <2>2, <3>1, <3>2, <3>5, <3>6, ZenonT(60)
    <3>7. CASE t # c
      BY <3>2, <3>5, <3>7, ZenonT(60)
    <3> QED
      BY <3>6, <3>7, ZenonT(60)
  <2>6. NoLostWakeup'
    BY <2>1, ZenonT(60) DEF IInv, NoLostWakeup, Woken
  <2> QED
    BY <2>3, <2>4, <2>5, <2>6, ZenonT(60) DEF IInv
<1>9. ASSUME ResumeP PROVE IInv'
  <2>1. pc[c] = "P" /\ TryP(sem[c])
    BY <1>9, ZenonT(60) DEF ResumeP, At
  <2>2. sem[c] \in Sems
    BY <1>0, <2>1, ZenonT(60) DEF IInv, PlaceConsistent, TypeOK
  <2> QED
    BY <2>1, <2>2, TryPIInv, ZenonT(60)
<1>10. ASSUME EndTick PROVE IInv'
  <2>1. pc[c] = "tick" /\ yieldOnReturn' \in BOOLEAN
    BY <1>10, ZenonT(60) DEF EndTick, At
  <2>2. CASE yieldOnReturn
    BY <1>10, <2>1, <2>2, YieldIInv, ZenonT(60) DEF EndTick
  <2>3. CASE ~yieldOnReturn
    <3>1. /\ pc' = [pc EXCEPT ![c] = "user"]
          /\ UNCHANGED <<currentThread, status, readyList, threadToBeDestroyed,
                         sem, value, queue, pending, halted, userVars>>
      BY <1>10, <2>3, ZenonT(60) DEF EndTick, Goto, semVars
    <3>2. TypeOK'
      BY <1>0, <2>1, <3>1, ZenonT(60) DEF TypeOK, Places, userVars
    <3>3. pc'[c] = "user" /\ \A t \in Threads \ {c} : pc'[t] = pc[t]
      BY <1>0, <3>1, ZenonT(60) DEF TypeOK
    <3> QED
      BY <2>1, <3>1, <3>2, <3>3, MoveIInv, ZenonT(60)
  <2> QED
    BY <2>2, <2>3, ZenonT(60)
<1>11. ASSUME EndIdle PROVE IInv'
  <2>1. /\ pc[c] = "idle" /\ yieldOnReturn' \in BOOLEAN
        /\ pc' = [pc EXCEPT ![c] = "sleep"]
        /\ UNCHANGED <<currentThread, status, readyList, threadToBeDestroyed,
                       sem, value, queue, pending, halted, userVars>>
    BY <1>11, ZenonT(60) DEF EndIdle, At, Goto, semVars
  <2>2. TypeOK'
    BY <1>0, <2>1, ZenonT(60) DEF TypeOK, Places, userVars
  <2>3. pc'[c] = "sleep" /\ \A t \in Threads \ {c} : pc'[t] = pc[t]
    BY <1>0, <2>1, ZenonT(60) DEF TypeOK
  <2> QED
    BY <2>1, <2>2, <2>3, MoveIInv, ZenonT(60)
<1>12. ASSUME Halt PROVE IInv'
  <2>1. TypeOK'
    BY <1>0, <1>12, ZenonT(60) DEF Halt, TypeOK, semVars, userVars
  <2> QED
    BY <1>12, <2>1, MoveIInv, ZenonT(60) DEF Halt, semVars
<1>13. ASSUME StartProcess PROVE IInv'
  <2>1. <<c, 0>> \in Context
    BY <1>0, ZenonT(60) DEF Context
  <2>2. TypeOK'
    BY <1>0, <1>13, <2>1, ZenonT(60)
       DEF StartProcess, TypeOK, semVars, intVars
  <2> QED
    BY <1>13, <2>2, MoveIInv, ZenonT(60) DEF StartProcess, semVars
<1>14. ASSUME UserInstruction PROVE IInv'
  <2>1. /\ pc[c] = "user"
        /\ pc' = [pc EXCEPT ![c] = "tick"]
        /\ registers' = <<registers[1], 1 - registers[2]>>
        /\ userState' = [userState EXCEPT ![c] = 1 - @]
        /\ UNCHANGED <<currentThread, status, readyList, threadToBeDestroyed,
                       sem, value, queue, intVars, space, pageTable,
                       userRegisters>>
    BY <1>14, ZenonT(60) DEF UserInstruction, At, Goto, semVars
  <2>2. registers' \in Context
    <3>1. registers[1] \in Threads \cup {NULL} /\ registers[2] \in {0, 1}
      BY <1>0, ZenonT(60) DEF TypeOK, Context
    <3>2. 1 - registers[2] \in {0, 1}
      BY <3>1, SMTT(60)
    <3>3. \A o \in Threads \cup {NULL}, v \in {0, 1} : <<o, v>> \in Context
      BY ZenonT(60) DEF Context
    <3>4. <<registers[1], 1 - registers[2]>> \in Context
      BY <3>1, <3>2, <3>3, ZenonT(60)
    <3> QED
      BY <2>1, <3>4, ZenonT(60)
  <2>3. userState' \in [Threads -> {0, 1}]
    <3>1. userState[c] \in {0, 1}
      BY <1>0, ZenonT(60) DEF TypeOK
    <3>2. 1 - userState[c] \in {0, 1}
      BY <3>1, SMTT(60)
    <3> QED
      BY <1>0, <2>1, <3>2, ZenonT(60) DEF TypeOK
  <2>4. /\ pc'[c] = "tick"
        /\ pc' \in [Threads -> Places]
        /\ \A t \in Threads \ {c} : pc'[t] = pc[t]
    BY <1>0, <2>1, ZenonT(60) DEF TypeOK, Places
  <2>5. TypeOK'
    BY <1>0, <2>1, <2>2, <2>3, <2>4, ZenonT(60) DEF TypeOK, intVars
  <2> QED
    BY <2>1, <2>4, <2>5, MoveIInv, ZenonT(60)
<1>15. ASSUME UNCHANGED vars PROVE IInv'
  <2>1. TypeOK'
    BY <1>0, <1>15, ZenonT(60) DEF TypeOK, vars, semVars, intVars, userVars
  <2> QED
    BY <1>15, <2>1, MoveIInv, ZenonT(60) DEF vars, semVars
<1> QED
  BY <1>1, <1>2, <1>3, <1>4, <1>5, <1>6, <1>7, <1>8, <1>9, <1>10, <1>11,
     <1>12, <1>13, <1>14, <1>15, SleepIInv, ZenonT(60) DEF Next, Step, Halted

-----------------------------------------------------------------------------
(* The theorems.                                                           *)

(* The invariant holds in every reachable state.                           *)
THEOREM Invariance == Spec => []IInv
<1>1. Init => IInv
  BY InitIInv, ZenonT(60)
<1>2. IInv /\ [Next]_vars => IInv'
  BY NextIInv, ZenonT(60)
<1> QED
  BY <1>1, <1>2, PTL DEF Spec

(* Type correctness of the kernel's state.                                 *)
THEOREM TypeCorrectness == Spec => []TypeOK
<1>1. IInv => TypeOK
  BY ZenonT(60) DEF IInv
<1> QED
  BY <1>1, Invariance, PTL

(* Every thread is on exactly the list its status names.                   *)
THEOREM PlacementCorrectness == Spec => []ThreadPlacement
<1>1. IInv => ThreadPlacement
  BY ZenonT(60) DEF IInv
<1> QED
  BY <1>1, Invariance, PTL

(* No V() is lost: while threads sleep on a semaphore, each unit of its    *)
(* value has a woken thread on its way to take it.                         *)
THEOREM WakeupCorrectness == Spec => []NoLostWakeup
<1>1. IInv => NoLostWakeup
  BY ZenonT(60) DEF IInv
<1> QED
  BY <1>1, Invariance, PTL

(* A thread that ceases to exist was the one threadToBeDestroyed named.    *)
LEMMA OnlyDestroyed ==
  ASSUME IInv, [Next]_vars, NEW t \in Threads,
         status[t] # "NONE", status'[t] = "NONE"
  PROVE  t = threadToBeDestroyed
<1> DEFINE c == currentThread
<1>0. status \in [Threads -> {"NONE", "RUNNING", "READY", "BLOCKED"}] /\ c \in Threads
  BY ZenonT(60) DEF IInv, TypeOK
<1>1. ASSUME NEW next, NEW rl, NEW back, NEW st, st[t] # "NONE",
             st \in [Threads -> {"NONE", "RUNNING", "READY", "BLOCKED"}],
             Run(next, rl, st, back)
      PROVE  t = threadToBeDestroyed
  BY <1>1, ZenonT(60) DEF Run, ThreadRoot, Bury
<1>2. ASSUME YieldCPU PROVE t = threadToBeDestroyed
  <2> DEFINE st == [status EXCEPT ![c] = "READY"]
  <2>1. /\ st[t] # "NONE"
        /\ st \in [Threads -> {"NONE", "RUNNING", "READY", "BLOCKED"}]
    BY <1>0, ZenonT(60)
  <2>2. readyList # <<>>
    BY <1>2, ZenonT(60) DEF YieldCPU
  <2> QED
    BY <1>1, <1>2, <2>1, <2>2, ZenonT(60) DEF YieldCPU
<1>3. CASE Sleep
  BY <1>0, <1>1, <1>3, ZenonT(60) DEF Sleep
<1>4. CASE Yield \/ EndTick
  BY <1>2, <1>4, ZenonT(60) DEF Yield, EndTick
<1>5. ASSUME NEW s, Release(s) PROVE FALSE
  BY <1>0, <1>5, ZenonT(60) DEF Release
<1>6. ASSUME NEW s, TryP(s) PROVE FALSE
  BY <1>0, <1>6, ZenonT(60) DEF TryP
<1>7. CASE UNCHANGED status
  BY <1>7, ZenonT(60)
<1>8. CASE Finish \/ \E f \in Threads : Fork(f)
  BY <1>0, <1>8, ZenonT(60) DEF Finish, Fork
<1> QED
  BY <1>3, <1>4, <1>5, <1>6, <1>7, <1>8, ZenonT(60)
  DEF Next, Step, Halted, P, V, ResumeP, Schedule, DeviceTick, DeviceIdle,
      DeviceHandler, TimerTick, TimerIdle, TimerHandler, EndIdle, Halt,
      StartProcess, UserInstruction, vars

(* Scheduler::Run never deletes a thread that is running, ready, waiting,  *)
(* or has not called Finish.                                               *)
THEOREM DeletionCorrectness == Spec => DeletedOnlyWhenDone
<1> DEFINE Deletion(t) ==
             status[t] # "NONE" /\ status'[t] = "NONE" =>
               /\ t = threadToBeDestroyed
               /\ t # currentThread'
               /\ t \notin Elems(readyList')
               /\ \A s \in Sems : t \notin Elems(queue'[s])
<1>1. ASSUME IInv, IInv', [Next]_vars
      PROVE  [\A t \in Threads : Deletion(t)]_vars
  <2>1. SUFFICES ASSUME NEW t \in Threads, status[t] # "NONE", status'[t] = "NONE"
                 PROVE  Deletion(t)
    BY ZenonT(60)
  <2>2. t = threadToBeDestroyed
    BY <1>1, <2>1, OnlyDestroyed, ZenonT(60)
  <2>3. t # currentThread'
    BY <1>1, <2>1, ZenonT(60) DEF IInv, PlaceConsistent
  <2>4. t \notin Elems(readyList')
    BY <1>1, <2>1, ZenonT(60) DEF IInv, ThreadPlacement
  <2>5. \A s \in Sems : t \notin Elems(queue'[s])
    BY <1>1, <2>1, ZenonT(60) DEF IInv, ThreadPlacement
  <2> QED
    BY <2>2, <2>3, <2>4, <2>5, ZenonT(60)
<1> QED
  BY <1>1, Invariance, PTL DEF Spec, DeletedOnlyWhenDone

(* The kernel's semaphores implement the atomic counting semaphore: P()    *)
(* waits or takes, V() (by a thread or an interrupt handler) releases, and *)
(* every other step leaves the values and the waiting threads alone.       *)
THEOREM SemaphoreRefinement == Spec => ImplementsCountingSemaphore
<1> DEFINE c == currentThread
<1>1. Init => Abstract!Init
  BY ZenonT(60) DEF Init, Abstract!Init
<1>2. ASSUME IInv, [Next]_vars
      PROVE  [Abstract!Next]_<<value, sem>>
  <2>0. /\ c \in Threads
        /\ sem \in [Threads -> Sems \cup {NULL}]
        /\ value \in [Sems -> Nat]
    BY <1>2, ZenonT(60) DEF IInv, TypeOK
  <2>1. ASSUME NEW s \in Sems, TryP(s),
               \/ sem[c] = NULL
               \/ sem[c] = s
        PROVE  [Abstract!Next]_<<value, sem>>
    <3>1. CASE value[s] = 0 /\ sem[c] = s
      BY <2>0, <2>1, <3>1, ZenonT(60) DEF TryP
    <3>2. CASE value[s] = 0 /\ sem[c] = NULL
      <4>1. Abstract!Wait(c, s)
        BY <2>1, <3>2, ZenonT(60) DEF TryP, Abstract!Wait
      <4> QED
        BY <2>0, <4>1, ZenonT(60) DEF Abstract!Next
    <3>3. CASE value[s] # 0
      <4>1. value[s] > 0
        BY <2>0, <3>3, SMTT(60)
      <4>2. Abstract!Take(c, s)
        BY <2>1, <3>3, <4>1, ZenonT(60) DEF TryP, Abstract!Take
      <4> QED
        BY <2>0, <4>2, ZenonT(60) DEF Abstract!Next
    <3> QED
      BY <2>1, <3>1, <3>2, <3>3, ZenonT(60)
  <2>2. ASSUME NEW s \in Sems, Release(s), UNCHANGED sem
        PROVE  [Abstract!Next]_<<value, sem>>
    BY <2>2, ZenonT(60) DEF Release, Abstract!Next, Abstract!V
  <2>3. ASSUME NEW s \in Sems, P(s)
        PROVE  [Abstract!Next]_<<value, sem>>
    <3>1. sem[c] = NULL
      BY <1>2, <2>0, <2>3, ZenonT(60) DEF IInv, PlaceConsistent, P, At
    <3> QED
      BY <2>1, <2>3, <3>1, ZenonT(60) DEF P
  <2>4. CASE ResumeP
    <3>1. sem[c] \in Sems
      BY <1>2, <2>0, <2>4, ZenonT(60) DEF IInv, PlaceConsistent, ResumeP, At
    <3> QED
      BY <2>1, <2>4, <3>1, ZenonT(60) DEF ResumeP
  <2>5. ASSUME NEW s \in Sems, V(s)
        PROVE  [Abstract!Next]_<<value, sem>>
    BY <2>2, <2>5, ZenonT(60) DEF V
  <2>6. ASSUME NEW d \in Devices, DeviceTick(d) \/ DeviceIdle(d)
        PROVE  [Abstract!Next]_<<value, sem>>
    BY <2>2, <2>6, KernelAssumption, ZenonT(60)
    DEF DeviceTick, DeviceIdle, DeviceHandler, CheckIfDueRest
  <2>7. CASE UNCHANGED <<value, sem>>
    BY <2>7, ZenonT(60)
  <2>8. CASE Yield \/ EndTick \/ Sleep
    BY <2>7, <2>8, ZenonT(60)
       DEF Yield, EndTick, Sleep, YieldCPU, Run, ThreadRoot, semVars
  <2> QED
    BY <1>2, <2>3, <2>4, <2>5, <2>6, <2>7, <2>8, ZenonT(60)
    DEF Next, Step, Halted, Fork, Finish, Schedule, TimerTick, TimerIdle,
        TimerHandler, CheckIfDueRest, EndIdle, Halt, StartProcess,
        UserInstruction, vars, semVars
<1> QED
  BY <1>1, <1>2, Invariance, PTL
     DEF Spec, ImplementsCountingSemaphore, Abstract!Spec

(* Every step keeps the user state of every program: the registers and the *)
(* page table of the running one are in the machine, and those of the      *)
(* others are where Scheduler::Run saved them.                             *)
LEMMA NextUserInv == IInv /\ IInv' /\ UserInv /\ [Next]_vars => UserInv'
<1> SUFFICES ASSUME IInv, IInv', UserInv, [Next]_vars PROVE UserInv'
  BY ZenonT(60)
<1> DEFINE c == currentThread
<1>0. /\ c \in Threads
      /\ pc \in [Threads -> Places]
      /\ space \in SUBSET Threads
      /\ userRegisters \in [Threads -> Context]
      /\ userState \in [Threads -> {0, 1}]
      /\ NULL \notin Threads
      /\ c \in space => registers = <<c, userState[c]>> /\ pageTable = c
      /\ \A t \in space : t # c => userRegisters[t] = <<t, userState[t]>>
      /\ \A t \in space : pc[t] \notin {"none", "new"}
  BY KernelAssumption, ZenonT(60)
     DEF IInv, TypeOK, UserInv, UserContextPreserved
<1>1. ASSUME UNCHANGED <<currentThread, userVars>>,
             \A t \in Threads : pc[t] \notin {"none", "new"}
                                 => pc'[t] \notin {"none", "new"}
      PROVE  UserInv'
  BY <1>0, <1>1, ZenonT(60) DEF UserInv, UserContextPreserved, userVars
<1>2. ASSUME NEW next \in Threads, NEW rl, NEW st, NEW back \in {"tick", "P", "dead"},
             Run(next, rl, st, back)
      PROVE  UserInv'
  <2>1. \A t \in space : userRegisters'[t] = <<t, userState[t]>>
    BY <1>0, <1>2, ZenonT(60) DEF Run, ThreadRoot, SaveUserState
  <2>2. currentThread' = next /\ userState' = userState
    BY <1>2, ZenonT(60) DEF Run, ThreadRoot
  <2>3. CASE pc[next] = "new"
    <3>1. /\ pc' = [pc EXCEPT ![c] = back, ![next] = "tick"]
          /\ space' = space
      BY <1>0, <1>2, <2>3, ZenonT(60)
         DEF Run, ThreadRoot, IInv, PlaceConsistent
    <3>2. next \notin space
      BY <1>0, <2>3, ZenonT(60)
    <3> QED
      BY <1>0, <1>2, <2>1, <2>2, <3>1, <3>2, ZenonT(60)
         DEF UserInv, UserContextPreserved
  <2>4. CASE pc[next] # "new"
    <3>1. [pc EXCEPT ![c] = back][next] # "new"
      BY <1>0, <1>2, <2>4, ZenonT(60)
    <3>2. /\ pc' = Bury([pc EXCEPT ![c] = back], "none")
          /\ space' = space \ {threadToBeDestroyed}
          /\ next \in space => registers' = userRegisters'[next] /\ pageTable' = next
      BY <1>2, <3>1, ZenonT(60) DEF Run, ThreadRoot, RestoreUserState
    <3>3. \A t \in space' : pc'[t] \notin {"none", "new"}
      BY <1>0, <1>2, <3>2, ZenonT(60) DEF Bury
    <3> QED
      BY <1>0, <2>1, <2>2, <3>2, <3>3, ZenonT(60)
         DEF UserInv, UserContextPreserved
  <2> QED
    BY <2>3, <2>4, ZenonT(60)
<1>3. ASSUME YieldCPU PROVE UserInv'
  <2>1. CASE readyList = <<>>
    <3>1. /\ pc' = [pc EXCEPT ![c] = "tick"]
          /\ UNCHANGED <<currentThread, userVars>>
      BY <1>3, <2>1, ZenonT(60) DEF YieldCPU, Goto
    <3> QED
      BY <1>0, <1>1, <3>1, ZenonT(60)
  <2>2. CASE readyList # <<>>
    <3>1. Head(readyList) \in Threads
      BY <2>2, TailElems, ZenonT(60) DEF IInv, TypeOK
    <3> QED
      BY <1>2, <1>3, <2>2, <3>1, ZenonT(60) DEF YieldCPU
  <2> QED
    BY <2>1, <2>2, ZenonT(60)
<1>4. CASE Sleep
  <2>1. Head(readyList) \in Threads
    BY <1>4, TailElems, ZenonT(60) DEF Sleep, IInv, TypeOK
  <2> QED
    BY <1>2, <1>4, <2>1, ZenonT(60) DEF Sleep
<1>5. CASE Yield
  BY <1>3, <1>5, ZenonT(60) DEF Yield
<1>6. CASE EndTick
  <2>1. CASE yieldOnReturn
    BY <1>3, <1>6, <2>1, ZenonT(60) DEF EndTick
  <2>2. CASE ~yieldOnReturn
    <3>1. /\ pc' = [pc EXCEPT ![c] = "user"]
          /\ UNCHANGED <<currentThread, userVars>>
      BY <1>6, <2>2, ZenonT(60) DEF EndTick, Goto
    <3> QED
      BY <1>0, <1>1, <3>1, ZenonT(60)
  <2> QED
    BY <2>1, <2>2, ZenonT(60)
<1>7. ASSUME NEW f \in Threads, Fork(f) PROVE UserInv'
  <2>1. /\ f \notin space
        /\ UNCHANGED <<currentThread, userVars>>
        /\ pc' = [pc EXCEPT ![f] = "new", ![c] = "tick"]
        /\ f # c
    BY <1>0, <1>7, ZenonT(60) DEF Fork, At
  <2> QED
    BY <1>0, <2>1, ZenonT(60) DEF UserInv, UserContextPreserved, userVars
<1>8. ASSUME NEW s, TryP(s) PROVE UserInv'
  <2>1. /\ \E place \in {"sleep", "tick"} : pc' = [pc EXCEPT ![c] = place]
        /\ UNCHANGED <<currentThread, userVars>>
    BY <1>8, ZenonT(60) DEF TryP, Goto
  <2> QED
    BY <1>0, <1>1, <2>1, ZenonT(60)
<1>9. CASE StartProcess
  <2>1. /\ pc[c] = "user" /\ pc' = pc
        /\ space' = space \cup {c}
        /\ userState' = [userState EXCEPT ![c] = 0]
        /\ registers' = <<c, 0>> /\ pageTable' = c
        /\ UNCHANGED <<currentThread, userRegisters>>
    BY <1>9, ZenonT(60) DEF StartProcess, At
  <2> QED
    BY <1>0, <2>1, ZenonT(60) DEF UserInv, UserContextPreserved
<1>10. CASE UserInstruction
  <2>1. /\ c \in space
        /\ registers' = <<registers[1], 1 - registers[2]>>
        /\ userState' = [userState EXCEPT ![c] = 1 - @]
        /\ pc' = [pc EXCEPT ![c] = "tick"]
        /\ UNCHANGED <<currentThread, space, pageTable, userRegisters>>
    BY <1>10, ZenonT(60) DEF UserInstruction, Goto
  <2>2. registers' = <<c, userState'[c]>>
    <3>1. registers[1] = c /\ registers[2] = userState[c]
      BY <1>0, <2>1, SMTT(60)
    <3>2. userState'[c] = 1 - userState[c]
      BY <1>0, <2>1, ZenonT(60)
    <3> QED
      BY <2>1, <3>1, <3>2, ZenonT(60)
  <2>3. \A t \in Threads : t # c => userState'[t] = userState[t] /\ pc'[t] = pc[t]
    BY <1>0, <2>1, ZenonT(60)
  <2>4. pc'[c] = "tick"
    BY <1>0, <2>1, ZenonT(60)
  <2> QED
    BY <1>0, <2>1, <2>2, <2>3, <2>4, ZenonT(60)
       DEF UserInv, UserContextPreserved
<1>11. ASSUME NEW place \in {"tick", "user", "sleep", "idle"},
              pc' \in {pc, [pc EXCEPT ![c] = place]},
              UNCHANGED <<currentThread, userVars>>
       PROVE  UserInv'
  BY <1>0, <1>1, <1>11, ZenonT(60)
<1>12. CASE \/ Finish \/ TimerTick \/ TimerIdle \/ EndIdle \/ Halt
            \/ \E s \in Sems : V(s)
            \/ \E d \in Devices : Schedule(d) \/ DeviceTick(d) \/ DeviceIdle(d)
            \/ UNCHANGED vars
  BY <1>11, <1>12, ZenonT(60)
  DEF Finish, TimerTick, TimerIdle, EndIdle, Halt, V, Schedule, DeviceTick,
      DeviceIdle, CheckIfDueRest, Goto, vars
<1> QED
  BY <1>4, <1>5, <1>6, <1>7, <1>8, <1>9, <1>10, <1>12, ZenonT(60)
  DEF Next, Step, Halted, P, ResumeP

(* Each user program always finds the registers and the page table it had. *)
THEOREM UserContextCorrectness == Spec => []UserContextPreserved
<1>1. Init => UserInv
  BY ZenonT(60) DEF Init, UserInv, UserContextPreserved
<1>2. IInv /\ IInv' /\ UserInv /\ [Next]_vars => UserInv'
  BY NextUserInv, ZenonT(60)
<1>3. UserInv => UserContextPreserved
  BY ZenonT(60) DEF UserInv
<1> QED
  BY <1>1, <1>2, <1>3, Invariance, PTL DEF Spec

=============================================================================
