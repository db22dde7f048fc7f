---------------------------- MODULE BitMapProofs ----------------------------
(***************************************************************************)
(* Proofs about class BitMap and two of its users: the table of the named  *)
(* semaphores, for a table of any size and programs that make any calls,   *)
(* and the frames of the loader, for any programs and any memory.          *)
(***************************************************************************)
EXTENDS STable, Loader, FiniteSetTheorems, TLAPS

-----------------------------------------------------------------------------
(* class BitMap.                                                           *)

(* BitMap::Find returns a clear bit or -1.                                 *)
LEMMA FindBitClear ==
  ASSUME NEW b, NEW n \in Nat
  PROVE  FindBit(b, n) = -1 \/ FindBit(b, n) \in (0..(n - 1)) \ b
<1> SUFFICES ASSUME \E i \in 0..(n - 1) : i \notin b
             PROVE  FindBit(b, n) \in (0..(n - 1)) \ b
  BY ZenonT(60) DEF FindBit
<1> DEFINE Clears == (0..(n - 1)) \ b
           Less == OpToRel(<, Nat)
<1>1. Clears # {} /\ Clears \subseteq Nat
  <2> HIDE DEF Less
  <2> QED BY SMTT(60)
<1>2. PICK i \in Clears : \A j \in Clears : ~(<<j, i>> \in Less)
  <2> HIDE DEF Clears, Less
  <2>1. IsWellFoundedOn(Less, Nat)
    BY NatLessThanWellFounded, ZenonT(60) DEF Less
  <2> QED BY <1>1, <2>1, WFMin, ZenonT(60)
<1>3. ASSUME NEW j \in 0..(i - 1), j \notin b PROVE FALSE
  <2>1. j \in Clears /\ j < i
    BY <1>3, SMTT(60)
  <2>2. <<j, i>> \in Less
    <3> HIDE DEF Clears
    <3> QED BY <1>1, <2>1, ZenonT(60) DEF OpToRel
  <2> HIDE DEF Clears, Less
  <2> QED BY <1>2, <2>1, <2>2, ZenonT(60)
<1>4. i \in 0..(n - 1) /\ i \notin b /\ \A j \in 0..(i - 1) : j \in b
  BY <1>3, ZenonT(60)
<1> HIDE DEF Clears, Less
<1> QED BY <1>4, ZenonT(60) DEF FindBit

(* One bit further, one more clear bit or none.                            *)
LEMMA CountStep ==
  ASSUME NEW m, NEW b \in Nat
  PROVE  /\ Cardinality(ClearBefore(m, b)) \in Nat
         /\ Cardinality(ClearBefore(m, b + 1)) =
              Cardinality(ClearBefore(m, b)) + (IF b \in m THEN 0 ELSE 1)
<1> DEFINE C == ClearBefore(m, b)
<1>1. IsFiniteSet(0..(b - 1))
  <2>1. b - 1 \in Int /\ 0 \in Int
    BY SMTT(60)
  <2> QED BY <2>1, FS_Interval, ZenonT(60)
<1>2. IsFiniteSet(C)
  <2>1. C \in SUBSET (0..(b - 1))
    BY ZenonT(60) DEF ClearBefore
  <2> QED BY <1>1, <2>1, FS_Subset, ZenonT(60)
<1>3. Cardinality(C) \in Nat
  BY <1>2, FS_CardinalityType, ZenonT(60)
<1>4. ~(b \in C) /\ ClearBefore(m, b + 1) = IF b \in m THEN C ELSE C \cup {b}
  BY SMTT(60) DEF ClearBefore
<1>5. Cardinality(C \cup {b}) = Cardinality(C) + 1
  BY <1>2, <1>4, FS_AddElement, ZenonT(60)
<1> HIDE DEF C
<1>6. ClearBefore(m, b) = C
  BY ZenonT(60) DEF C
<1> QED BY <1>3, <1>4, <1>5, <1>6, SMTT(60)

(* As long as enough bits are clear, Find has one to return.               *)
LEMMA NthClear ==
  ASSUME NEW m, NEW n \in Nat, NEW i \in Nat \ {0}, i <= NumClear(m, n)
  PROVE  /\ FindNth(m, n, i) \in (0..(n - 1)) \ m
         /\ Cardinality(ClearBefore(m, FindNth(m, n, i))) = i - 1
<1> DEFINE Count(b) == Cardinality(ClearBefore(m, b))
           Enough == {b \in Nat : i <= Count(b)}
           Less == OpToRel(<, Nat)
           nth == {b \in 0..(n - 1) : b \notin m /\ Cardinality(ClearBefore(m, b)) = i - 1}
<1>1. Count(n) = NumClear(m, n)
  BY ZenonT(60) DEF NumClear, ClearBefore
<1>2. n \in Enough /\ Enough \subseteq Nat
  BY <1>1, ZenonT(60)
<1>3. PICK b \in Enough : \A c \in Enough : ~(<<c, b>> \in Less)
  <2> HIDE DEF Enough, Less
  <2>1. IsWellFoundedOn(Less, Nat)
    BY NatLessThanWellFounded, ZenonT(60) DEF Less
  <2> QED BY <1>2, <2>1, WFMin, ZenonT(60)
<1>4. \A c \in Nat : c < b => ~(c \in Enough)
  <2> SUFFICES ASSUME NEW c \in Nat, c < b, c \in Enough PROVE FALSE
    BY ZenonT(60)
  <2>1. <<c, b>> \in Less
    <3> HIDE DEF Enough
    <3> QED BY <1>2, <1>3, ZenonT(60) DEF OpToRel
  <2> HIDE DEF Enough, Less
  <2> QED BY <1>3, <2>1, ZenonT(60)
<1>5. b \in Nat /\ i <= Count(b) /\ \A c \in Nat : c < b => ~(i <= Count(c))
  <2> HIDE DEF Count, Less
  <2> QED BY <1>3, <1>4, ZenonT(60)
<1>6. b # 0
  <2>1. Count(0) = 0
    <3>1. ClearBefore(m, 0) = {}
      BY SMTT(60) DEF ClearBefore
    <3> QED BY <3>1, FS_EmptySet, ZenonT(60)
  <2> HIDE DEF Count
  <2> QED BY <1>5, <2>1, SMTT(60)
<1>7. PICK a \in Nat : b = a + 1 /\ a < b
  <2>1. b - 1 \in Nat /\ b = (b - 1) + 1 /\ b - 1 < b
    BY <1>5, <1>6, SMTT(60)
  <2> QED BY <2>1, ZenonT(60)
<1>8. /\ Count(a) \in Nat
      /\ Count(b) = Count(a) + (IF a \in m THEN 0 ELSE 1)
  BY <1>7, CountStep, ZenonT(60)
<1>9. a \notin m /\ Count(a) = i - 1
  <2>1. ~(i <= Count(a)) /\ i <= Count(b)
    BY <1>5, <1>7, ZenonT(60)
  <2> HIDE DEF Count, Enough, Less
  <2> QED BY <1>8, <2>1, SMTT(60)
<1>10. a < n
  <2>1. ~(n < b)
    <3> HIDE DEF Less, Count
    <3> QED BY <1>2, <1>4, ZenonT(60)
  <2> HIDE DEF Count, Enough, Less
  <2> QED BY <1>5, <1>7, <2>1, SMTT(60)
<1>11. a \in nth
  <2>1. a \in 0..(n - 1)
    <3> HIDE DEF Count, Enough, Less
    <3> QED BY <1>10, SMTT(60)
  <2> QED BY <1>9, <2>1, ZenonT(60)
<1>12. FindNth(m, n, i) = CHOOSE c \in nth : TRUE
  BY <1>11, ZenonT(60) DEF FindNth
<1>13. FindNth(m, n, i) \in nth
  <2> HIDE DEF nth
  <2> QED BY <1>11, <1>12, ZenonT(60)
<1> QED BY <1>13, ZenonT(60)

(* The bits that k calls of Find return are clear, and all different.      *)
LEMMA FindBitsClear ==
  ASSUME NEW m, NEW n \in Nat, NEW k \in Nat, k <= NumClear(m, n)
  PROVE  /\ FindBits(m, n, k) \in [1..k -> (0..(n - 1)) \ m]
         /\ \A i, j \in 1..k : FindBits(m, n, k)[i] = FindBits(m, n, k)[j] => i = j
<1>0. NumClear(m, n) \in Nat
  <2>1. NumClear(m, n) = Cardinality(ClearBefore(m, n))
    BY ZenonT(60) DEF NumClear, ClearBefore
  <2>2. Cardinality(ClearBefore(m, n)) \in Nat
    BY CountStep, SMTT(60)
  <2> QED BY <2>1, <2>2, ZenonT(60)
<1>1. \A i \in 1..k : i \in Nat \ {0} /\ i <= NumClear(m, n)
  <2> DEFINE c == NumClear(m, n)
  <2> HIDE DEF c
  <2>1. c \in Nat /\ k <= c
    BY <1>0, ZenonT(60) DEF c
  <2>2. \A i \in 1..k : i \in Nat \ {0} /\ i <= c
    BY <2>1, SMTT(60)
  <2> QED BY <2>2, ZenonT(60) DEF c
<1>2. \A i \in 1..k : /\ FindNth(m, n, i) \in (0..(n - 1)) \ m
                      /\ Cardinality(ClearBefore(m, FindNth(m, n, i))) = i - 1
  BY <1>1, NthClear, ZenonT(60)
<1>3. \A i \in 1..k : FindBits(m, n, k)[i] = FindNth(m, n, i)
  BY ZenonT(60) DEF FindBits
<1>4. FindBits(m, n, k) \in [1..k -> (0..(n - 1)) \ m]
  BY <1>2, ZenonT(60) DEF FindBits
<1>5. \A i, j \in 1..k : i - 1 = j - 1 => i = j
  BY SMTT(60)
<1>6. \A i, j \in 1..k : FindNth(m, n, i) = FindNth(m, n, j) => i = j
  BY <1>2, <1>5, ZenonT(60)
<1> QED BY <1>3, <1>4, <1>6, ZenonT(60)

(* A sequence of k different elements has k of them.                       *)
LEMMA RangeCount ==
  ASSUME NEW k \in Nat, NEW S, NEW f \in [1..k -> S],
         \A i, j \in 1..k : f[i] = f[j] => i = j
  PROVE  Cardinality(Range(f)) = k
<1>1. f \in [1..k -> Range(f)] /\ \A y \in Range(f) : \E x \in 1..k : f[x] = y
  BY ZenonT(60) DEF Range
<1>2. ExistsBijection(1..k, Range(f))
  <2>1. f \in Injection(1..k, Range(f))
    BY <1>1, ZenonT(60) DEF Injection, IsInjective
  <2>2. f \in Surjection(1..k, Range(f))
    BY <1>1, ZenonT(60) DEF Surjection
  <2> QED BY <2>1, <2>2, ZenonT(60) DEF ExistsBijection, Bijection
<1> QED BY <1>2, FS_CountingElements, ZenonT(60)

-----------------------------------------------------------------------------
(* The named semaphores.                                                   *)

CONSTANT SemNames    \* the names that programs use

(* Any process makes any call; a process inside P makes none.              *)
SemNext ==
  \/ \E name \in SemNames, init \in Int : Create(name, init)
  \/ \E name \in SemNames : Signal(name)
  \/ \E p \in Callers, name \in SemNames : inside[p] = -1 /\ Wait(p, name)
  \/ \E p \in Callers : Proceed(p)

SemSpec == SemInit /\ [][SemNext]_semVars

SemSlots == 0..(MAX_SEMAPHORE - 1)

SemSet == [name : SemNames \cup LongNames \cup {""}, value : Int]

SemTypeOK ==
  /\ bm \in SUBSET SemSlots
  /\ semTab \in [SemSlots -> SemSet]
  /\ inside \in [Callers -> SemSlots \cup {-1}]

(* No two slots in use have one name, unless it is one Sem cannot hold.    *)
NamesDiffer ==
  \A i, j \in bm :
    semTab[i].name = semTab[j].name /\ semTab[i].name \notin LongNames => i = j

(* A process is inside P only on a slot in use.                            *)
InsideUsed == \A p \in Callers : inside[p] \in bm \cup {-1}

SemInv ==
  /\ SemTypeOK /\ NamesDiffer /\ InsideUsed
  /\ \A i \in SemSlots \ bm : semTab[i] = NoSem

-----------------------------------------------------------------------------
(* The fields of a semaphore have their types.                             *)
LEMMA SemFields ==
  /\ \A s \in SemSet : s.value \in Int
  /\ \A s \in SemSet, x \in Int : /\ [s EXCEPT !.value = x] \in SemSet
                              /\ [s EXCEPT !.value = x].name = s.name
  /\ \A name \in SemNames, init \in Int : Sem(name, init) \subseteq SemSet
<1>1. ASSUME NEW name \in SemNames, NEW init \in Int, NEW s \in Sem(name, init)
      PROVE  s \in SemSet
  BY ZenonT(60) DEF Sem, SemSet
<1> QED BY <1>1, ZenonT(60) DEF SemSet

(* Lookup returns a slot with the name, or -1 when there is none; a name   *)
(* that Sem can hold has one slot.                                         *)
LEMMA LookupFinds ==
  ASSUME SemTypeOK, NamesDiffer, NEW name
  PROVE  /\ \A i \in bm : semTab[i].name = name =>
              Lookup(name) \in bm /\ semTab[Lookup(name)].name = name
         /\ name \notin LongNames =>
              \A i \in bm : semTab[i].name = name => Lookup(name) = i
         /\ (\A i \in bm : semTab[i].name # name) => Lookup(name) = -1
         /\ Lookup(name) \in bm \cup {-1}
<1>1. ASSUME NEW i \in bm, semTab[i].name = name
      PROVE  Lookup(name) \in bm /\ semTab[Lookup(name)].name = name
  <2> DEFINE Same == {k \in bm : semTab[k].name = name}
             Less == OpToRel(<, Nat)
  <2>1. Same # {} /\ Same \subseteq Nat
    <3>1. bm \subseteq Nat
      BY STableAssumption, SMTT(60) DEF SemTypeOK, SemSlots
    <3> QED BY <1>1, <3>1, ZenonT(60)
  <2>2. PICK k \in Same : \A j \in Same : ~(<<j, k>> \in Less)
    <3> HIDE DEF Same, Less
    <3>1. IsWellFoundedOn(Less, Nat)
      BY NatLessThanWellFounded, ZenonT(60) DEF Less
    <3> QED BY <2>1, <3>1, WFMin, ZenonT(60)
  <2>3. ASSUME NEW j \in bm, semTab[j].name = name PROVE k <= j
    <3>1. j \in Same
      BY <2>3, ZenonT(60)
    <3> HIDE DEF Same
    <3>2. ~(j < k)
      BY <2>1, <2>2, <3>1, ZenonT(60) DEF OpToRel
    <3>3. j \in Nat /\ k \in Nat
      BY <2>1, <3>1, ZenonT(60)
    <3> HIDE DEF Less
    <3> QED BY <3>2, <3>3, SMTT(60)
  <2> HIDE DEF Less
  <2> QED BY <1>1, <2>3, ZenonT(60) DEF Lookup
<1>2. ASSUME NEW i \in bm, semTab[i].name = name, name \notin LongNames
      PROVE  Lookup(name) = i
  BY <1>1, <1>2, ZenonT(60) DEF NamesDiffer
<1>3. (\A i \in bm : semTab[i].name # name) => Lookup(name) = -1
  BY ZenonT(60) DEF Lookup
<1> QED BY <1>1, <1>2, <1>3, ZenonT(60)

(* Create fills a free slot with a new name, or changes nothing.           *)
LEMMA CreateStep ==
  ASSUME SemInv, NEW name \in SemNames, NEW init \in Int, Create(name, init)
  PROVE  SemInv'
<1> USE DEF SemInv
<1> DEFINE pid == FindBit(bm, MAX_SEMAPHORE)
<1>1. CASE Lookup(name) # -1 \/ pid = -1
  BY <1>1, ZenonT(60)
     DEF Create, Sem, semVars, SemTypeOK, NamesDiffer, InsideUsed
<1>2. CASE Lookup(name) = -1 /\ pid # -1
  <2>1. pid \in SemSlots \ bm
    BY <1>2, FindBitClear, STableAssumption, ZenonT(60) DEF SemSlots
  <2>2. \A i \in bm : semTab[i].name # name
    <3>1. ASSUME NEW i \in bm, semTab[i].name = name PROVE FALSE
      <4>1. -1 \in bm
        BY <1>2, <3>1, LookupFinds, ZenonT(60)
      <4> QED BY <4>1, STableAssumption, SMTT(60) DEF SemTypeOK, SemSlots
    <3> QED BY <3>1, ZenonT(60)
  <2>3. PICK s \in Sem(name, init) :
          /\ bm' = bm \cup {pid}
          /\ semTab' = [semTab EXCEPT ![pid] = s]
          /\ inside' = inside
    BY <1>2, ZenonT(60) DEF Create, Mark
  <2>4. s \in SemSet /\ (s.name \in LongNames \/ s.name = name)
    BY SemFields, ZenonT(60) DEF Sem
  <2> HIDE DEF pid
  <2>5. SemTypeOK'
    BY <2>1, <2>3, <2>4, ZenonT(60) DEF SemTypeOK
  <2>6. NamesDiffer'
    BY <2>1, <2>2, <2>3, <2>4, ZenonT(60) DEF NamesDiffer, SemTypeOK
  <2>7. InsideUsed'
    BY <2>3, ZenonT(60) DEF InsideUsed
  <2>8. \A i \in SemSlots \ bm' : semTab'[i] = NoSem
    BY <2>1, <2>3, ZenonT(60) DEF SemTypeOK
  <2> QED BY <2>5, <2>6, <2>7, <2>8, ZenonT(60)
<1> QED BY <1>1, <1>2, ZenonT(60)

(* Signal and the end of P change a value, never a name.                   *)
LEMMA ValueStep ==
  ASSUME SemInv, NEW i \in bm, NEW x \in Int,
         semTab' = [semTab EXCEPT ![i].value = x], bm' = bm,
         inside' \in [Callers -> SemSlots \cup {-1}], InsideUsed'
  PROVE  SemInv'
<1> USE DEF SemInv
<1>1. i \in SemSlots /\ semTab[i] \in SemSet
  BY ZenonT(60) DEF SemTypeOK
<1>2. SemTypeOK'
  BY <1>1, SemFields, ZenonT(60) DEF SemTypeOK
<1>3. \A j \in SemSlots : semTab'[j].name = semTab[j].name
  BY <1>1, SemFields, ZenonT(60) DEF SemTypeOK
<1>4. \A j \in SemSlots \ bm : semTab'[j] = semTab[j]
  BY <1>1, ZenonT(60) DEF SemTypeOK
<1>5. NamesDiffer'
  BY <1>3, SMTT(60) DEF NamesDiffer, SemTypeOK
<1> QED BY <1>2, <1>4, <1>5, ZenonT(60)

(* Every step preserves the invariant.                                     *)
LEMMA SemStep ==
  SemInv /\ [SemNext]_semVars => SemInv'
<1> SUFFICES ASSUME SemInv, [SemNext]_semVars PROVE SemInv'
  BY ZenonT(60)
<1> USE DEF SemInv
<1>1. ASSUME NEW name \in SemNames, Signal(name) PROVE SemInv'
  <2>1. CASE Lookup(name) = -1
    BY <1>1, <2>1, ZenonT(60) DEF Signal, SemTypeOK, NamesDiffer, InsideUsed
  <2>2. CASE Lookup(name) # -1
    <3>1. Lookup(name) \in bm
      BY <2>2, LookupFinds, ZenonT(60)
    <3>2. semTab[Lookup(name)].value + 1 \in Int
      BY <3>1, SemFields, SMTT(60) DEF SemTypeOK
    <3> QED BY <1>1, <2>2, <3>1, <3>2, ValueStep, ZenonT(60)
               DEF Signal, InsideUsed, SemTypeOK
  <2> QED BY <2>1, <2>2, ZenonT(60)
<1>2. ASSUME NEW p \in Callers, NEW name \in SemNames, Wait(p, name) PROVE SemInv'
  <2>1. Lookup(name) \in bm \cup {-1}
    BY LookupFinds, ZenonT(60)
  <2> QED BY <1>2, <2>1, ZenonT(60)
             DEF Wait, SemTypeOK, NamesDiffer, InsideUsed
<1>3. ASSUME NEW p \in Callers, Proceed(p) PROVE SemInv'
  <2>1. inside[p] \in bm
    BY <1>3, ZenonT(60) DEF Proceed, InsideUsed
  <2>2. semTab[inside[p]].value - 1 \in Int
    BY <2>1, SemFields, SMTT(60) DEF SemTypeOK
  <2>3. inside' \in [Callers -> SemSlots \cup {-1}] /\ InsideUsed'
    BY <1>3, ZenonT(60) DEF Proceed, SemTypeOK, InsideUsed
  <2> QED BY <1>3, <2>1, <2>2, <2>3, ValueStep, ZenonT(60) DEF Proceed
<1>4. CASE UNCHANGED semVars
  BY <1>4, ZenonT(60) DEF semVars, SemTypeOK, NamesDiffer, InsideUsed
<1> QED BY <1>1, <1>2, <1>3, <1>4, CreateStep, ZenonT(60) DEF SemNext

-----------------------------------------------------------------------------
(* Whatever calls programs make, with names that Sem can hold or longer    *)
(* ones, a name that it can hold stands for one semaphore: it is found by  *)
(* its name from its creation on, a second CreateSemaphore with the name   *)
(* changes nothing, and the slots not in use stay empty.                   *)
THEOREM SemaphoresCorrectness ==
  SemSpec => []SemaphoresNamed
<1>1. SemInit => SemInv
  <2> SUFFICES ASSUME SemInit PROVE SemInv
    BY ZenonT(60)
  <2>1. NoSem \in SemSet
    BY SMTT(60) DEF NoSem, SemSet
  <2>2. SemTypeOK
    BY <2>1, ZenonT(60) DEF SemInit, Clean, SemTypeOK, SemSlots
  <2> QED BY <2>2, ZenonT(60)
             DEF SemInit, Clean, SemInv, SemSlots, NamesDiffer, InsideUsed
<1>2. SemInv => SemaphoresNamed
  BY LookupFinds, ZenonT(60) DEF SemInv, SemaphoresNamed, SemSlots
<1> QED BY <1>1, <1>2, SemStep, PTL DEF SemSpec

-----------------------------------------------------------------------------
(* The frames of the loader.                                               *)

(* What a process can be loading.                                          *)
Headers == {coff2noff(s) : s \in Programs}

FramesTypeOK ==
  /\ pc \in [Procs -> {"new", "refused", "P", "locked", "copy", "run", "exited"}]
  /\ exec \in [Procs -> [sections : Programs \cup {<<>>}, noff : Headers \cup {NoHeader}]]
  /\ space \in [Procs -> [numPages : Nat, frames : Seq(0..(NumFrames - 1))]]

(* A process that is about to take its frames has read its header.         *)
HeaderRead == \A p \in Procs : pc[p] \in {"P", "locked"} => exec[p].noff \in Headers

(* One process at a time is between addrLock->P and addrLock->V.           *)
OneLocked == \A p, q \in Procs : pc[p] = "locked" /\ pc[q] = "locked" => p = q

FramesInv == FramesTypeOK /\ HeaderRead /\ OneLocked /\ FramesOwned

(* Initially no frame is taken.                                            *)
LEMMA InitFrames == Init => FramesInv
<1> SUFFICES ASSUME Init PROVE FramesInv
  BY ZenonT(60)
<1>1. <<>> \in Seq(0..(NumFrames - 1)) /\ 0 \in Nat
  BY SMTT(60)
<1>2. FramesTypeOK
  <2>1. [sections |-> <<>>, noff |-> NoHeader]
          \in [sections : Programs \cup {<<>>}, noff : Headers \cup {NoHeader}]
    BY ZenonT(60)
  <2>2. [numPages |-> 0, frames |-> <<>>]
          \in [numPages : Nat, frames : Seq(0..(NumFrames - 1))]
    BY <1>1, ZenonT(60)
  <2> QED BY <2>1, <2>2, ZenonT(60) DEF Init, FramesTypeOK
<1>3. HeaderRead
  BY ZenonT(60) DEF Init, HeaderRead
<1>4. \A p \in Procs : space[p].numPages = 0 /\ Frames(p) = {}
  <2>1. Range(<<>>) = {}
    BY SMTT(60) DEF Range
  <2>2. \A p \in Procs : space[p].numPages = 0 /\ space[p].frames = <<>>
    BY ZenonT(60) DEF Init
  <2> QED BY <2>1, <2>2, ZenonT(60) DEF Frames
<1>5. Cardinality({}) = 0
  BY FS_EmptySet, ZenonT(60)
<1>6. OneLocked /\ LockHeld
  BY ZenonT(60) DEF Init, OneLocked, LockHeld
<1>7. FramesOwned
  BY <1>4, <1>5, <1>6, ZenonT(60) DEF Init, Clean, FramesOwned
<1> QED BY <1>2, <1>3, <1>6, <1>7, ZenonT(60) DEF FramesInv

(* addrLock lets one process in, and Allocate gives it back on both ways.  *)
LEMMA LockStep ==
  ASSUME FramesInv, [Next]_lvars
  PROVE  OneLocked' /\ LockHeld'
<1>0. /\ addrLock = IF \E q \in Procs : pc[q] = "locked" THEN 0 ELSE 1
      /\ \A q, r \in Procs : pc[q] = "locked" /\ pc[r] = "locked" => q = r
      /\ pc = [q \in Procs |-> pc[q]]
  BY ZenonT(60) DEF FramesInv, FramesTypeOK, FramesOwned, LockHeld, OneLocked
<1>1. ASSUME NEW p \in Procs, AddrLockP(p) PROVE OneLocked' /\ LockHeld'
  <2>1. addrLock > 0 /\ addrLock' = addrLock - 1 /\ pc' = [pc EXCEPT ![p] = "locked"]
    BY <1>1, ZenonT(60) DEF AddrLockP, Goto
  <2>2. (\A q \in Procs : pc[q] # "locked") /\ addrLock' = 0
    BY <1>0, <2>1, SMTT(60)
  <2>3. pc'[p] = "locked" /\ \A q \in Procs \ {p} : pc'[q] = pc[q]
    BY <1>0, <2>1, ZenonT(60)
  <2> QED BY <2>2, <2>3, ZenonT(60) DEF OneLocked, LockHeld
<1>2. ASSUME NEW p \in Procs, Allocate(p) PROVE OneLocked' /\ LockHeld'
  <2>1. pc[p] = "locked" /\ addrLock' = addrLock + 1
    BY <1>2, ZenonT(60) DEF Allocate, At
  <2>2. PICK l \in {"copy", "run"} : pc' = [pc EXCEPT ![p] = l]
    BY <1>2, ZenonT(60) DEF Allocate, Goto
  <2>3. pc'[p] # "locked" /\ \A q \in Procs \ {p} : pc'[q] = pc[q]
    BY <1>0, <2>2, ZenonT(60)
  <2>4. \A q \in Procs : pc'[q] # "locked"
    BY <1>0, <2>1, <2>3, ZenonT(60)
  <2>5. addrLock = 0
    BY <1>0, <2>1, ZenonT(60)
  <2>6. addrLock' = 1
    BY <2>1, <2>5, SMTT(60)
  <2> QED BY <2>4, <2>6, ZenonT(60) DEF OneLocked, LockHeld
<1>3. ASSUME NEW p \in Procs, NEW l \in {"P", "refused", "run", "exited"},
             addrLock' = addrLock, pc[p] # "locked",
             pc' = [pc EXCEPT ![p] = l] \/ pc' = pc
      PROVE  OneLocked' /\ LockHeld'
  <2>1. \A q \in Procs : pc'[q] = "locked" <=> pc[q] = "locked"
    BY <1>0, <1>3, ZenonT(60)
  <2> QED BY <1>0, <1>3, <2>1, ZenonT(60) DEF OneLocked, LockHeld
<1>4. ASSUME NEW p \in Procs, NEW s \in Programs, OpenExecutable(p, s)
      PROVE  OneLocked' /\ LockHeld'
  BY <1>3, <1>4, ZenonT(60) DEF OpenExecutable, At, Goto
<1>5. ASSUME NEW p \in Procs, Copy(p) \/ Exit(p) \/ \E a \in Stores : Run(p, a)
      PROVE  OneLocked' /\ LockHeld'
  BY <1>3, <1>5, ZenonT(60) DEF Copy, Exit, Run, At, Goto
<1>6. CASE UNCHANGED lvars
  BY <1>0, <1>6, ZenonT(60) DEF lvars, OneLocked, LockHeld
<1> QED BY <1>1, <1>2, <1>4, <1>5, <1>6, ZenonT(60) DEF Next

(* A step that takes or drops no frame.                                    *)
LEMMA SameFrames ==
  ASSUME FramesInv, UNCHANGED <<space, gPhysPageBitMap>>,
         FramesTypeOK', HeaderRead', OneLocked', LockHeld'
  PROVE  FramesInv'
<1>1. \A p \in Procs : Frames(p)' = Frames(p)
  BY ZenonT(60) DEF Frames
<1>2. FramesOwned'
  BY <1>1, ZenonT(60) DEF FramesInv, FramesOwned
<1> QED BY <1>2, ZenonT(60) DEF FramesInv

(* The constructor gives each page a frame that no other page has.         *)
LEMMA AllocateFrames ==
  ASSUME FramesInv, NEW p \in Procs, Allocate(p), OneLocked', LockHeld'
  PROVE  FramesInv'
<1> DEFINE n == numPages(exec[p].noff)
           f == FindBits(gPhysPageBitMap, NumFrames, n)
<1>0. exec' = exec /\ pc[p] = "locked"
  BY ZenonT(60) DEF Allocate, At
<1>1. CASE n <= NumClear(gPhysPageBitMap, NumFrames)
           /\ gPhysPageBitMap' = gPhysPageBitMap \cup Range(f)
           /\ space' = [space EXCEPT ![p] = [numPages |-> n, frames |-> f]]
           /\ pc' = [pc EXCEPT ![p] = "copy"]
  <2>1. n \in Nat /\ NumFrames \in Nat
    <3>1. exec[p].noff \in Headers
      BY <1>0, ZenonT(60) DEF FramesInv, HeaderRead
    <3> QED BY <3>1, ProgramsAssumption, LoaderAssumption, ZenonT(60)
               DEF Headers
  <2>2. /\ f \in [1..n -> (0..(NumFrames - 1)) \ gPhysPageBitMap]
        /\ \A i, j \in 1..n : f[i] = f[j] => i = j
    BY <1>1, <2>1, FindBitsClear, ZenonT(60)
  <2> HIDE DEF n, f
  <2>3. Cardinality(Range(f)) = n
    BY <2>1, <2>2, RangeCount, ZenonT(60)
  <2>4. Range(f) \subseteq (0..(NumFrames - 1)) \ gPhysPageBitMap
    BY <2>2, ZenonT(60) DEF Range
  <2>5. f \in Seq(0..(NumFrames - 1))
    BY <2>1, <2>2, SMTT(60)
  <2>6. /\ space'[p].numPages = n /\ Frames(p)' = Range(f)
        /\ \A q \in Procs \ {p} : space'[q] = space[q] /\ Frames(q)' = Frames(q)
    BY <1>1, ZenonT(60) DEF FramesInv, FramesTypeOK, Frames
  <2>7. FramesTypeOK'
    BY <1>0, <1>1, <2>1, <2>5, ZenonT(60) DEF FramesInv, FramesTypeOK
  <2>8. HeaderRead'
    BY <1>0, <1>1, ZenonT(60) DEF FramesInv, FramesTypeOK, HeaderRead
  <2>9. \A q \in Procs : /\ Frames(q)' \subseteq gPhysPageBitMap'
                         /\ Cardinality(Frames(q)') = space'[q].numPages
    BY <1>1, <2>3, <2>6, ZenonT(60) DEF FramesInv, FramesOwned
  <2>10. \A q, r \in Procs : q # r => Frames(q)' \cap Frames(r)' = {}
    <3>1. \A q \in Procs : Range(f) \cap Frames(q) = {}
      BY <2>4, ZenonT(60) DEF FramesInv, FramesOwned
    <3>2. \A q, r \in Procs : q # r => Frames(q) \cap Frames(r) = {}
      BY ZenonT(60) DEF FramesInv, FramesOwned
    <3>3. Range(f) = Frames(p)'
      BY <2>6, ZenonT(60)
    <3> SUFFICES ASSUME NEW q \in Procs, NEW r \in Procs, q # r
                 PROVE  Frames(q)' \cap Frames(r)' = {}
      BY ZenonT(60)
    <3>4. CASE q = p
      BY <2>6, <3>1, <3>3, <3>4, SMTT(60)
    <3>5. CASE r = p
      BY <2>6, <3>1, <3>3, <3>5, SMTT(60)
    <3>6. CASE q # p /\ r # p
      BY <2>6, <3>2, <3>6, ZenonT(60)
    <3> QED BY <3>4, <3>5, <3>6, ZenonT(60)
  <2>11. gPhysPageBitMap' \subseteq 0..(NumFrames - 1)
    BY <1>1, <2>4, ZenonT(60) DEF FramesInv, FramesOwned
  <2>12. FramesOwned'
    BY <2>9, <2>10, <2>11, ZenonT(60) DEF FramesOwned
  <2> QED BY <2>7, <2>8, <2>12, ZenonT(60) DEF FramesInv
<1>2. CASE pc' = [pc EXCEPT ![p] = "run"] /\ UNCHANGED <<gPhysPageBitMap, space>>
  <2>1. FramesTypeOK' /\ HeaderRead'
    BY <1>0, <1>2, ZenonT(60) DEF FramesInv, FramesTypeOK, HeaderRead
  <2> QED BY <1>2, <2>1, SameFrames, ZenonT(60)
<1>3. FillTable(gPhysPageBitMap, n).bm = gPhysPageBitMap \cup Range(f)
      /\ FillTable(gPhysPageBitMap, n).frames = f
  BY ZenonT(60) DEF FillTable
<1> QED BY <1>1, <1>2, <1>3, ZenonT(60) DEF Allocate, Goto

(* An address space that is deleted keeps its frames marked.               *)
LEMMA ExitFrames ==
  ASSUME FramesInv, NEW p \in Procs, Exit(p), OneLocked', LockHeld'
  PROVE  FramesInv'
<1>0. /\ exec' = exec /\ gPhysPageBitMap' = gPhysPageBitMap
      /\ pc' = [pc EXCEPT ![p] = "exited"]
      /\ space' = [space EXCEPT ![p] = [numPages |-> 0, frames |-> <<>>]]
  BY ZenonT(60) DEF Exit, Goto
<1>1. <<>> \in Seq(0..(NumFrames - 1)) /\ 0 \in Nat /\ Range(<<>>) = {}
  BY SMTT(60) DEF Range
<1>2. /\ space'[p].numPages = 0 /\ Frames(p)' = {}
      /\ \A q \in Procs \ {p} : space'[q] = space[q] /\ Frames(q)' = Frames(q)
  BY <1>0, <1>1, ZenonT(60) DEF FramesInv, FramesTypeOK, Frames
<1>3. FramesTypeOK'
  BY <1>0, <1>1, ZenonT(60) DEF FramesInv, FramesTypeOK
<1>4. HeaderRead'
  BY <1>0, ZenonT(60) DEF FramesInv, FramesTypeOK, HeaderRead
<1>5. Cardinality({}) = 0
  BY FS_EmptySet, ZenonT(60)
<1>6. \A q \in Procs : /\ Frames(q)' \subseteq gPhysPageBitMap'
                       /\ Cardinality(Frames(q)') = space'[q].numPages
  BY <1>0, <1>2, <1>5, ZenonT(60) DEF FramesInv, FramesOwned
<1>7. \A q, r \in Procs : q # r => Frames(q)' \cap Frames(r)' = {}
  BY <1>2, ZenonT(60) DEF FramesInv, FramesOwned
<1>8. FramesOwned'
  BY <1>0, <1>6, <1>7, ZenonT(60) DEF FramesInv, FramesOwned
<1> QED BY <1>3, <1>4, <1>8, ZenonT(60) DEF FramesInv

(* Every step keeps the frames apart.                                      *)
LEMMA StepFrames == FramesInv /\ [Next]_lvars => FramesInv'
<1> SUFFICES ASSUME FramesInv, [Next]_lvars PROVE FramesInv'
  BY ZenonT(60)
<1>0. OneLocked' /\ LockHeld'
  BY LockStep, ZenonT(60)
<1>1. ASSUME NEW p \in Procs, NEW s \in Programs, OpenExecutable(p, s)
      PROVE  FramesInv'
  <2>1. FramesTypeOK' /\ HeaderRead'
    BY <1>1, ZenonT(60)
       DEF OpenExecutable, Goto, FramesInv, FramesTypeOK, HeaderRead, Headers
  <2> QED BY <1>0, <1>1, <2>1, SameFrames, ZenonT(60) DEF OpenExecutable
<1>2. ASSUME NEW p \in Procs, AddrLockP(p) PROVE FramesInv'
  <2>1. FramesTypeOK' /\ HeaderRead'
    BY <1>2, ZenonT(60)
       DEF AddrLockP, At, Goto, FramesInv, FramesTypeOK, HeaderRead
  <2> QED BY <1>0, <1>2, <2>1, SameFrames, ZenonT(60) DEF AddrLockP
<1>3. ASSUME NEW p \in Procs, Copy(p) PROVE FramesInv'
  <2>1. FramesTypeOK' /\ HeaderRead'
    BY <1>3, ZenonT(60) DEF Copy, Goto, FramesInv, FramesTypeOK, HeaderRead
  <2> QED BY <1>0, <1>3, <2>1, SameFrames, ZenonT(60) DEF Copy
<1>4. ASSUME NEW p \in Procs, NEW a \in Stores, Run(p, a) PROVE FramesInv'
  <2>1. UNCHANGED <<exec, gPhysPageBitMap, space, pc>>
    BY <1>4, ZenonT(60) DEF Run
  <2>2. FramesTypeOK' /\ HeaderRead'
    BY <2>1, ZenonT(60) DEF FramesInv, FramesTypeOK, HeaderRead
  <2> QED BY <1>0, <2>1, <2>2, SameFrames, ZenonT(60)
<1>5. CASE UNCHANGED lvars
  <2>1. UNCHANGED <<exec, gPhysPageBitMap, space, pc>>
    BY <1>5, ZenonT(60) DEF lvars
  <2>2. FramesTypeOK' /\ HeaderRead'
    BY <2>1, ZenonT(60) DEF FramesInv, FramesTypeOK, HeaderRead
  <2> QED BY <1>0, <2>1, <2>2, SameFrames, ZenonT(60)
<1> QED BY <1>0, <1>1, <1>2, <1>3, <1>4, <1>5, AllocateFrames, ExitFrames,
           ZenonT(60) DEF Next

(* For any processes, programs and numbers of frames: a process has either *)
(* a frame for every page or none, every frame it has is marked in         *)
(* gPhysPageBitMap, no two processes have the same frame, and addrLock is  *)
(* taken only while a process is between P and V.                          *)
THEOREM FramesCorrectness == Spec => []FramesOwned
<1>1. FramesInv => FramesOwned
  BY ZenonT(60) DEF FramesInv
<1> QED BY <1>1, InitFrames, StepFrames, PTL DEF Spec

=============================================================================
