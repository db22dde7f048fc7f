---------------------------- MODULE FileSysProofs ----------------------------
(***************************************************************************)
(* Proofs about the file system, for a disk, a directory and files of any  *)
(* size.                                                                   *)
(***************************************************************************)
EXTENDS FileSys, FiniteSetTheorems, TLAPS

Sectors == 0..(NumSectors - 1)
Names == FileNames \cup {"stdin", "stdout"}
Entry == [inUse : BOOLEAN, name : Names \cup {""}, sector : Sectors]

(* A directory, in which no two entries in use have one name.              *)
IsTable(table) ==
  /\ table \in [1..NumDirEntries -> Entry]
  /\ \A i \in 1..NumDirEntries : table[i].inUse => table[i].name \in Names
  /\ \A i, j \in 1..NumDirEntries :
       table[i].inUse /\ table[j].inUse /\ table[i].name = table[j].name => i = j

InUse(table) == {e \in Range(table) : e.inUse}

(* A header, with as many sectors as its file needs, all different.        *)
IsHeader(h) ==
  /\ h[1] \in Nat
  /\ h[2] \in [1..divRoundUp(h[1], SectorSize) -> Sectors]
  /\ \A i, j \in 1..divRoundUp(h[1], SectorSize) : h[2][i] = h[2][j] => i = j

IsDisk(d) == d = [s \in Sectors |-> d[s]]

System(d) ==
  /\ MapSector(d) \in Sectors \ {FreeMapSector, DirectorySector}
  /\ DirSector(d) \in Sectors \ {FreeMapSector, DirectorySector}
  /\ MapSector(d) # DirSector(d)

(* The map is exact, and no sector is used twice.                          *)
Exact(d) ==
  /\ MapOf(d) \subseteq Sectors
  /\ \A s \in Sectors : s \in MapOf(d) <=>
       s \in SystemSectors(d) \/ \E e \in Entries(d) : s \in Used(d, e)
  /\ \A e \in Entries(d) : Used(d, e) \cap SystemSectors(d) = {}
  /\ \A e \in Entries(d) : e.sector \notin Range(HeaderOf(d, e)[2])
  /\ \A e, f \in Entries(d) : e # f => Used(d, e) \cap Used(d, f) = {}

Headed(d) ==
  \A e \in Entries(d) : d[e.sector].kind = "hdr" /\ IsHeader(HeaderOf(d, e))

Good(d) == IsDisk(d) /\ System(d) /\ IsTable(DirOf(d)) /\ Headed(d) /\ Exact(d)

(* The sectors of the file named by e hold the bytes written to it.        *)
Holds(d, w, e) ==
  LET h == HeaderOf(d, e)
  IN  /\ h[1] \in Nat /\ DOMAIN w[e.name] = 1..h[1]
      /\ \A i \in 1..h[1] :
           w[e.name][i] # -1 =>
             Contents(d[ByteToSector(h, i - 1)])[1 + ((i - 1) % SectorSize)]
               = w[e.name][i]

(* What a stop leaves of the files, but for the bytes of the one called n. *)
Kept(d, w, n) ==
  \A e \in Entries(d) : /\ d[e.sector].kind = "hdr"
                        /\ e.name # n => Holds(d, w, e)

(* The disk after the first k writes of l.                                 *)
After(d, l, k) ==
  [s \in Sectors |-> IF \E j \in 1..k : l[j][1] = s
                     THEN l[CHOOSE j \in 1..k : l[j][1] = s][2] ELSE d[s]]

(* The writes to come are to different sectors.                            *)
IsLog(l) ==
  /\ l \in Seq(Range(l))
  /\ \A i \in 1..Len(l) : l[i][1] \in Sectors
  /\ \A i, j \in 1..Len(l) : l[i][1] = l[j][1] => i = j

(* An open file has the header of the file that has its name.              *)
Opened(d, f) ==
  /\ f = [hdr |-> f.hdr, name |-> f.name, pos |-> f.pos] /\ f.pos \in Nat
  /\ \E e \in Entries(d) : e.name = f.name /\ HeaderOf(d, e) = f.hdr

OpenOK(d, files) ==
  /\ files = [s \in 0..(NumSlots - 1) |-> files[s]]
  /\ \A s \in 0..(NumSlots - 1) : files[s] = NoFile \/ Opened(d, files[s])

(* Between operations: the disk is as it should be, the files hold what    *)
(* was written, and stdin and stdout are there.                            *)
AtRest(d, f, w) ==
  /\ Good(d) /\ DOMAIN w = Names /\ \A e \in Entries(d) : Holds(d, w, e)
  /\ OpenOK(d, f)
  /\ \A n \in {"stdin", "stdout"} : \E e \in Entries(d) : e.name = n

(* In an operation on n: so it is when the writes to come are done, and a  *)
(* stop before that leaves the files.                                      *)
Operation(d, l, n, f, w) ==
  /\ IsDisk(d) /\ IsLog(l) /\ AtRest(After(d, l, Len(l)), f, w)
  /\ \A k \in 0..Len(l) : Kept(After(d, l, k), w, n)

FInv == Operation(disk, log, working, openf, written)

-----------------------------------------------------------------------------
(* class BitMap.                                                           *)

(* BitMap::Find returns a clear bit when there is one.                     *)
LEMMA FirstClear ==
  ASSUME NEW b, NEW n \in Nat, \E i \in 0..(n - 1) : i \notin b
  PROVE  FindBit(b, n) \in (0..(n - 1)) \ b
<1> DEFINE Clears == (0..(n - 1)) \ b
           Less == OpToRel(<, Nat)
<1>1. Clears # {} /\ Clears \subseteq Nat
  <2> HIDE DEF Less
  <2> QED BY SMTT(60)
<1>2. PICK i \in Clears : \A j \in Clears : ~(<<j, i>> \in Less)
  <2> HIDE DEF Clears, Less
  <2>1. IsWellFoundedOn(Less, Nat)
    BY NatLessThanWellFounded, ZenonT(60) DEF Less
  <2> QED BY <1>1, <2>1, WFMin, ZenonT(60)
<1>3. ASSUME NEW j \in 0..(i - 1), j \notin b PROVE FALSE
  <2>1. j \in Clears /\ j < i
    BY <1>3, SMTT(60)
  <2>2. <<j, i>> \in Less
    <3> HIDE DEF Clears
    <3> QED BY <1>1, <2>1, ZenonT(60) DEF OpToRel
  <2> HIDE DEF Clears, Less
  <2> QED BY <1>2, <2>1, <2>2, ZenonT(60)
<1>4. i \in 0..(n - 1) /\ i \notin b /\ \A j \in 0..(i - 1) : j \in b
  BY <1>3, ZenonT(60)
<1> HIDE DEF Clears, Less
<1> QED BY <1>4, ZenonT(60) DEF FindBit

(* BitMap::Find returns a clear bit or -1.                                 *)
LEMMA FindBitClear ==
  ASSUME NEW b, NEW n \in Nat
  PROVE  FindBit(b, n) = -1 \/ FindBit(b, n) \in (0..(n - 1)) \ b
<1>1. CASE \E i \in 0..(n - 1) : i \notin b
  BY <1>1, FirstClear, ZenonT(60)
<1>2. CASE ~(\E i \in 0..(n - 1) : i \notin b)
  BY <1>2, ZenonT(60) DEF FindBit
<1> QED BY <1>1, <1>2, ZenonT(60)

(* One bit further, one more clear bit or none.                            *)
LEMMA CountStep ==
  ASSUME NEW m, NEW b \in Nat
  PROVE  /\ Cardinality(ClearBefore(m, b)) \in Nat
         /\ Cardinality(ClearBefore(m, b + 1)) =
              Cardinality(ClearBefore(m, b)) + (IF b \in m THEN 0 ELSE 1)
<1> DEFINE C == ClearBefore(m, b)
<1>1. IsFiniteSet(0..(b - 1))
  <2>1. b - 1 \in Int /\ 0 \in Int
    BY SMTT(60)
  <2> QED BY <2>1, FS_Interval, ZenonT(60)
<1>2. IsFiniteSet(C)
  <2>1. C \in SUBSET (0..(b - 1))
    BY ZenonT(60) DEF ClearBefore
  <2> QED BY <1>1, <2>1, FS_Subset, ZenonT(60)
<1>3. Cardinality(C) \in Nat
  BY <1>2, FS_CardinalityType, ZenonT(60)
<1>4. ~(b \in C) /\ ClearBefore(m, b + 1) = IF b \in m THEN C ELSE C \cup {b}
  BY SMTT(60) DEF ClearBefore
<1>5. Cardinality(C \cup {b}) = Cardinality(C) + 1
  BY <1>2, <1>4, FS_AddElement, ZenonT(60)
<1> HIDE DEF C
<1>6. ClearBefore(m, b) = C
  BY ZenonT(60) DEF C
<1> QED BY <1>3, <1>4, <1>5, <1>6, SMTT(60)

(* As long as enough bits are clear, Find has one to return.               *)
LEMMA NthClear ==
  ASSUME NEW m, NEW n \in Nat, NEW i \in Nat \ {0}, i <= NumClear(m, n)
  PROVE  /\ FindNth(m, n, i) \in (0..(n - 1)) \ m
         /\ Cardinality(ClearBefore(m, FindNth(m, n, i))) = i - 1
<1> DEFINE Count(b) == Cardinality(ClearBefore(m, b))
           Enough == {b \in Nat : i <= Count(b)}
           Less == OpToRel(<, Nat)
           nth == {b \in 0..(n - 1) : b \notin m /\ Cardinality(ClearBefore(m, b)) = i - 1}
<1>1. Count(n) = NumClear(m, n)
  BY ZenonT(60) DEF NumClear, ClearBefore
<1>2. n \in Enough /\ Enough \subseteq Nat
  BY <1>1, ZenonT(60)
<1>3. PICK b \in Enough : \A c \in Enough : ~(<<c, b>> \in Less)
  <2> HIDE DEF Enough, Less
  <2>1. IsWellFoundedOn(Less, Nat)
    BY NatLessThanWellFounded, ZenonT(60) DEF Less
  <2> QED BY <1>2, <2>1, WFMin, ZenonT(60)
<1>4. \A c \in Nat : c < b => ~(c \in Enough)
  <2> SUFFICES ASSUME NEW c \in Nat, c < b, c \in Enough PROVE FALSE
    BY ZenonT(60)
  <2>1. <<c, b>> \in Less
    <3> HIDE DEF Enough
    <3> QED BY <1>2, <1>3, ZenonT(60) DEF OpToRel
  <2> HIDE DEF Enough, Less
  <2> QED BY <1>3, <2>1, ZenonT(60)
<1>5. b \in Nat /\ i <= Count(b) /\ \A c \in Nat : c < b => ~(i <= Count(c))
  <2> HIDE DEF Count, Less
  <2> QED BY <1>3, <1>4, ZenonT(60)
<1>6. b # 0
  <2>1. Count(0) = 0
    <3>1. ClearBefore(m, 0) = {}
      BY SMTT(60) DEF ClearBefore
    <3> QED BY <3>1, FS_EmptySet, ZenonT(60)
  <2> HIDE DEF Count
  <2> QED BY <1>5, <2>1, SMTT(60)
<1>7. PICK a \in Nat : b = a + 1 /\ a < b
  <2>1. b - 1 \in Nat /\ b = (b - 1) + 1 /\ b - 1 < b
    BY <1>5, <1>6, SMTT(60)
  <2> QED BY <2>1, ZenonT(60)
<1>8. /\ Count(a) \in Nat
      /\ Count(b) = Count(a) + (IF a \in m THEN 0 ELSE 1)
  BY <1>7, CountStep, ZenonT(60)
<1>9. a \notin m /\ Count(a) = i - 1
  <2>1. ~(i <= Count(a)) /\ i <= Count(b)
    BY <1>5, <1>7, ZenonT(60)
  <2> HIDE DEF Count, Enough, Less
  <2> QED BY <1>8, <2>1, SMTT(60)
<1>10. a < n
  <2>1. ~(n < b)
    <3> HIDE DEF Less, Count
    <3> QED BY <1>2, <1>4, ZenonT(60)
  <2> HIDE DEF Count, Enough, Less
  <2> QED BY <1>5, <1>7, <2>1, SMTT(60)
<1>11. a \in nth
  <2>1. a \in 0..(n - 1)
    <3> HIDE DEF Count, Enough, Less
    <3> QED BY <1>10, SMTT(60)
  <2> QED BY <1>9, <2>1, ZenonT(60)
<1>12. FindNth(m, n, i) = CHOOSE c \in nth : TRUE
  BY <1>11, ZenonT(60) DEF FindNth
<1>13. FindNth(m, n, i) \in nth
  <2> HIDE DEF nth
  <2> QED BY <1>11, <1>12, ZenonT(60)
<1> QED BY <1>13, ZenonT(60)

(* The bits that k calls of Find return are clear, and all different.      *)
LEMMA FindBitsClear ==
  ASSUME NEW m, NEW n \in Nat, NEW k \in Nat, k <= NumClear(m, n)
  PROVE  /\ FindBits(m, n, k) \in [1..k -> (0..(n - 1)) \ m]
         /\ \A i, j \in 1..k : FindBits(m, n, k)[i] = FindBits(m, n, k)[j] => i = j
<1>0. NumClear(m, n) \in Nat
  <2>1. NumClear(m, n) = Cardinality(ClearBefore(m, n))
    BY ZenonT(60) DEF NumClear, ClearBefore
  <2>2. Cardinality(ClearBefore(m, n)) \in Nat
    BY CountStep, SMTT(60)
  <2> QED BY <2>1, <2>2, ZenonT(60)
<1>1. \A i \in 1..k : i \in Nat \ {0} /\ i <= NumClear(m, n)
  <2> DEFINE c == NumClear(m, n)
  <2> HIDE DEF c
  <2>1. c \in Nat /\ k <= c
    BY <1>0, ZenonT(60) DEF c
  <2>2. \A i \in 1..k : i \in Nat \ {0} /\ i <= c
    BY <2>1, SMTT(60)
  <2> QED BY <2>2, ZenonT(60) DEF c
<1>2. \A i \in 1..k : /\ FindNth(m, n, i) \in (0..(n - 1)) \ m
                      /\ Cardinality(ClearBefore(m, FindNth(m, n, i))) = i - 1
  BY <1>1, NthClear, ZenonT(60)
<1>3. \A i \in 1..k : FindBits(m, n, k)[i] = FindNth(m, n, i)
  BY ZenonT(60) DEF FindBits
<1>4. FindBits(m, n, k) \in [1..k -> (0..(n - 1)) \ m]
  BY <1>2, ZenonT(60) DEF FindBits
<1>5. \A i, j \in 1..k : i - 1 = j - 1 => i = j
  BY SMTT(60)
<1>6. \A i, j \in 1..k : FindNth(m, n, i) = FindNth(m, n, j) => i = j
  BY <1>2, <1>5, ZenonT(60)
<1> QED BY <1>3, <1>4, <1>6, ZenonT(60)

(* A sequence of k different elements has k of them.                       *)
LEMMA RangeCount ==
  ASSUME NEW k \in Nat, NEW S, NEW f \in [1..k -> S],
         \A i, j \in 1..k : f[i] = f[j] => i = j
  PROVE  Cardinality(Range(f)) = k
<1>1. f \in [1..k -> Range(f)] /\ \A y \in Range(f) : \E x \in 1..k : f[x] = y
  BY ZenonT(60) DEF Range
<1>2. ExistsBijection(1..k, Range(f))
  <2>1. f \in Injection(1..k, Range(f))
    BY <1>1, ZenonT(60) DEF Injection, IsInjective
  <2>2. f \in Surjection(1..k, Range(f))
    BY <1>1, ZenonT(60) DEF Surjection
  <2> QED BY <2>1, <2>2, ZenonT(60) DEF ExistsBijection, Bijection
<1> QED BY <1>2, FS_CountingElements, ZenonT(60)

-----------------------------------------------------------------------------
(* Sectors of a file.                                                      *)

(* Division with remainder, by a positive number.                          *)
LEMMA Division ==
  ASSUME NEW n \in Nat, NEW k \in Nat \ {0}
  PROVE  /\ n \div k \in Nat /\ n % k \in 0..(k - 1)
         /\ n = (n \div k) * k + (n % k)
  BY SMTT(60)

(* Products of ordered numbers are ordered.                                *)
LEMMA Products ==
  ASSUME NEW i \in Int, NEW j \in Int, NEW k \in Nat, i <= j
  PROVE  i * k \in Int /\ j * k \in Int /\ i * k <= j * k
<1>1. j - i \in Nat /\ (j - i) * k = j * k - i * k
  BY SMTT(60)
<1>2. (j - i) * k \in Nat
  BY <1>1, SMTT(60)
<1> QED BY <1>1, <1>2, SMTT(60)

(* Only one quotient and one remainder are possible.                       *)
LEMMA Quotient ==
  ASSUME NEW n \in Nat, NEW k \in Nat \ {0}, NEW q \in Int, NEW r \in 0..(k - 1),
         n = q * k + r
  PROVE  n \div k = q /\ n % k = r
<1> DEFINE p == n \div k  t == n % k
<1>1. p \in Nat /\ t \in 0..(k - 1) /\ n = p * k + t
  BY Division, ZenonT(60)
<1> HIDE DEF p, t
<1>2. \A i \in Int : (i + 1) * k = i * k + k /\ i * k \in Int
  BY SMTT(60)
<1>3. ~(p < q)
  <2> SUFFICES ASSUME p < q PROVE FALSE
    BY ZenonT(60)
  <2>1. p + 1 \in Int /\ p + 1 <= q /\ k \in Nat
    BY <1>1, SMTT(60)
  <2>2. (p + 1) * k <= q * k
    BY <2>1, Products, ZenonT(60)
  <2> QED BY <1>1, <1>2, <2>2, SMTT(60)
<1>4. ~(q < p)
  <2> SUFFICES ASSUME q < p PROVE FALSE
    BY ZenonT(60)
  <2>1. q + 1 \in Int /\ p \in Int /\ q + 1 <= p /\ k \in Nat
    BY <1>1, SMTT(60)
  <2>2. (q + 1) * k <= p * k
    BY <2>1, Products, ZenonT(60)
  <2> QED BY <1>1, <1>2, <2>2, SMTT(60)
<1>5. p = q
  BY <1>1, <1>3, <1>4, SMTT(60)
<1>6. t = r
  BY <1>1, <1>2, <1>5, SMTT(60)
<1> QED BY <1>5, <1>6, ZenonT(60) DEF p, t

(* Every offset in a file of n bytes is in one of divRoundUp(n, k) sectors.*)
LEMMA RoundUp ==
  ASSUME NEW n \in Nat, NEW k \in Nat \ {0}
  PROVE  /\ divRoundUp(n, k) \in Nat
         /\ \A a \in 0..(n - 1) : 1 + (a \div k) \in 1..divRoundUp(n, k)
<1> DEFINE p == n \div k  t == n % k
<1>1. p \in Nat /\ t \in 0..(k - 1) /\ n = p * k + t
  BY Division, ZenonT(60)
<1>2. divRoundUp(n, k) = p + (IF t > 0 THEN 1 ELSE 0)
  BY ZenonT(60) DEF divRoundUp
<1> HIDE DEF p, t
<1>3. divRoundUp(n, k) \in Nat
  BY <1>1, <1>2, SMTT(60)
<1>4. ASSUME NEW a \in 0..(n - 1) PROVE 1 + (a \div k) \in 1..divRoundUp(n, k)
  <2> DEFINE q == a \div k  r == a % k
  <2>1. a \in Nat /\ a < n
    BY SMTT(60)
  <2>2. q \in Nat /\ r \in 0..(k - 1) /\ a = q * k + r
    BY <2>1, Division, ZenonT(60)
  <2> HIDE DEF q, r
  <2>3. ~(p < q)
    <3> SUFFICES ASSUME p < q PROVE FALSE
      BY ZenonT(60)
    <3>1. p + 1 \in Int /\ p + 1 <= q /\ q \in Int /\ k \in Nat
      BY <1>1, <2>2, SMTT(60)
    <3>2. (p + 1) * k <= q * k
      BY <3>1, Products, ZenonT(60)
    <3>3. (p + 1) * k = p * k + k /\ p * k \in Int /\ q * k \in Int
      BY <1>1, <2>2, SMTT(60)
    <3> QED BY <1>1, <2>1, <2>2, <3>2, <3>3, SMTT(60)
  <2>4. q = p => t > 0
    BY <1>1, <2>1, <2>2, SMTT(60)
  <2>5. 1 + q \in 1..divRoundUp(n, k)
    BY <1>1, <1>2, <2>2, <2>3, <2>4, SMTT(60)
  <2> QED BY <2>5, ZenonT(60) DEF q
<1> QED BY <1>3, <1>4, ZenonT(60)

(* An empty file has no sector, and one of a sector's size has one.        *)
LEMMA SmallFiles ==
  ASSUME NEW k \in Nat \ {0}
  PROVE  divRoundUp(0, k) = 0 /\ divRoundUp(k, k) = 1
<1>1. 0 \div k = 0 /\ 0 % k = 0
  <2>1. 0 = 0 * k + 0 /\ 0 \in 0..(k - 1) /\ 0 \in Nat /\ 0 \in Int
    BY SMTT(60)
  <2> QED BY <2>1, Quotient, ZenonT(60)
<1>2. k \div k = 1 /\ k % k = 0
  <2>1. k = 1 * k + 0 /\ 0 \in 0..(k - 1) /\ k \in Nat /\ 1 \in Int
    BY SMTT(60)
  <2> QED BY <2>1, Quotient, ZenonT(60)
<1>3. 0 + (IF 0 > 0 THEN 1 ELSE 0) = 0 /\ 1 + (IF 0 > 0 THEN 1 ELSE 0) = 1
  BY SMTT(60)
<1> QED BY <1>1, <1>2, <1>3, ZenonT(60) DEF divRoundUp

-----------------------------------------------------------------------------
(* class Directory.                                                        *)

(* The entries in use, by their places in the table.                       *)
LEMMA InUsePlaces ==
  ASSUME NEW t, IsTable(t)
  PROVE  /\ DOMAIN t = 1..NumDirEntries
         /\ \A i \in 1..NumDirEntries : t[i] \in Entry
         /\ \A e : e \in InUse(t) <=> \E i \in 1..NumDirEntries : t[i] = e /\ e.inUse
         /\ \A e \in InUse(t) : e \in Entry /\ e.name \in Names /\ e.sector \in Sectors
         /\ \A e, f \in InUse(t) : e.name = f.name => e = f
<1>1. DOMAIN t = 1..NumDirEntries /\ \A i \in 1..NumDirEntries : t[i] \in Entry
  BY ZenonT(60) DEF IsTable
<1>2. \A e : e \in InUse(t) <=> \E i \in 1..NumDirEntries : t[i] = e /\ e.inUse
  BY <1>1, ZenonT(60) DEF InUse, Range
<1>3. \A e \in Entry : e.sector \in Sectors
  BY ZenonT(60) DEF Entry
<1>4. ASSUME NEW e \in InUse(t) PROVE e \in Entry /\ e.name \in Names
  <2>1. PICK i \in 1..NumDirEntries : t[i] = e /\ e.inUse
    BY <1>2, ZenonT(60)
  <2> QED BY <1>1, <2>1, ZenonT(60) DEF IsTable
<1>5. ASSUME NEW e \in InUse(t), NEW f \in InUse(t), e.name = f.name PROVE e = f
  <2>1. PICK i \in 1..NumDirEntries : t[i] = e /\ e.inUse
    BY <1>2, ZenonT(60)
  <2>2. PICK j \in 1..NumDirEntries : t[j] = f /\ f.inUse
    BY <1>2, ZenonT(60)
  <2> QED BY <1>5, <2>1, <2>2, ZenonT(60) DEF IsTable
<1> QED BY <1>1, <1>2, <1>3, <1>4, <1>5, ZenonT(60)

(* An entry in use has a name and a sector.                                *)
LEMMA EntryFields ==
  ASSUME NEW t, IsTable(t), NEW e \in InUse(t)
  PROVE  e.inUse /\ e.name \in Names /\ e.sector \in Sectors
<1>1. e.inUse
  BY ZenonT(60) DEF InUse
<1> QED BY <1>1, InUsePlaces, ZenonT(60)

(* Two files have two names.                                               *)
LEMMA NamesDiffer ==
  ASSUME NEW t, IsTable(t), NEW e \in InUse(t), NEW g \in InUse(t), g.name = e.name
  PROVE  g = e
<1>1. \A x, y \in InUse(t) : x.name = y.name => x = y
  BY InUsePlaces, ZenonT(60)
<1> QED BY <1>1, ZenonT(60)

(* Directory::Find returns the sector of the entry with the name, or -1.   *)
LEMMA FindFinds ==
  ASSUME NEW t, IsTable(t), NEW name
  PROVE  /\ \A e \in InUse(t) :
              e.name = name => /\ Find(t, name) = e.sector /\ Find(t, name) # -1
                               /\ FindIndex(t, name) # -1
         /\ Find(t, name) # -1 => \E e \in InUse(t) : e.name = name
         /\ FindIndex(t, name) # -1 =>
              /\ FindIndex(t, name) \in 1..NumDirEntries
              /\ t[FindIndex(t, name)].inUse /\ t[FindIndex(t, name)].name = name
<1>0. /\ \A i \in 1..NumDirEntries : i # -1
      /\ \A i \in Sectors : i # -1
  BY FileSysAssumption, SMTT(60) DEF Sectors
<1>1. CASE \E i \in DOMAIN t : t[i].inUse /\ t[i].name = name
  <2> DEFINE x == FindIndex(t, name)
  <2>1. x \in 1..NumDirEntries /\ t[x].inUse /\ t[x].name = name
    <3>1. x = CHOOSE i \in DOMAIN t : t[i].inUse /\ t[i].name = name
      BY <1>1, ZenonT(60) DEF FindIndex
    <3> HIDE DEF x
    <3> QED BY <1>1, <3>1, InUsePlaces, ZenonT(60)
  <2>2. x # -1 /\ Find(t, name) = t[x].sector
    BY <1>0, <2>1, ZenonT(60) DEF Find
  <2> HIDE DEF x
  <2>3. t[x] \in InUse(t)
    BY <2>1, InUsePlaces, ZenonT(60)
  <2>4. \A e \in InUse(t) : e.name = name => e = t[x]
    BY <2>1, <2>3, InUsePlaces, ZenonT(60)
  <2>5. Find(t, name) # -1
    BY <1>0, <2>2, <2>3, InUsePlaces, ZenonT(60)
  <2>6. FindIndex(t, name) = x
    BY ZenonT(60) DEF x
  <2> QED BY <2>1, <2>2, <2>3, <2>4, <2>5, <2>6, ZenonT(60)
<1>2. CASE ~\E i \in DOMAIN t : t[i].inUse /\ t[i].name = name
  <2>1. FindIndex(t, name) = -1
    BY <1>2, ZenonT(60) DEF FindIndex
  <2>2. Find(t, name) = -1
    BY <2>1, ZenonT(60) DEF Find
  <2>3. ASSUME NEW e \in InUse(t) PROVE e.name # name
    <3>1. DOMAIN t = 1..NumDirEntries
      BY InUsePlaces, ZenonT(60)
    <3>2. PICK i \in 1..NumDirEntries : t[i] = e /\ e.inUse
      BY InUsePlaces, ZenonT(60)
    <3> QED BY <1>2, <3>1, <3>2, ZenonT(60)
  <2> QED BY <2>1, <2>2, <2>3, ZenonT(60)
<1> QED BY <1>1, <1>2, ZenonT(60)

(* A name that is found is that of an entry in use.                        *)
LEMMA FoundEntry ==
  ASSUME NEW t, IsTable(t), NEW name, Find(t, name) # -1
  PROVE  \E e \in InUse(t) : e.name = name
  BY FindFinds, ZenonT(60)

FoundAt(t, name, i) == i \in 1..NumDirEntries /\ t[i].inUse /\ t[i].name = name

(* FindIndex returns the place of such an entry.                           *)
LEMMA FoundIndex ==
  ASSUME NEW t, IsTable(t), NEW name, FindIndex(t, name) # -1
  PROVE  FoundAt(t, name, FindIndex(t, name))
  BY FindFinds, ZenonT(60) DEF FoundAt

(* Directory::Find returns the sector of an entry that is there.           *)
LEMMA FindSector ==
  ASSUME NEW t, IsTable(t), NEW e \in InUse(t)
  PROVE  Find(t, e.name) = e.sector /\ Find(t, e.name) # -1
<1>1. PICK name : name = e.name
  BY ZenonT(60)
<1>2. Find(t, name) = e.sector /\ Find(t, name) # -1
  BY <1>1, FindFinds, SMTT(60)
<1> QED BY <1>1, <1>2, ZenonT(60)

(* Directory::Add puts the entry in a free place.                          *)
LEMMA AddAdds ==
  ASSUME NEW t, IsTable(t), NEW name \in Names, NEW sector \in Sectors,
         CanAdd(t, name)
  PROVE  /\ IsTable(Add(t, name, sector))
         /\ InUse(Add(t, name, sector)) =
              InUse(t) \cup {[inUse |-> TRUE, name |-> name, sector |-> sector]}
         /\ \A e \in InUse(t) : e.name # name
<1> DEFINE Free(i) == ~t[i].inUse
           Frees == {i \in 1..NumDirEntries : Free(i)}
           Less == OpToRel(<, Nat)
           new == [inUse |-> TRUE, name |-> name, sector |-> sector]
           t2 == Add(t, name, sector)
           N == NumDirEntries
<1>0. DOMAIN t = 1..N /\ N \in Nat
  BY InUsePlaces, FileSysAssumption, ZenonT(60)
<1>1. Frees # {} /\ Frees \subseteq Nat
  <2>1. Frees # {}
    BY <1>0, ZenonT(60) DEF CanAdd
  <2>2. 1..N \subseteq Nat
    BY <1>0, SMTT(60)
  <2> QED BY <2>1, <2>2, ZenonT(60)
<1>2. PICK i \in Frees : \A j \in Frees : ~(<<j, i>> \in Less)
  <2> HIDE DEF Frees, Less
  <2>1. IsWellFoundedOn(Less, Nat)
    BY NatLessThanWellFounded, ZenonT(60) DEF Less
  <2> QED BY <1>1, <2>1, WFMin, ZenonT(60)
<1>3. i \in 1..N /\ Free(i)
  <2> HIDE DEF Free, Less
  <2> QED BY <1>2, ZenonT(60)
<1>4. \A j \in 1..(i - 1) : t[j].inUse
  <2> SUFFICES ASSUME NEW j \in 1..(i - 1), Free(j) PROVE FALSE
    BY ZenonT(60)
  <2>1. j \in 1..N /\ j \in Nat /\ i \in Nat /\ j < i
    BY <1>0, <1>3, SMTT(60)
  <2>2. j \in Frees
    BY <2>1, ZenonT(60)
  <2>3. <<j, i>> \in Less
    BY <2>1, ZenonT(60) DEF OpToRel
  <2> HIDE DEF Frees, Less
  <2> QED BY <1>2, <2>2, <2>3, ZenonT(60)
<1>5. PICK p \in 1..N : ~t[p].inUse /\ t2 = [t EXCEPT ![p] = new]
  <2> DEFINE P(k) == ~t[k].inUse /\ \A j \in 1..(k - 1) : t[j].inUse
             p == CHOOSE k \in DOMAIN t : P(k)
  <2>1. t2 = [t EXCEPT ![p] = new]
    BY ZenonT(60) DEF Add
  <2>2. i \in DOMAIN t /\ P(i)
    BY <1>0, <1>3, <1>4, ZenonT(60)
  <2>3. p \in DOMAIN t /\ P(p)
    <3> HIDE DEF P
    <3> QED BY <2>2, ZenonT(60)
  <2>4. p \in 1..N /\ ~t[p].inUse
    BY <1>0, <2>3, ZenonT(60)
  <2> HIDE DEF p, t2, new
  <2> QED BY <2>1, <2>4, ZenonT(60)
<1> HIDE DEF t2, Frees, Less, N
<1>6. new \in Entry /\ new.inUse /\ new.name = name
  BY ZenonT(60) DEF Entry
<1> HIDE DEF new
<1>7. \A e \in InUse(t) : e.name # name
  BY FindFinds, ZenonT(60) DEF CanAdd
<1>8. t2[p] = new /\ \A j \in 1..N : j # p => t2[j] = t[j]
  BY <1>0, <1>5, ZenonT(60)
<1>9. t2 \in [1..N -> Entry]
  BY <1>5, <1>6, ZenonT(60) DEF IsTable, N
<1>10. \A j \in 1..N : t[j].inUse => t[j].name # name
  BY <1>7, InUsePlaces, ZenonT(60) DEF N
<1>11. IsTable(t2)
  <2>1. \A j \in 1..N : t2[j].inUse => t2[j].name \in Names
    BY <1>6, <1>8, ZenonT(60) DEF IsTable, N
  <2>2. \A j, k \in 1..N : t2[j].inUse /\ t2[k].inUse /\ t2[j].name = t2[k].name => j = k
    BY <1>6, <1>8, <1>10, ZenonT(60) DEF IsTable, N
  <2> QED BY <1>9, <2>1, <2>2, ZenonT(60) DEF IsTable, N
<1>12. \A e : e \in InUse(t2) <=> e \in InUse(t) \cup {new}
  <2>1. \A e : e \in InUse(t2) <=> \E j \in 1..N : t2[j] = e /\ e.inUse
    BY <1>11, InUsePlaces, ZenonT(60) DEF N
  <2>2. \A e : e \in InUse(t) <=> \E j \in 1..N : t[j] = e /\ e.inUse
    BY InUsePlaces, ZenonT(60) DEF N
  <2>3. \A e : e \in InUse(t2) => e \in InUse(t) \cup {new}
    BY <1>8, <2>1, <2>2, ZenonT(60)
  <2>4. ASSUME NEW e \in InUse(t) PROVE e \in InUse(t2)
    <3>1. PICK j \in 1..N : t[j] = e /\ e.inUse
      BY <2>2, ZenonT(60)
    <3>2. j # p
      BY <1>5, <3>1, ZenonT(60)
    <3> QED BY <1>8, <2>1, <3>1, <3>2, ZenonT(60)
  <2>5. new \in InUse(t2)
    BY <1>6, <1>8, <2>1, ZenonT(60)
  <2> QED BY <2>3, <2>4, <2>5, ZenonT(60)
<1>13. InUse(t2) = InUse(t) \cup {new}
  BY <1>12, ZenonT(60)
<1> QED BY <1>7, <1>11, <1>13, ZenonT(60) DEF t2, new

(* Directory::Remove takes the entry with the name out of use.             *)
LEMMA RemoveRemoves ==
  ASSUME NEW t, IsTable(t), NEW name, NEW e \in InUse(t), e.name = name
  PROVE  /\ IsTable(RemoveEntry(t, name))
         /\ InUse(RemoveEntry(t, name)) = InUse(t) \ {e}
<1> DEFINE x == FindIndex(t, name)
           t2 == RemoveEntry(t, name)
           N == NumDirEntries
           old == [t[x] EXCEPT !.inUse = FALSE]
<1>0. /\ DOMAIN t = 1..N /\ x \in 1..N /\ t[x].inUse /\ t[x].name = name
      /\ \A i \in 1..N : t[i] \in Entry
  <2>1. x # -1
    BY FindFinds, ZenonT(60)
  <2>2. x \in 1..N /\ t[x].inUse /\ t[x].name = name
    BY <2>1, FindFinds, ZenonT(60)
  <2> QED BY <2>2, InUsePlaces, ZenonT(60)
<1>1. t2 = [t EXCEPT ![x] = old]
  BY ZenonT(60) DEF RemoveEntry
<1>2. old \in Entry /\ ~old.inUse
  <2>1. t[x] \in Entry
    BY <1>0, ZenonT(60)
  <2> HIDE DEF x
  <2> QED BY <2>1, ZenonT(60) DEF Entry
<1> HIDE DEF x, t2, old
<1>3. t2[x] = old /\ \A j \in 1..N : j # x => t2[j] = t[j]
  BY <1>0, <1>1, ZenonT(60)
<1>4. t2 \in [1..N -> Entry]
  BY <1>0, <1>1, <1>2, ZenonT(60) DEF IsTable
<1>5. IsTable(t2)
  <2>1. \A j \in 1..N : t2[j].inUse => j # x /\ t2[j] = t[j]
    BY <1>2, <1>3, ZenonT(60)
  <2> QED BY <1>4, <2>1, ZenonT(60) DEF IsTable
<1>6. t[x] = e
  BY <1>0, InUsePlaces, ZenonT(60)
<1>7. \A f : f \in InUse(t2) <=> f \in InUse(t) \ {e}
  <2>1. \A f : f \in InUse(t2) <=> \E j \in 1..N : t2[j] = f /\ f.inUse
    BY <1>5, InUsePlaces, ZenonT(60)
  <2>2. \A f : f \in InUse(t) <=> \E j \in 1..N : t[j] = f /\ f.inUse
    BY InUsePlaces, ZenonT(60)
  <2>3. \A j \in 1..N : t[j].inUse /\ t[j] = e => j = x
    BY <1>0, <1>6, ZenonT(60) DEF IsTable
  <2>4. ASSUME NEW f \in InUse(t2) PROVE f \in InUse(t) \ {e}
    <3>1. PICK j \in 1..N : t2[j] = f /\ f.inUse
      BY <2>1, ZenonT(60)
    <3>2. j # x
      BY <1>2, <1>3, <3>1, ZenonT(60)
    <3>3. t[j] = f
      BY <1>3, <3>1, <3>2, ZenonT(60)
    <3> QED BY <2>2, <2>3, <3>1, <3>2, <3>3, ZenonT(60)
  <2>5. \A f : f \in InUse(t) /\ f # e => f \in InUse(t2)
    BY <1>3, <1>6, <2>1, <2>2, ZenonT(60)
  <2> QED BY <2>4, <2>5, ZenonT(60)
<1>8. InUse(t2) = InUse(t) \ {e}
  BY <1>7, ZenonT(60)
<1> QED BY <1>5, <1>8, ZenonT(60) DEF t2

-----------------------------------------------------------------------------
(* Sector writes.                                                          *)

(* Write j of the log is on the disk once k of them are made.              *)
WriteMade(d, l, k, j) == After(d, l, k)[l[j][1]] = l[j][2]

(* A sector holds what the one write to it wrote, once it has been made.   *)
LEMMA AfterHit ==
  ASSUME NEW d, NEW l, IsLog(l), NEW k \in 0..Len(l), NEW j \in 1..k
  PROVE  WriteMade(d, l, k, j)
<1>1. Len(l) \in Nat
  BY SMTT(60) DEF IsLog
<1>2. 1..k \subseteq 1..Len(l)
  BY <1>1, SMTT(60)
<1>3. l[j][1] \in Sectors /\ \A i \in 1..k : l[i][1] = l[j][1] => i = j
  BY <1>2, ZenonT(60) DEF IsLog
<1>4. (CHOOSE i \in 1..k : l[i][1] = l[j][1]) = j
  BY <1>3, ZenonT(60)
<1> QED BY <1>3, <1>4, ZenonT(60) DEF After, WriteMade

(* Before that, it holds what it held.                                     *)
LEMMA AfterMiss ==
  ASSUME NEW d, NEW l, NEW k, NEW s \in Sectors, \A j \in 1..k : l[j][1] # s
  PROVE  After(d, l, k)[s] = d[s]
  BY ZenonT(60) DEF After

(* Two disks with the same sectors are the same.                           *)
LEMMA SameDisk ==
  ASSUME NEW d, NEW d2, IsDisk(d), IsDisk(d2), \A s \in Sectors : d[s] = d2[s]
  PROVE  d = d2
<1>1. [s \in Sectors |-> d[s]] = [s \in Sectors |-> d2[s]]
  BY ZenonT(60)
<1> QED BY <1>1, ZenonT(60) DEF IsDisk

(* What the writes leave is a disk.                                        *)
LEMMA AfterIsDisk ==
  ASSUME NEW d, NEW l, NEW k
  PROVE  IsDisk(After(d, l, k))
  BY ZenonT(60) DEF IsDisk, After

(* Before the first write the disk is as it was.                           *)
LEMMA AfterNone ==
  ASSUME NEW d, IsDisk(d), NEW l
  PROVE  After(d, l, 0) = d
<1>1. 1..0 = {}
  BY SMTT(60)
<1>2. \A s \in Sectors : After(d, l, 0)[s] = d[s]
  BY <1>1, ZenonT(60) DEF After
<1> QED BY <1>2, AfterIsDisk, SameDisk, ZenonT(60)

(* The rest of a log of writes to different sectors is one.                *)
LEMMA TailIsLog ==
  ASSUME NEW l, IsLog(l), l # <<>>
  PROVE  /\ IsLog(Tail(l)) /\ Head(l) = l[1] /\ 1 \in 1..Len(l)
         /\ Len(Tail(l)) \in Nat /\ Len(l) = Len(Tail(l)) + 1
         /\ \A i \in 1..Len(Tail(l)) : i + 1 \in 1..Len(l) /\ Tail(l)[i] = l[i + 1]
<1>1. PICK S : l \in Seq(S)
  BY ZenonT(60) DEF IsLog
<1>2. /\ Head(l) = l[1] /\ 1 \in 1..Len(l)
      /\ Len(Tail(l)) \in Nat /\ Len(l) = Len(Tail(l)) + 1
      /\ \A i \in 1..Len(Tail(l)) : i + 1 \in 1..Len(l) /\ Tail(l)[i] = l[i + 1]
  BY <1>1, SMTT(60)
<1>3. \A i, j \in 1..Len(Tail(l)) : i + 1 = j + 1 => i = j
  BY <1>2, SMTT(60)
<1>4. \A i \in 1..Len(Tail(l)) : Tail(l)[i][1] \in Sectors
  BY <1>2, ZenonT(60) DEF IsLog
<1>5. ASSUME NEW i \in 1..Len(Tail(l)), NEW j \in 1..Len(Tail(l)),
             Tail(l)[i][1] = Tail(l)[j][1]
      PROVE  i = j
  <2>1. i + 1 \in 1..Len(l) /\ j + 1 \in 1..Len(l) /\ l[i + 1][1] = l[j + 1][1]
    BY <1>2, <1>5, ZenonT(60)
  <2>2. i + 1 = j + 1
    BY <2>1, ZenonT(60) DEF IsLog
  <2> QED BY <1>3, <2>2, ZenonT(60)
<1>6. Tail(l) \in Seq(Range(Tail(l)))
  <2>1. Tail(l) \in Seq(S)
    BY <1>1, SMTT(60)
  <2> DEFINE u == Tail(l)
  <2> HIDE DEF u
  <2>2. u \in Seq(S)
    BY <2>1, ZenonT(60) DEF u
  <2>3. Len(u) \in Nat /\ DOMAIN u = 1..Len(u) /\ u \in [1..Len(u) -> S]
    BY <2>2, SMTT(60)
  <2>4. u \in [1..Len(u) -> Range(u)]
    BY <2>3, ZenonT(60) DEF Range
  <2>5. u \in Seq(Range(u))
    BY <2>3, <2>4, SMTT(60)
  <2> QED BY <2>5, ZenonT(60) DEF u
<1> QED BY <1>2, <1>4, <1>5, <1>6, ZenonT(60) DEF IsLog

(* A write that has been made is no longer to come.                        *)
LEMMA AfterStep ==
  ASSUME NEW d, IsDisk(d), NEW l, IsLog(l), l # <<>>
  PROVE  /\ IsDisk(WriteSector(d, Head(l)))
         /\ \A k \in 0..Len(Tail(l)) :
              /\ k + 1 \in 0..Len(l)
              /\ After(WriteSector(d, Head(l)), Tail(l), k) = After(d, l, k + 1)
<1> DEFINE d2 == WriteSector(d, Head(l))
           u == Tail(l)
<1>1. /\ IsLog(u) /\ Head(l) = l[1] /\ 1 \in 1..Len(l)
      /\ Len(u) \in Nat /\ Len(l) = Len(u) + 1
      /\ \A i \in 1..Len(u) : i + 1 \in 1..Len(l) /\ u[i] = l[i + 1]
  BY TailIsLog, ZenonT(60)
<1>2. l[1][1] \in Sectors /\ DOMAIN d = Sectors
  BY <1>1, ZenonT(60) DEF IsLog, IsDisk
<1>3. /\ d2[l[1][1]] = l[1][2] /\ \A s \in Sectors : s # l[1][1] => d2[s] = d[s]
      /\ IsDisk(d2)
  BY <1>1, <1>2, ZenonT(60) DEF WriteSector, IsDisk
<1>0. IsLog(u)
  BY <1>1, ZenonT(60)
<1> HIDE DEF d2, u
<1>4. ASSUME NEW k \in 0..Len(u)
      PROVE  k + 1 \in 0..Len(l) /\ After(d2, u, k) = After(d, l, k + 1)
  <2>1. /\ k + 1 \in 0..Len(l) /\ 1 \in 1..(k + 1) /\ 1..k \subseteq 1..Len(u)
        /\ \A j \in 1..k : j + 1 \in 1..(k + 1)
        /\ \A j \in 1..(k + 1) : j = 1 \/ (j - 1 \in 1..k /\ j = (j - 1) + 1)
    BY <1>1, SMTT(60)
  <2>2. ASSUME NEW s \in Sectors PROVE After(d2, u, k)[s] = After(d, l, k + 1)[s]
    <3>1. CASE \E j \in 1..k : u[j][1] = s
      <4>1. PICK j \in 1..k : u[j][1] = s
        BY <3>1, ZenonT(60)
      <4>2. After(d2, u, k)[s] = u[j][2]
        BY <1>0, <4>1, AfterHit, SMTT(60) DEF WriteMade
      <4>3. u[j] = l[j + 1]
        BY <1>1, <2>1, ZenonT(60)
      <4>4. After(d, l, k + 1)[s] = l[j + 1][2]
        <5>1. k + 1 \in 0..Len(l) /\ j + 1 \in 1..(k + 1) /\ l[j + 1][1] = s
          BY <2>1, <4>1, <4>3, ZenonT(60)
        <5> QED BY <5>1, AfterHit, SMTT(60) DEF WriteMade
      <4> QED BY <4>2, <4>3, <4>4, ZenonT(60)
    <3>2. CASE ~(\E j \in 1..k : u[j][1] = s) /\ l[1][1] = s
      <4>1. After(d2, u, k)[s] = d2[s]
        BY <3>2, AfterMiss, SMTT(60)
      <4>2. After(d, l, k + 1)[s] = l[1][2]
        <5>1. k + 1 \in 0..Len(l) /\ 1 \in 1..(k + 1) /\ l[1][1] = s
          BY <2>1, <3>2, ZenonT(60)
        <5> QED BY <5>1, AfterHit, SMTT(60) DEF WriteMade
      <4> QED BY <1>3, <3>2, <4>1, <4>2, ZenonT(60)
    <3>3. CASE ~(\E j \in 1..k : u[j][1] = s) /\ l[1][1] # s
      <4>1. After(d2, u, k)[s] = d2[s]
        BY <3>3, AfterMiss, SMTT(60)
      <4>2. ASSUME NEW j \in 1..(k + 1) PROVE l[j][1] # s
        <5>1. CASE j = 1
          BY <3>3, <5>1, ZenonT(60)
        <5>2. CASE j - 1 \in 1..k /\ j = (j - 1) + 1
          <6>1. u[j - 1] = l[j]
            BY <1>1, <2>1, <5>2, ZenonT(60)
          <6> QED BY <3>3, <5>2, <6>1, ZenonT(60)
        <5> QED BY <2>1, <5>1, <5>2, ZenonT(60)
      <4>3. After(d, l, k + 1)[s] = d[s]
        BY <4>2, AfterMiss, SMTT(60)
      <4> QED BY <1>3, <3>3, <4>1, <4>3, ZenonT(60)
    <3> QED BY <3>1, <3>2, <3>3, ZenonT(60)
  <2>3. After(d2, u, k) = After(d, l, k + 1)
    <3>1. IsDisk(After(d2, u, k)) /\ IsDisk(After(d, l, k + 1))
      BY AfterIsDisk, ZenonT(60)
    <3> QED BY <2>2, <3>1, SameDisk, ZenonT(60)
  <2> QED BY <2>1, <2>3, ZenonT(60)
<1> QED BY <1>3, <1>4, ZenonT(60) DEF d2, u

-----------------------------------------------------------------------------
(* Disks that are as they should be.                                       *)

(* What Good says of the sectors in use.                                   *)
LEMMA GoodUse ==
  ASSUME NEW d, Good(d)
  PROVE  /\ Entries(d) = InUse(DirOf(d))
         /\ SystemSectors(d) \subseteq MapOf(d) /\ SystemSectors(d) \subseteq Sectors
         /\ \A e \in Entries(d) : /\ e.sector \in Used(d, e)
                                  /\ Range(HeaderOf(d, e)[2]) \subseteq Used(d, e)
                                  /\ Used(d, e) \subseteq MapOf(d)
                                  /\ Used(d, e) \subseteq Sectors
                                  /\ Used(d, e) \cap SystemSectors(d) = {}
<1>1. Entries(d) = InUse(DirOf(d))
  BY ZenonT(60) DEF Entries, InUse
<1>2. SystemSectors(d) \subseteq Sectors
  <2>1. FreeMapSector \in Sectors /\ DirectorySector \in Sectors
    BY FileSysAssumption, SMTT(60)
       DEF Sectors, FreeMapSector, DirectorySector
  <2> QED BY <2>1, ZenonT(60) DEF Good, System, SystemSectors
<1>3. SystemSectors(d) \subseteq MapOf(d)
  BY <1>2, ZenonT(60) DEF Good, Exact
<1>4. ASSUME NEW e \in Entries(d)
      PROVE  /\ e.sector \in Used(d, e)
             /\ Range(HeaderOf(d, e)[2]) \subseteq Used(d, e)
             /\ Used(d, e) \subseteq MapOf(d)
             /\ Used(d, e) \subseteq Sectors
             /\ Used(d, e) \cap SystemSectors(d) = {}
  <2>1. e.sector \in Used(d, e) /\ Range(HeaderOf(d, e)[2]) \subseteq Used(d, e)
    BY ZenonT(60) DEF Used
  <2>2. Used(d, e) \cap SystemSectors(d) = {}
    BY ZenonT(60) DEF Good, Exact
  <2>4. e.sector \in Sectors
    <3>1. IsTable(DirOf(d)) /\ e \in InUse(DirOf(d))
      BY <1>1, ZenonT(60) DEF Good
    <3> QED BY <3>1, EntryFields, ZenonT(60)
  <2>5. Range(HeaderOf(d, e)[2]) \subseteq Sectors
    <3> DEFINE h == HeaderOf(d, e)
    <3>1. IsHeader(h)
      BY ZenonT(60) DEF Good, Headed
    <3> HIDE DEF h
    <3>2. Range(h[2]) \subseteq Sectors
      BY <3>1, ZenonT(60) DEF IsHeader, Range
    <3> QED BY <3>2, ZenonT(60) DEF h
  <2>6. Used(d, e) \subseteq Sectors
    BY <2>4, <2>5, ZenonT(60) DEF Used
  <2>7. Used(d, e) \subseteq MapOf(d)
    BY <2>6, ZenonT(60) DEF Good, Exact
  <2> QED BY <2>1, <2>2, <2>6, <2>7, ZenonT(60)
<1> QED BY <1>1, <1>2, <1>3, <1>4, ZenonT(60)

(* The sectors of the map and of the directory are where the headers in    *)
(* sectors 0 and 1 say.                                                    *)
LEMMA SamePlaces ==
  ASSUME NEW d, NEW d2, d2[FreeMapSector] = d[FreeMapSector],
         d2[DirectorySector] = d[DirectorySector]
  PROVE  /\ MapSector(d2) = MapSector(d) /\ DirSector(d2) = DirSector(d)
         /\ SystemSectors(d2) = SystemSectors(d)
<1>1. MapSector(d2) = MapSector(d) /\ DirSector(d2) = DirSector(d)
  BY ZenonT(60) DEF MapSector, DirSector
<1> QED BY <1>1, ZenonT(60) DEF SystemSectors

(* A file whose sectors are left alone.                                    *)
LEMMA SameUse ==
  ASSUME NEW d, NEW d2, NEW e, \A s \in Used(d, e) : d2[s] = d[s]
  PROVE  HeaderOf(d2, e) = HeaderOf(d, e) /\ Used(d2, e) = Used(d, e)
         /\ d2[e.sector] = d[e.sector]
<1>1. d2[e.sector] = d[e.sector]
  BY ZenonT(60) DEF Used
<1>2. HeaderOf(d2, e) = HeaderOf(d, e)
  BY <1>1, ZenonT(60) DEF HeaderOf
<1> QED BY <1>1, <1>2, ZenonT(60) DEF Used

(* The sector of a byte of a file is one of its sectors.                   *)
LEMMA ByteSector ==
  ASSUME NEW h, IsHeader(h), NEW a \in 0..(h[1] - 1)
  PROVE  /\ 1 + (a \div SectorSize) \in 1..divRoundUp(h[1], SectorSize)
         /\ ByteToSector(h, a) = h[2][1 + (a \div SectorSize)]
         /\ ByteToSector(h, a) \in Range(h[2])
<1>1. 1 + (a \div SectorSize) \in 1..divRoundUp(h[1], SectorSize)
  BY FileSysAssumption, RoundUp, ZenonT(60) DEF IsHeader
<1>2. DOMAIN h[2] = 1..divRoundUp(h[1], SectorSize)
  BY ZenonT(60) DEF IsHeader
<1> QED BY <1>1, <1>2, ZenonT(60) DEF ByteToSector, Range

(* A file keeps its bytes when its sectors are left alone.                 *)
LEMMA HoldsSame ==
  ASSUME NEW d, NEW d2, NEW w, NEW w2, NEW e, IsHeader(HeaderOf(d, e)),
         \A s \in Used(d, e) : d2[s] = d[s], w2[e.name] = w[e.name],
         Holds(d, w, e)
  PROVE  Holds(d2, w2, e)
<1> DEFINE h == HeaderOf(d, e)
<1>1. HeaderOf(d2, e) = h
  BY SameUse, ZenonT(60)
<1>2. h[1] \in Nat
  BY ZenonT(60) DEF IsHeader
<1>3. IsHeader(h) /\ Range(h[2]) \subseteq Used(d, e)
  BY ZenonT(60) DEF Used
<1> HIDE DEF h
<1>4. ASSUME NEW i \in 1..h[1]
      PROVE  d2[ByteToSector(h, i - 1)] = d[ByteToSector(h, i - 1)]
  <2>1. i - 1 \in 0..(h[1] - 1)
    BY <1>2, SMTT(60)
  <2>2. ByteToSector(h, i - 1) \in Range(h[2])
    BY <1>3, <2>1, ByteSector, ZenonT(60)
  <2> QED BY <1>3, <2>2, ZenonT(60)
<1>5. DOMAIN w2[e.name] = 1..h[1]
  BY ZenonT(60) DEF Holds, h
<1>6. ASSUME NEW i \in 1..h[1], w2[e.name][i] # -1
      PROVE  Contents(d2[ByteToSector(h, i - 1)])[1 + ((i - 1) % SectorSize)]
               = w2[e.name][i]
  <2>1. w[e.name][i] # -1
    BY <1>6, ZenonT(60)
  <2>2. Contents(d[ByteToSector(h, i - 1)])[1 + ((i - 1) % SectorSize)] = w[e.name][i]
    BY <2>1, ZenonT(60) DEF Holds, h
  <2>3. d2[ByteToSector(h, i - 1)] = d[ByteToSector(h, i - 1)]
    BY <1>4, ZenonT(60)
  <2> QED BY <2>2, <2>3, ZenonT(60)
<1> QED BY <1>1, <1>2, <1>5, <1>6, ZenonT(60) DEF Holds

(* A stop leaves the files whose sectors are left alone.                   *)
LEMMA KeptFiles ==
  ASSUME NEW d, Good(d), NEW d2, NEW w, NEW w2, NEW n,
         \A e \in Entries(d) : Holds(d, w, e),
         \A m \in Names \ {n} : w2[m] = w[m],
         \A e \in Entries(d2) :
           \/ e.name = n /\ d2[e.sector].kind = "hdr"
           \/ e \in Entries(d) /\ e.name # n /\ \A s \in Used(d, e) : d2[s] = d[s]
  PROVE  Kept(d2, w2, n)
<1> SUFFICES ASSUME NEW e \in Entries(d2)
             PROVE  d2[e.sector].kind = "hdr" /\ (e.name # n => Holds(d2, w2, e))
  BY ZenonT(60) DEF Kept
<1>1. CASE e.name = n /\ d2[e.sector].kind = "hdr"
  BY <1>1, ZenonT(60)
<1>2. CASE e \in Entries(d) /\ e.name # n /\ \A s \in Used(d, e) : d2[s] = d[s]
  <2>1. d[e.sector].kind = "hdr" /\ IsHeader(HeaderOf(d, e)) /\ Holds(d, w, e)
    BY <1>2, ZenonT(60) DEF Good, Headed
  <2>2. d2[e.sector] = d[e.sector]
    BY <1>2, ZenonT(60) DEF Used
  <2>3. e.name \in Names
    <3>1. IsTable(DirOf(d)) /\ e \in InUse(DirOf(d))
      BY <1>2, ZenonT(60) DEF Good, Entries, InUse
    <3> QED BY <3>1, EntryFields, ZenonT(60)
  <2>4. w2[e.name] = w[e.name]
    BY <1>2, <2>3, ZenonT(60)
  <2>5. Holds(d2, w2, e)
    BY <1>2, <2>1, <2>4, HoldsSame, ZenonT(60)
  <2> QED BY <2>1, <2>2, <2>5, ZenonT(60)
<1> QED BY <1>1, <1>2, ZenonT(60)

-----------------------------------------------------------------------------
(* FileSystem::Create.                                                     *)

(* A new file: its header's sector hs, its sectors f, and the directory t  *)
(* and map m with it.                                                      *)
NewEntry(name, hs) == [inUse |-> TRUE, name |-> name, sector |-> hs]

NewFile(d, name, size, hs, f, t, m) ==
  /\ hs \in Sectors \ MapOf(d)
  /\ IsHeader(<<size, f>>)
  /\ Range(f) \cap (MapOf(d) \cup {hs}) = {}
  /\ m = MapOf(d) \cup {hs} \cup Range(f)
  /\ IsTable(t)
  /\ InUse(t) = InUse(DirOf(d)) \cup {NewEntry(name, hs)}
  /\ \A e \in InUse(DirOf(d)) : e.name # name

(* The disk with the new file.                                             *)
NewDisk(d, d2, size, hs, f, t, m) ==
  /\ IsDisk(d2)
  /\ d2[hs] = HdrBlock(<<size, f>>)
  /\ d2[DirSector(d)] = DirBlock(t)
  /\ d2[MapSector(d)] = MapBlock(m)
  /\ \A s \in Sectors \ {hs, DirSector(d), MapSector(d)} : d2[s] = d[s]

(* What Create writes: a header in a free sector, with free sectors for    *)
(* the data, and the directory and the map with them.                      *)
LEMMA CreateParts ==
  ASSUME NEW d, Good(d), NEW name \in Names, NEW size \in Nat,
         CanCreate(d, name, size)
  PROVE  \E hs, f, t, m :
           /\ CreateWrites(d, name, size) =
                << <<hs, HdrBlock(<<size, f>>)>>, <<DirSector(d), DirBlock(t)>>,
                   <<MapSector(d), MapBlock(m)>> >>
           /\ NewFile(d, name, size, hs, f, t, m)
<1> DEFINE hs == FindBit(MapOf(d), NumSectors)
           bm == Mark(MapOf(d), hs)
           n == divRoundUp(size, SectorSize)
           f == FindBits(bm, NumSectors, n)
           t == Add(DirOf(d), name, hs)
           m == bm \cup Range(f)
<1>0. NumSectors \in Nat /\ n \in Nat
  BY FileSysAssumption, RoundUp, ZenonT(60)
<1>1. hs \in Sectors \ MapOf(d)
  BY <1>0, FindBitClear, ZenonT(60) DEF CanCreate, Sectors
<1>2. /\ f \in [1..n -> Sectors \ bm]
      /\ \A i, j \in 1..n : f[i] = f[j] => i = j
  <2>1. n <= NumClear(bm, NumSectors)
    <3>1. NumClear(bm, NumSectors) >= n
      BY ZenonT(60) DEF CanCreate, CanAllocate
    <3>2. NumClear(bm, NumSectors) \in Nat
      <4>1. IsFiniteSet(0..(NumSectors - 1))
        <5>1. NumSectors - 1 \in Int /\ 0 \in Int
          BY <1>0, SMTT(60)
        <5> QED BY <5>1, FS_Interval, ZenonT(60)
      <4>2. {i \in 0..(NumSectors - 1) : i \notin bm} \in SUBSET (0..(NumSectors - 1))
        BY ZenonT(60)
      <4> QED BY <4>1, <4>2, FS_Subset, FS_CardinalityType, ZenonT(60)
                 DEF NumClear
    <3> HIDE DEF bm, n
    <3> QED BY <1>0, <3>1, <3>2, SMTT(60)
  <2> QED BY <1>0, <2>1, FindBitsClear, ZenonT(60) DEF Sectors
<1>3. IsTable(t) /\ InUse(t) = InUse(DirOf(d)) \cup {NewEntry(name, hs)}
      /\ \A e \in InUse(DirOf(d)) : e.name # name
  <2>1. IsTable(DirOf(d)) /\ CanAdd(DirOf(d), name) /\ hs \in Sectors
    BY <1>1, ZenonT(60) DEF Good, CanCreate
  <2> HIDE DEF hs
  <2> QED BY <2>1, AddAdds, ZenonT(60) DEF NewEntry
<1>4. CreateWrites(d, name, size) =
        << <<hs, HdrBlock(<<size, f>>)>>, <<DirSector(d), DirBlock(t)>>,
           <<MapSector(d), MapBlock(m)>> >>
  BY ZenonT(60) DEF CreateWrites, Allocate
<1>5. bm = MapOf(d) \cup {hs}
  BY ZenonT(60) DEF Mark
<1> HIDE DEF hs, bm, n, f, t
<1>6. IsHeader(<<size, f>>)
  <2>1. <<size, f>>[1] = size /\ <<size, f>>[2] = f
    BY ZenonT(60)
  <2>2. f \in [1..n -> Sectors]
    BY <1>2, ZenonT(60)
  <2> QED BY <1>2, <2>1, <2>2, ZenonT(60) DEF IsHeader, n
<1>7. Range(f) \cap (MapOf(d) \cup {hs}) = {}
  BY <1>2, <1>5, ZenonT(60) DEF Range
<1>8. m = MapOf(d) \cup {hs} \cup Range(f)
  BY <1>5, ZenonT(60)
<1> HIDE DEF m
<1>9. NewFile(d, name, size, hs, f, t, m)
  BY <1>1, <1>3, <1>6, <1>7, <1>8, ZenonT(60) DEF NewFile
<1> QED BY <1>4, <1>9, ZenonT(60)

(* The disk with a new file is as it should be.                            *)
LEMMA CreateGood ==
  ASSUME NEW d, Good(d), NEW name \in Names, NEW size \in Nat,
         NEW hs, NEW f, NEW t, NEW m, NewFile(d, name, size, hs, f, t, m),
         NEW d2, NewDisk(d, d2, size, hs, f, t, m)
  PROVE  /\ Good(d2)
         /\ Entries(d2) = Entries(d) \cup {NewEntry(name, hs)}
         /\ HeaderOf(d2, NewEntry(name, hs)) = <<size, f>>
         /\ \A e \in Entries(d) : e.name # name /\ \A s \in Used(d, e) : d2[s] = d[s]
<1> DEFINE new == NewEntry(name, hs)
           ms == MapSector(d)
           ds == DirSector(d)
<1>0. /\ SystemSectors(d) = {FreeMapSector, DirectorySector, ms, ds}
      /\ SystemSectors(d) \subseteq MapOf(d)
      /\ FreeMapSector \in Sectors /\ DirectorySector \in Sectors
      /\ ms \in Sectors /\ ds \in Sectors /\ ms # ds
      /\ FreeMapSector \notin {ms, ds} /\ DirectorySector \notin {ms, ds}
  BY GoodUse, ZenonT(60) DEF SystemSectors, Good, System
<1>1. hs \in Sectors /\ hs \notin MapOf(d) /\ hs \notin {FreeMapSector, DirectorySector, ms, ds}
  BY <1>0, ZenonT(60) DEF NewFile
<1>2. /\ \A s \in Sectors \ {hs, ds, ms} : d2[s] = d[s]
      /\ d2[hs] = HdrBlock(<<size, f>>) /\ d2[ds] = DirBlock(t) /\ d2[ms] = MapBlock(m)
  BY ZenonT(60) DEF NewDisk
<1>3. MapSector(d2) = ms /\ DirSector(d2) = ds /\ SystemSectors(d2) = SystemSectors(d)
  <2>1. d2[FreeMapSector] = d[FreeMapSector] /\ d2[DirectorySector] = d[DirectorySector]
    BY <1>0, <1>1, <1>2, ZenonT(60)
  <2> QED BY <2>1, SamePlaces, ZenonT(60)
<1>4. MapOf(d2) = m /\ DirOf(d2) = t
  <2>1. MapOf(d2) = d2[ms].map /\ DirOf(d2) = d2[ds].dir
    BY <1>3, ZenonT(60) DEF MapOf, DirOf
  <2>2. MapBlock(m).map = m /\ DirBlock(t).dir = t
    BY ZenonT(60) DEF MapBlock, DirBlock
  <2> QED BY <1>2, <2>1, <2>2, ZenonT(60)
<1>5. Entries(d2) = Entries(d) \cup {new}
  BY <1>4, ZenonT(60) DEF Entries, InUse, NewFile
<1>6. /\ new.sector = hs /\ new.name = name
      /\ HeaderOf(d2, new) = <<size, f>> /\ d2[hs].kind = "hdr"
      /\ HeaderOf(d2, new)[2] = f
  <2>1. new.sector = hs /\ new.name = name
    BY ZenonT(60) DEF NewEntry
  <2>2. HdrBlock(<<size, f>>).kind = "hdr" /\ HdrBlock(<<size, f>>).hdr = <<size, f>>
        /\ <<size, f>>[2] = f
    BY ZenonT(60) DEF HdrBlock
  <2>3. d2[hs].kind = "hdr" /\ d2[hs].hdr = <<size, f>>
    BY <1>2, <2>2, ZenonT(60)
  <2>4. HeaderOf(d2, new) = <<size, f>>
    BY <2>1, <2>3, ZenonT(60) DEF HeaderOf
  <2> QED BY <2>1, <2>2, <2>3, <2>4, ZenonT(60)
<1> HIDE DEF new
<1>7. Used(d2, new) = {hs} \cup Range(f)
  BY <1>6, ZenonT(60) DEF Used
<1>8. ASSUME NEW e \in Entries(d) PROVE e.name # name /\ \A s \in Used(d, e) : d2[s] = d[s]
  <2>1. e.name # name
    BY ZenonT(60) DEF Entries, InUse, NewFile
  <2>2. Used(d, e) \subseteq MapOf(d) /\ Used(d, e) \subseteq Sectors
        /\ Used(d, e) \cap SystemSectors(d) = {}
    BY GoodUse, ZenonT(60)
  <2>3. ASSUME NEW s \in Used(d, e) PROVE d2[s] = d[s]
    <3>1. s \in Sectors \ {hs, ds, ms}
      BY <1>0, <1>1, <2>2, ZenonT(60)
    <3> QED BY <1>2, <3>1, ZenonT(60)
  <2> QED BY <2>1, <2>3, ZenonT(60)
<1>9. ASSUME NEW e \in Entries(d)
      PROVE  /\ HeaderOf(d2, e) = HeaderOf(d, e) /\ Used(d2, e) = Used(d, e)
             /\ d2[e.sector] = d[e.sector]
  <2>1. \A s \in Used(d, e) : d2[s] = d[s]
    BY <1>8, ZenonT(60)
  <2> QED BY <2>1, SameUse, SMTT(60)
<1>10. System(d2)
  BY <1>3, ZenonT(60) DEF Good, System
<1>11. Headed(d2)
  <2>1. \A e \in Entries(d) : d2[e.sector].kind = "hdr" /\ IsHeader(HeaderOf(d2, e))
    BY <1>9, ZenonT(60) DEF Good, Headed
  <2>2. IsHeader(HeaderOf(d2, new)) /\ d2[new.sector].kind = "hdr"
    BY <1>6, ZenonT(60) DEF NewFile
  <2> QED BY <1>5, <2>1, <2>2, ZenonT(60) DEF Headed
<1>12. Exact(d2)
  <2>1. m = MapOf(d) \cup {hs} \cup Range(f) /\ Range(f) \subseteq Sectors
    <3>1. <<size, f>>[2] = f /\ IsHeader(<<size, f>>)
      BY ZenonT(60) DEF NewFile
    <3>2. Range(f) \subseteq Sectors
      <4>1. <<size, f>>[2] \in [1..divRoundUp(<<size, f>>[1], SectorSize) -> Sectors]
        BY <3>1, ZenonT(60) DEF IsHeader
      <4>2. PICK n : f \in [1..n -> Sectors]
        BY <3>1, <4>1, ZenonT(60)
      <4> QED BY <4>2, ZenonT(60) DEF Range
    <3> QED BY <3>2, ZenonT(60) DEF NewFile
  <2>2. /\ MapOf(d2) \subseteq Sectors
        /\ \A s \in Sectors : s \in MapOf(d2) <=>
             s \in SystemSectors(d2) \/ \E e \in Entries(d2) : s \in Used(d2, e)
    <3>1. MapOf(d) \subseteq Sectors
      BY ZenonT(60) DEF Good, Exact
    <3>2. MapOf(d2) \subseteq Sectors
      BY <1>1, <1>4, <2>1, <3>1, ZenonT(60)
    <3>3. ASSUME NEW s \in Sectors
          PROVE  s \in MapOf(d2) <=>
                   s \in SystemSectors(d2) \/ \E e \in Entries(d2) : s \in Used(d2, e)
      <4>1. s \in MapOf(d2) <=> s \in MapOf(d) \/ s \in Used(d2, new)
        BY <1>4, <1>7, <2>1, ZenonT(60)
      <4>2. s \in MapOf(d) <=>
              s \in SystemSectors(d) \/ \E e \in Entries(d) : s \in Used(d, e)
        BY ZenonT(60) DEF Good, Exact
      <4>3. (\E e \in Entries(d2) : s \in Used(d2, e)) <=>
              (\E e \in Entries(d) : s \in Used(d2, e)) \/ s \in Used(d2, new)
        BY <1>5, ZenonT(60)
      <4>4. (\E e \in Entries(d) : s \in Used(d2, e)) <=>
              (\E e \in Entries(d) : s \in Used(d, e))
        BY <1>9, ZenonT(60)
      <4> QED BY <1>3, <4>1, <4>2, <4>3, <4>4, ZenonT(60)
    <3> QED BY <3>2, <3>3, ZenonT(60)
  <2>3. Used(d2, new) \cap MapOf(d) = {}
    BY <1>1, <1>7, ZenonT(60) DEF NewFile
  <2>4. \A e \in Entries(d2) : Used(d2, e) \cap SystemSectors(d2) = {}
    <3>1. \A e \in Entries(d) : Used(d2, e) \cap SystemSectors(d2) = {}
      BY <1>3, <1>9, ZenonT(60) DEF Good, Exact
    <3>2. Used(d2, new) \cap SystemSectors(d2) = {}
      BY <1>0, <1>3, <2>3, ZenonT(60)
    <3> QED BY <1>5, <3>1, <3>2, ZenonT(60)
  <2>5. \A e \in Entries(d2) : e.sector \notin Range(HeaderOf(d2, e)[2])
    <3>1. \A e \in Entries(d) : e.sector \notin Range(HeaderOf(d2, e)[2])
      BY <1>9, ZenonT(60) DEF Good, Exact
    <3>2. new.sector \notin Range(HeaderOf(d2, new)[2])
      BY <1>6, ZenonT(60) DEF NewFile
    <3> QED BY <1>5, <3>1, <3>2, ZenonT(60)
  <2>6. \A e, g \in Entries(d2) : e # g => Used(d2, e) \cap Used(d2, g) = {}
    <3>1. \A e, g \in Entries(d) : e # g => Used(d2, e) \cap Used(d2, g) = {}
      BY <1>9, ZenonT(60) DEF Good, Exact
    <3>2. \A e \in Entries(d) : Used(d2, e) \subseteq MapOf(d)
      BY <1>9, GoodUse, ZenonT(60)
    <3>3. \A e \in Entries(d) : /\ Used(d2, e) \cap Used(d2, new) = {}
                                /\ Used(d2, new) \cap Used(d2, e) = {}
      BY <2>3, <3>2, ZenonT(60)
    <3> QED BY <1>5, <3>1, <3>3, ZenonT(60)
  <2> QED BY <2>2, <2>4, <2>5, <2>6, ZenonT(60) DEF Exact
<1>13. Good(d2)
  BY <1>4, <1>10, <1>11, <1>12, ZenonT(60) DEF Good, NewFile, NewDisk
<1> QED BY <1>5, <1>6, <1>8, <1>13, ZenonT(60) DEF new

-----------------------------------------------------------------------------
(* FileSystem::Remove.                                                     *)

(* The disk without the file of entry e: m is the map and t the directory  *)
(* that Remove writes.                                                     *)
OldFile(d, e, t, m) ==
  /\ m = MapOf(d) \ Used(d, e)
  /\ IsTable(t)
  /\ InUse(t) = InUse(DirOf(d)) \ {e}

(* What Remove writes: the map and the directory without the file.         *)
LEMMA RemoveParts ==
  ASSUME NEW d, Good(d), NEW name, NEW e \in Entries(d), e.name = name
  PROVE  \E t, m :
           /\ RemoveWrites(d, name) =
                << <<MapSector(d), MapBlock(m)>>, <<DirSector(d), DirBlock(t)>> >>
           /\ OldFile(d, e, t, m)
<1> DEFINE m == Clear(Deallocate(MapOf(d), d[e.sector].hdr), e.sector)
           t == RemoveEntry(DirOf(d), name)
<1>1. IsTable(DirOf(d)) /\ e \in InUse(DirOf(d))
  BY ZenonT(60) DEF Good, Entries, InUse
<1>2. Find(DirOf(d), name) = e.sector
  BY <1>1, FindSector, ZenonT(60)
<1>3. RemoveWrites(d, name) =
        << <<MapSector(d), MapBlock(m)>>, <<DirSector(d), DirBlock(t)>> >>
  BY <1>2, ZenonT(60) DEF RemoveWrites
<1>4. m = MapOf(d) \ Used(d, e)
  BY ZenonT(60) DEF Clear, Deallocate, Used, HeaderOf
<1>5. IsTable(t) /\ InUse(t) = InUse(DirOf(d)) \ {e}
  BY <1>1, RemoveRemoves, ZenonT(60)
<1> HIDE DEF m, t
<1>6. OldFile(d, e, t, m)
  BY <1>4, <1>5, ZenonT(60) DEF OldFile
<1> QED BY <1>3, <1>6, ZenonT(60)

(* The disk without the file is as it should be.                           *)
LEMMA RemoveGood ==
  ASSUME NEW d, Good(d), NEW e \in Entries(d), NEW t, NEW m, OldFile(d, e, t, m),
         NEW d2, IsDisk(d2), d2[DirSector(d)] = DirBlock(t),
         d2[MapSector(d)] = MapBlock(m),
         \A s \in Sectors \ {DirSector(d), MapSector(d)} : d2[s] = d[s]
  PROVE  /\ Good(d2) /\ Entries(d2) = Entries(d) \ {e}
         /\ \A g \in Entries(d) : \A s \in Used(d, g) : d2[s] = d[s]
<1> DEFINE ms == MapSector(d)
           ds == DirSector(d)
<1>0. /\ SystemSectors(d) = {FreeMapSector, DirectorySector, ms, ds}
      /\ FreeMapSector \in Sectors /\ DirectorySector \in Sectors
      /\ FreeMapSector \notin {ms, ds} /\ DirectorySector \notin {ms, ds}
  BY GoodUse, ZenonT(60) DEF SystemSectors, Good, System
<1>1. MapSector(d2) = ms /\ DirSector(d2) = ds /\ SystemSectors(d2) = SystemSectors(d)
  <2>1. d2[FreeMapSector] = d[FreeMapSector] /\ d2[DirectorySector] = d[DirectorySector]
    BY <1>0, ZenonT(60)
  <2> QED BY <2>1, SamePlaces, ZenonT(60)
<1>2. MapOf(d2) = m /\ DirOf(d2) = t
  <2>1. MapOf(d2) = d2[ms].map /\ DirOf(d2) = d2[ds].dir
    BY <1>1, ZenonT(60) DEF MapOf, DirOf
  <2>2. MapBlock(m).map = m /\ DirBlock(t).dir = t
    BY ZenonT(60) DEF MapBlock, DirBlock
  <2> QED BY <2>1, <2>2, ZenonT(60)
<1>3. Entries(d2) = Entries(d) \ {e}
  BY <1>2, ZenonT(60) DEF Entries, InUse, OldFile
<1>4. ASSUME NEW g \in Entries(d), NEW s \in Used(d, g) PROVE d2[s] = d[s]
  <2>1. s \in Sectors /\ Used(d, g) \cap SystemSectors(d) = {}
    BY GoodUse, ZenonT(60)
  <2>2. s \in Sectors \ {ds, ms}
    BY <1>0, <2>1, ZenonT(60)
  <2> QED BY <2>2, ZenonT(60)
<1>5. ASSUME NEW g \in Entries(d)
      PROVE  /\ HeaderOf(d2, g) = HeaderOf(d, g) /\ Used(d2, g) = Used(d, g)
             /\ d2[g.sector] = d[g.sector]
  <2>1. \A s \in Used(d, g) : d2[s] = d[s]
    BY <1>4, ZenonT(60)
  <2> QED BY <2>1, SameUse, SMTT(60)
<1>6. System(d2)
  BY <1>1, ZenonT(60) DEF Good, System
<1>7. Headed(d2)
  BY <1>3, <1>5, ZenonT(60) DEF Good, Headed
<1>8. Exact(d2)
  <2>1. MapOf(d2) \subseteq Sectors
    BY <1>2, ZenonT(60) DEF Good, Exact, OldFile
  <2>2. ASSUME NEW s \in Sectors
        PROVE  s \in MapOf(d2) <=>
                 s \in SystemSectors(d2) \/ \E g \in Entries(d2) : s \in Used(d2, g)
    <3>1. s \in MapOf(d2) <=> s \in MapOf(d) /\ s \notin Used(d, e)
      BY <1>2, ZenonT(60) DEF OldFile
    <3>2. s \in MapOf(d) <=>
            s \in SystemSectors(d) \/ \E g \in Entries(d) : s \in Used(d, g)
      BY ZenonT(60) DEF Good, Exact
    <3>3. (\E g \in Entries(d2) : s \in Used(d2, g)) <=>
            (\E g \in Entries(d) : g # e /\ s \in Used(d, g))
      BY <1>3, <1>5, ZenonT(60)
    <3>4. s \in Used(d, e) => /\ s \notin SystemSectors(d)
                              /\ \A g \in Entries(d) : g # e => s \notin Used(d, g)
      BY ZenonT(60) DEF Good, Exact
    <3> QED BY <1>1, <3>1, <3>2, <3>3, <3>4, ZenonT(60)
  <2>3. \A g \in Entries(d2) : /\ Used(d2, g) \cap SystemSectors(d2) = {}
                               /\ g.sector \notin Range(HeaderOf(d2, g)[2])
    BY <1>1, <1>3, <1>5, ZenonT(60) DEF Good, Exact
  <2>4. \A g, h \in Entries(d2) : g # h => Used(d2, g) \cap Used(d2, h) = {}
    BY <1>3, <1>5, ZenonT(60) DEF Good, Exact
  <2> QED BY <2>1, <2>2, <2>3, <2>4, ZenonT(60) DEF Exact
<1>9. Good(d2)
  BY <1>2, <1>6, <1>7, <1>8, ZenonT(60) DEF Good, OldFile
<1> QED BY <1>3, <1>4, <1>9, ZenonT(60)

-----------------------------------------------------------------------------
(* OpenFile::WriteAt.                                                      *)

(* What ReadAt and WriteAt leave of the bytes they are asked for.          *)
LEMMA ClipFacts ==
  ASSUME NEW h, h[1] \in Nat, NEW len \in Nat, NEW pos \in Nat
  PROVE  /\ Clip(h, len, pos) \in Nat /\ Clip(h, len, pos) <= len
         /\ Clip(h, len, pos) # 0 => pos + Clip(h, len, pos) <= h[1]
         /\ pos < h[1] => Clip(h, len, pos) = len \/ Clip(h, len, pos) = h[1] - pos
<1> DEFINE size == h[1]
<1>1. Clip(h, len, pos) =
        IF pos >= size THEN 0 ELSE IF pos + len > size THEN size - pos ELSE len
  BY ZenonT(60) DEF Clip
<1>2. size \in Nat
  BY ZenonT(60)
<1> HIDE DEF size
<1>3. /\ Clip(h, len, pos) \in Nat /\ Clip(h, len, pos) <= len
      /\ Clip(h, len, pos) # 0 => pos + Clip(h, len, pos) <= size
      /\ pos < size => Clip(h, len, pos) = len \/ Clip(h, len, pos) = size - pos
  BY <1>1, <1>2, SMTT(60)
<1> QED BY <1>3, ZenonT(60) DEF size

(* Division by a positive number is monotonic.                             *)
LEMMA DivMonotonic ==
  ASSUME NEW a \in Nat, NEW b \in Nat, NEW k \in Nat \ {0}, a <= b
  PROVE  a \div k <= b \div k
<1> DEFINE p == a \div k  q == b \div k  r == a % k  t == b % k
<1>1. /\ p \in Nat /\ r \in 0..(k - 1) /\ a = p * k + r
      /\ q \in Nat /\ t \in 0..(k - 1) /\ b = q * k + t
  BY Division, ZenonT(60)
<1> HIDE DEF p, q, r, t
<1>2. ~(q < p)
  <2> SUFFICES ASSUME q < p PROVE FALSE
    BY ZenonT(60)
  <2>1. q + 1 \in Int /\ p \in Int /\ q + 1 <= p /\ k \in Nat
    BY <1>1, SMTT(60)
  <2>2. (q + 1) * k <= p * k
    BY <2>1, Products, ZenonT(60)
  <2>3. (q + 1) * k = q * k + k /\ q * k \in Int /\ p * k \in Int
    BY <1>1, SMTT(60)
  <2> QED BY <1>1, <2>2, <2>3, SMTT(60)
<1>3. p <= q
  BY <1>1, <1>2, SMTT(60)
<1> QED BY <1>3, ZenonT(60) DEF p, q

(* The byte at offset a of a sector that is written with the bytes b from  *)
(* pos on: the one written, or the one that was there.                     *)
ByteAfter(d, h, a, b, pos) ==
  SectorAfter(d, h, b, pos, (a \div SectorSize) * SectorSize)[1 + (a % SectorSize)]
    = IF a \in pos..(pos + Len(b) - 1) THEN b[1 + a - pos]
      ELSE Contents(d[ByteToSector(h, a)])[1 + (a % SectorSize)]

(* Every byte of the file is one or the other.                             *)
LEMMA SectorByte ==
  ASSUME NEW d, NEW h, IsHeader(h), NEW a \in 0..(h[1] - 1), NEW b, NEW pos
  PROVE  ByteAfter(d, h, a, b, pos)
<1> DEFINE k == SectorSize
           q == a \div SectorSize
           r == a % SectorSize
           first == q * SectorSize
           size == h[1]
           c == Clip(h, SectorSize, first)
           old == ReadAt(d, h, SectorSize, first)
<1>0. k \in Nat \ {0} /\ size \in Nat
  BY FileSysAssumption, ZenonT(60) DEF IsHeader
<1>1. a \in Nat
  <2> HIDE DEF size
  <2>1. a \in 0..(size - 1)
    BY ZenonT(60) DEF size
  <2> QED BY <1>0, <2>1, SMTT(60)
<1>2. q \in Nat /\ r \in 0..(k - 1) /\ a = q * k + r
  BY <1>0, <1>1, Division, ZenonT(60)
<1>3. first = q * k
  BY ZenonT(60)
<1>4. SectorAfter(d, h, b, pos, first) =
        [i \in 1..k |-> IF first + i - 1 \in pos..(pos + Len(b) - 1)
                        THEN b[1 + (first + i - 1) - pos]
                        ELSE IF i <= Len(old) THEN old[i] ELSE 0]
  BY ZenonT(60) DEF SectorAfter
<1>5. old = [i \in 1..c |->
               Contents(d[ByteToSector(h, first + i - 1)])[1 + ((first + i - 1) % k)]]
  BY ZenonT(60) DEF ReadAt
<1> HIDE DEF k, q, r, first, size, old
<1>6. first \in Nat /\ first < size /\ 1 + r \in 1..k /\ first + (1 + r) - 1 = a
  <2>1. first \in Nat
    BY <1>0, <1>2, <1>3, SMTT(60)
  <2>2. a \in 0..(size - 1)
    BY ZenonT(60) DEF size
  <2> QED BY <1>0, <1>2, <1>3, <2>1, <2>2, SMTT(60)
<1>7. c \in Nat /\ (c = k \/ c = size - first)
  <2>1. h[1] \in Nat /\ k \in Nat /\ first \in Nat /\ first < h[1]
    BY <1>0, <1>6, ZenonT(60) DEF size
  <2> QED BY <2>1, ClipFacts, ZenonT(60) DEF k, size
<1> HIDE DEF c
<1>8. 1 + r \in 1..c
  <2>1. a \in 0..(size - 1)
    BY ZenonT(60) DEF size
  <2> QED BY <1>0, <1>2, <1>6, <1>7, <2>1, SMTT(60)
<1>9. Len(old) = c
  BY <1>5, <1>7, SMTT(60)
<1>10. 1 + r <= Len(old)
  BY <1>7, <1>8, <1>9, SMTT(60)
<1>11. old[1 + r] = Contents(d[ByteToSector(h, a)])[1 + (a % k)]
  BY <1>5, <1>6, <1>8, ZenonT(60)
<1>12. SectorAfter(d, h, b, pos, first)[1 + r] =
         IF a \in pos..(pos + Len(b) - 1) THEN b[1 + a - pos]
         ELSE Contents(d[ByteToSector(h, a)])[1 + (a % k)]
  BY <1>4, <1>6, <1>10, <1>11, ZenonT(60)
<1> QED BY <1>12, ZenonT(60) DEF ByteAfter, k, q, r, first

(* l is what WriteAt writes, n bytes from pos on, in len sectors from the  *)
(* one of index fs on.                                                     *)
Writes(d, h, bytes, pos, n, l, fs, len) ==
  /\ n \in Nat \ {0} /\ n = Clip(h, Len(bytes), pos) /\ pos + n <= h[1]
  /\ l = WriteAt(d, h, bytes, pos)
  /\ fs = pos \div SectorSize
  /\ len = 1 + ((pos + n - 1) \div SectorSize) - fs

(* The block that WriteAt writes to the sector of index j of the file.     *)
BlockAfter(d, h, bytes, pos, j) ==
  [kind |-> "data", data |-> SectorAfter(d, h, bytes, pos, j * SectorSize)]

(* The writes are to different sectors of the file.                        *)
SectorWrites(d, h, bytes, pos, n, l, fs, len) ==
  /\ IsLog(l) /\ Len(l) = len
  /\ \A k \in 1..len :
       /\ fs + k \in 1..divRoundUp(h[1], SectorSize)
       /\ l[k] = <<h[2][fs + k],
                   BlockAfter(d, h, SubSeq(bytes, 1, n), pos, fs + k - 1)>>

(* The writes of WriteAt: one for each sector of the file from the one     *)
(* with the first byte to the one with the last.                           *)
LEMMA WriteParts ==
  ASSUME NEW d, NEW h, IsHeader(h), NEW bytes, NEW pos \in Nat, NEW n,
         NEW l, NEW fs, NEW len, Writes(d, h, bytes, pos, n, l, fs, len)
  PROVE  SectorWrites(d, h, bytes, pos, n, l, fs, len)
<1> DEFINE ls == (pos + n - 1) \div SectorSize
           N == divRoundUp(h[1], SectorSize)
           data(k) == BlockAfter(d, h, SubSeq(bytes, 1, n), pos, fs + k - 1)
<1>0. SectorSize \in Nat \ {0} /\ h[1] \in Nat /\ n \in Nat \ {0}
  BY FileSysAssumption, ZenonT(60) DEF IsHeader, Writes
<1>1. pos + n - 1 \in Nat /\ pos <= pos + n - 1 /\ pos + n - 1 \in 0..(h[1] - 1)
  <2> DEFINE size == h[1]
  <2>1. size \in Nat /\ pos + n <= size
    BY <1>0, ZenonT(60) DEF Writes
  <2> HIDE DEF size
  <2>2. pos + n - 1 \in Nat /\ pos <= pos + n - 1 /\ pos + n - 1 \in 0..(size - 1)
    BY <1>0, <2>1, SMTT(60)
  <2> QED BY <2>2, ZenonT(60) DEF size
<1>2. fs \in Nat /\ ls \in Nat /\ fs <= ls
  <2>1. pos \div SectorSize \in Nat /\ ls \in Nat
    BY <1>0, <1>1, Division, ZenonT(60)
  <2>2. pos \div SectorSize <= ls
    BY <1>0, <1>1, DivMonotonic, ZenonT(60)
  <2> QED BY <2>1, <2>2, ZenonT(60) DEF Writes
<1>3. 1 + ls \in 1..N /\ N \in Nat
  BY <1>0, <1>1, RoundUp, ZenonT(60)
<1>4. l = [k \in 1..len |->
             <<ByteToSector(h, (fs + k - 1) * SectorSize), data(k)>>]
  <2>1. n # 0
    BY <1>0, SMTT(60)
  <2> QED BY <2>1, ZenonT(60) DEF WriteAt, Writes, BlockAfter
<1> HIDE DEF ls, N, data
<1>5. ASSUME NEW k \in 1..len
      PROVE  /\ fs + k \in 1..N
             /\ ByteToSector(h, (fs + k - 1) * SectorSize) = h[2][fs + k]
  <2> DEFINE x == fs + k - 1
  <2>0. len = 1 + ls - fs
    BY ZenonT(60) DEF ls, Writes
  <2>1. fs + k \in 1..N /\ x \in Nat /\ 1 + x = fs + k
    BY <1>2, <1>3, <2>0, SMTT(60)
  <2> HIDE DEF x
  <2>2. x * SectorSize \in Nat /\ x * SectorSize = x * SectorSize + 0
        /\ 0 \in 0..(SectorSize - 1) /\ x \in Int
    BY <1>0, <2>1, SMTT(60)
  <2>3. (x * SectorSize) \div SectorSize = x
    BY <1>0, <2>2, Quotient, ZenonT(60)
  <2>4. ByteToSector(h, x * SectorSize) = h[2][1 + x]
    BY <2>3, ZenonT(60) DEF ByteToSector
  <2> QED BY <2>1, <2>4, ZenonT(60) DEF x
<1>6. \A k \in 1..len : l[k] = <<h[2][fs + k], data(k)>>
  BY <1>4, <1>5, ZenonT(60)
<1>7. len = 1 + ls - fs /\ len \in Nat
  <2>1. len = 1 + ls - fs
    BY ZenonT(60) DEF ls, Writes
  <2> QED BY <1>2, <2>1, SMTT(60)
<1>8. DOMAIN l = 1..len /\ l \in [1..len -> Range(l)]
  BY <1>4, ZenonT(60) DEF Range
<1>9. l \in Seq(Range(l)) /\ Len(l) = len
  BY <1>7, <1>8, SMTT(60)
<1>10. \A k \in 1..len : l[k][1] = h[2][fs + k]
  BY <1>6, SMTT(60)
<1>11. /\ h[2] \in [1..N -> Sectors]
       /\ \A i, j \in 1..N : h[2][i] = h[2][j] => i = j
  BY ZenonT(60) DEF IsHeader, N
<1>12. \A k \in 1..len : l[k][1] \in Sectors
  BY <1>5, <1>10, <1>11, ZenonT(60)
<1>13. ASSUME NEW i \in 1..len, NEW j \in 1..len, l[i][1] = l[j][1] PROVE i = j
  <2>1. fs + i = fs + j
    BY <1>5, <1>10, <1>11, <1>13, ZenonT(60)
  <2> QED BY <1>2, <1>7, <2>1, SMTT(60)
<1>14. IsLog(l)
  BY <1>9, <1>12, <1>13, ZenonT(60) DEF IsLog
<1> QED BY <1>5, <1>6, <1>9, <1>14, ZenonT(60) DEF SectorWrites, N, data

(* A disk on which only sectors of one file's data have changed.           *)
LEMMA DataGood ==
  ASSUME NEW d, Good(d), NEW e \in Entries(d), NEW d2, IsDisk(d2),
         \A s \in Sectors \ Range(HeaderOf(d, e)[2]) : d2[s] = d[s]
  PROVE  /\ Good(d2) /\ Entries(d2) = Entries(d)
         /\ d2[e.sector] = d[e.sector] /\ HeaderOf(d2, e) = HeaderOf(d, e)
         /\ \A g \in Entries(d) : g # e => \A s \in Used(d, g) : d2[s] = d[s]
<1> DEFINE data == Range(HeaderOf(d, e)[2])
           ms == MapSector(d)
           ds == DirSector(d)
<1>0. /\ SystemSectors(d) = {FreeMapSector, DirectorySector, ms, ds}
      /\ SystemSectors(d) \subseteq Sectors /\ data \cap SystemSectors(d) = {}
  <2>1. data \subseteq Used(d, e) /\ Used(d, e) \cap SystemSectors(d) = {}
        /\ SystemSectors(d) \subseteq Sectors
    BY GoodUse, ZenonT(60)
  <2> QED BY <2>1, ZenonT(60) DEF SystemSectors
<1>1. /\ d2[FreeMapSector] = d[FreeMapSector] /\ d2[DirectorySector] = d[DirectorySector]
      /\ d2[ms] = d[ms] /\ d2[ds] = d[ds]
  <2>1. \A s \in {FreeMapSector, DirectorySector, ms, ds} : s \in Sectors \ data
    BY <1>0, ZenonT(60)
  <2> HIDE DEF data, ms, ds
  <2>2. \A s \in Sectors \ data : d2[s] = d[s]
    BY ZenonT(60) DEF data
  <2> QED BY <2>1, <2>2, ZenonT(60)
<1>2. MapSector(d2) = ms /\ DirSector(d2) = ds /\ SystemSectors(d2) = SystemSectors(d)
  BY <1>1, SamePlaces, ZenonT(60)
<1>3. MapOf(d2) = MapOf(d) /\ DirOf(d2) = DirOf(d)
  BY <1>1, <1>2, ZenonT(60) DEF MapOf, DirOf
<1>4. Entries(d2) = Entries(d)
  BY <1>3, ZenonT(60) DEF Entries
<1>5. d2[e.sector] = d[e.sector]
  <2>1. e.sector \in Sectors
    BY GoodUse, ZenonT(60)
  <2>2. e.sector \notin data
    BY ZenonT(60) DEF Good, Exact
  <2> QED BY <2>1, <2>2, ZenonT(60)
<1>6. ASSUME NEW g \in Entries(d), g # e, NEW s \in Used(d, g) PROVE d2[s] = d[s]
  <2>1. s \in Sectors /\ data \subseteq Used(d, e)
    BY GoodUse, ZenonT(60)
  <2>2. Used(d, g) \cap Used(d, e) = {}
    BY <1>6, ZenonT(60) DEF Good, Exact
  <2>3. s \notin data
    BY <2>1, <2>2, ZenonT(60)
  <2> QED BY <2>1, <2>3, ZenonT(60)
<1>7. ASSUME NEW g \in Entries(d)
      PROVE  HeaderOf(d2, g) = HeaderOf(d, g) /\ Used(d2, g) = Used(d, g)
             /\ d2[g.sector] = d[g.sector]
  <2>1. d2[g.sector] = d[g.sector]
    <3>1. CASE g = e
      BY <1>5, <3>1, ZenonT(60)
    <3>2. CASE g # e
      BY <1>6, <3>2, ZenonT(60) DEF Used
    <3> QED BY <3>1, <3>2, ZenonT(60)
  <2>2. HeaderOf(d2, g) = HeaderOf(d, g)
    BY <2>1, ZenonT(60) DEF HeaderOf
  <2> QED BY <2>1, <2>2, ZenonT(60) DEF Used
<1>8. System(d2) /\ Headed(d2)
  BY <1>2, <1>4, <1>7, ZenonT(60) DEF Good, System, Headed
<1>9. Exact(d2)
  <2>1. MapOf(d2) \subseteq Sectors
    BY <1>3, ZenonT(60) DEF Good, Exact
  <2>2. ASSUME NEW s \in Sectors
        PROVE  s \in MapOf(d2) <=>
                 s \in SystemSectors(d2) \/ \E g \in Entries(d2) : s \in Used(d2, g)
    <3>1. s \in MapOf(d) <=>
            s \in SystemSectors(d) \/ \E g \in Entries(d) : s \in Used(d, g)
      BY ZenonT(60) DEF Good, Exact
    <3>2. (\E g \in Entries(d2) : s \in Used(d2, g)) <=>
            (\E g \in Entries(d) : s \in Used(d, g))
      BY <1>4, <1>7, ZenonT(60)
    <3> QED BY <1>2, <1>3, <3>1, <3>2, ZenonT(60)
  <2>3. \A g \in Entries(d2) : /\ Used(d2, g) \cap SystemSectors(d2) = {}
                               /\ g.sector \notin Range(HeaderOf(d2, g)[2])
    BY <1>2, <1>4, <1>7, ZenonT(60) DEF Good, Exact
  <2>4. \A g, f \in Entries(d2) : g # f => Used(d2, g) \cap Used(d2, f) = {}
    BY <1>4, <1>7, ZenonT(60) DEF Good, Exact
  <2> QED BY <2>1, <2>2, <2>3, <2>4, ZenonT(60) DEF Exact
<1>10. Good(d2)
  BY <1>3, <1>8, <1>9, ZenonT(60) DEF Good
<1> QED BY <1>4, <1>5, <1>6, <1>7, <1>10, ZenonT(60)

(* A byte of the file after the writes of WriteAt.                         *)
LEMMA WriteByte ==
  ASSUME NEW d, NEW h, IsHeader(h), NEW S, NEW bytes \in Seq(S), NEW pos \in Nat,
         NEW n \in Nat \ {0}, n = Clip(h, Len(bytes), pos), pos + n <= h[1],
         n <= Len(bytes), NEW a \in 0..(h[1] - 1), NEW l, l = WriteAt(d, h, bytes, pos)
  PROVE  Contents(After(d, l, Len(l))[ByteToSector(h, a)])[1 + (a % SectorSize)]
           = IF a \in pos..(pos + n - 1) THEN bytes[1 + a - pos]
             ELSE Contents(d[ByteToSector(h, a)])[1 + (a % SectorSize)]
<1> DEFINE size == h[1]
           fs == pos \div SectorSize
           ls == (pos + n - 1) \div SectorSize
           len == 1 + ls - fs
           N == divRoundUp(h[1], SectorSize)
           b == SubSeq(bytes, 1, n)
           q == a \div SectorSize
           x == 1 + (a % SectorSize)
           At(j) == BlockAfter(d, h, b, pos, j)
<1>0. SectorSize \in Nat \ {0} /\ size \in Nat /\ Len(bytes) \in Nat
  <2>1. Len(bytes) \in Nat
    BY SMTT(60)
  <2> QED BY <2>1, FileSysAssumption, ZenonT(60) DEF IsHeader
<1>1. a \in Nat /\ pos + n - 1 \in Nat
  <2> HIDE DEF size
  <2>1. a \in 0..(size - 1)
    BY ZenonT(60) DEF size
  <2> QED BY <1>0, <2>1, SMTT(60)
<1>2. /\ IsLog(l) /\ Len(l) = len
      /\ \A k \in 1..len : /\ fs + k \in 1..N
                           /\ l[k] = <<h[2][fs + k], At(fs + k - 1)>>
  <2>1. Writes(d, h, bytes, pos, n, l, fs, len)
    BY ZenonT(60) DEF Writes
  <2> HIDE DEF fs, len
  <2>2. SectorWrites(d, h, bytes, pos, n, l, fs, len)
    BY <2>1, WriteParts, ZenonT(60)
  <2> QED BY <2>2, ZenonT(60) DEF SectorWrites
<1>3. /\ 1 + q \in 1..N /\ ByteToSector(h, a) = h[2][1 + q]
  BY ByteSector, ZenonT(60)
<1>4. q \in Nat /\ fs \in Nat /\ ls \in Nat
  BY <1>0, <1>1, Division, ZenonT(60)
<1>5. h[2][1 + q] \in Sectors
  BY <1>3, ZenonT(60) DEF IsHeader, N
<1>6. Len(b) = n /\ \A i \in 1..n : b[i] = bytes[i]
  <2>1. 1 \in 1..(Len(bytes) + 1) /\ n \in 0..Len(bytes)
    BY <1>0, SMTT(60)
  <2> HIDE DEF b
  <2>2. b = SubSeq(bytes, 1, n)
    BY ZenonT(60) DEF b
  <2>3. Len(SubSeq(bytes, 1, n)) = n
        /\ \A i \in 1..n : SubSeq(bytes, 1, n)[i] = bytes[i]
    BY <2>1, SMTT(60)
  <2> QED BY <2>2, <2>3, ZenonT(60)
<1>7. /\ Contents(At(q))[x] =
           IF a \in pos..(pos + Len(b) - 1) THEN b[1 + a - pos]
           ELSE Contents(d[ByteToSector(h, a)])[x]
  <2>1. Contents(At(q)) = SectorAfter(d, h, b, pos, q * SectorSize)
    <3> DEFINE v == SectorAfter(d, h, b, pos, q * SectorSize)
    <3> HIDE DEF v, q
    <3>1. Contents([kind |-> "data", data |-> v]) = v
      BY ZenonT(60) DEF Contents
    <3> QED BY <3>1, ZenonT(60) DEF v, BlockAfter
  <2> HIDE DEF b
  <2>2. SectorAfter(d, h, b, pos, q * SectorSize)[x]
          = IF a \in pos..(pos + Len(b) - 1) THEN b[1 + a - pos]
            ELSE Contents(d[ByteToSector(h, a)])[x]
    <3>1. ByteAfter(d, h, a, b, pos)
      BY SectorByte, ZenonT(60)
    <3> QED BY <3>1, ZenonT(60) DEF ByteAfter
  <2> QED BY <2>1, <2>2, ZenonT(60)
<1>8. a \in pos..(pos + n - 1) => q \in fs..ls /\ 1 + a - pos \in 1..n
  <2> SUFFICES ASSUME a \in pos..(pos + n - 1)
               PROVE  q \in fs..ls /\ 1 + a - pos \in 1..n
    BY ZenonT(60)
  <2>1. pos <= a /\ a <= pos + n - 1 /\ 1 + a - pos \in 1..n
    BY <1>0, <1>1, SMTT(60)
  <2>2. fs <= q /\ q <= ls
    BY <1>0, <1>1, <2>1, DivMonotonic, ZenonT(60)
  <2> HIDE DEF fs, q, ls
  <2>3. q \in fs..ls
    BY <1>4, <2>2, SMTT(60)
  <2> QED BY <2>1, <2>3, ZenonT(60)
<1> HIDE DEF size, fs, ls, N, b, q, x, At
<1>9. CASE q \in fs..ls
  <2>1. PICK k \in 1..len : fs + k = 1 + q /\ fs + k - 1 = q
    <3>1. 1 + q - fs \in 1..len /\ fs + (1 + q - fs) = 1 + q
          /\ fs + (1 + q - fs) - 1 = q
      BY <1>4, <1>9, SMTT(60)
    <3> QED BY <3>1, ZenonT(60)
  <2>2. l[k] = <<h[2][1 + q], At(q)>>
    BY <1>2, <2>1, ZenonT(60)
  <2>3. l[k][1] = h[2][1 + q] /\ l[k][2] = At(q)
    BY <2>2, SMTT(60)
  <2>4. Len(l) \in 0..Len(l) /\ k \in 1..Len(l)
    <3>1. len \in Nat
      BY <1>4, <1>9, SMTT(60)
    <3> HIDE DEF len
    <3> QED BY <1>2, <3>1, SMTT(60)
  <2>5. After(d, l, Len(l))[l[k][1]] = l[k][2]
    BY <1>2, <2>4, AfterHit, SMTT(60) DEF WriteMade
  <2>6. Contents(After(d, l, Len(l))[ByteToSector(h, a)]) = Contents(At(q))
    BY <1>3, <2>3, <2>5, ZenonT(60)
  <2>7. a \in pos..(pos + n - 1) => b[1 + a - pos] = bytes[1 + a - pos]
    BY <1>6, <1>8, ZenonT(60)
  <2> QED BY <1>6, <1>7, <2>6, <2>7, ZenonT(60) DEF x
<1>10. CASE q \notin fs..ls
  <2>1. ASSUME NEW k \in 1..len PROVE l[k][1] # h[2][1 + q]
    <3>1. fs + k \in 1..N /\ l[k] = <<h[2][fs + k], At(fs + k - 1)>>
      BY <1>2, ZenonT(60)
    <3>2. l[k][1] = h[2][fs + k]
      BY <3>1, SMTT(60)
    <3>3. fs + k # 1 + q
      BY <1>4, <1>10, SMTT(60)
    <3>4. \A i, j \in 1..N : h[2][i] = h[2][j] => i = j
      BY ZenonT(60) DEF IsHeader, N
    <3> QED BY <1>3, <3>1, <3>2, <3>3, <3>4, ZenonT(60)
  <2> HIDE DEF len
  <2>2. \A k \in 1..Len(l) : l[k][1] # h[2][1 + q]
    BY <1>2, <2>1, ZenonT(60)
  <2>3. After(d, l, Len(l))[h[2][1 + q]] = d[h[2][1 + q]]
    BY <1>5, <2>2, AfterMiss, SMTT(60)
  <2> QED BY <1>3, <1>8, <1>10, <2>3, ZenonT(60) DEF x
<1> QED BY <1>9, <1>10, ZenonT(60)

(* The writes of WriteAt are to sectors of the file, and leave its bytes   *)
(* but those written.                                                      *)
LEMMA WriteFile ==
  ASSUME NEW d, IsDisk(d), NEW h, IsHeader(h), NEW S, NEW bytes \in Seq(S),
         NEW pos \in Nat, NEW n, n = Clip(h, Len(bytes), pos),
         NEW l, l = WriteAt(d, h, bytes, pos)
  PROVE  /\ IsLog(l) /\ n \in Nat
         /\ \A k \in 0..Len(l) :
              \A s \in Sectors \ Range(h[2]) : After(d, l, k)[s] = d[s]
         /\ \A a \in 0..(h[1] - 1) :
              Contents(After(d, l, Len(l))[ByteToSector(h, a)])[1 + (a % SectorSize)]
                = IF a \in pos..(pos + n - 1) THEN bytes[1 + a - pos]
                  ELSE Contents(d[ByteToSector(h, a)])[1 + (a % SectorSize)]
<1>0. h[1] \in Nat /\ Len(bytes) \in Nat
  <2>1. Len(bytes) \in Nat
    BY SMTT(60)
  <2> QED BY <2>1, ZenonT(60) DEF IsHeader
<1>1. n \in Nat /\ n <= Len(bytes) /\ (n # 0 => pos + n <= h[1])
  BY <1>0, ClipFacts, ZenonT(60)
<1>2. CASE n = 0
  <2>1. l = <<>>
    BY <1>2, ZenonT(60) DEF WriteAt
  <2>2. IsLog(<<>>) /\ Len(<<>>) = 0
    <3>1. Len(<<>>) = 0 /\ 1..0 = {} /\ \A T : <<>> \in Seq(T)
      BY SMTT(60)
    <3> QED BY <3>1, ZenonT(60) DEF IsLog
  <2>3. \A k \in 0..0 : After(d, l, k) = d
    <3>1. \A k \in 0..0 : k = 0
      BY SMTT(60)
    <3>2. After(d, l, 0) = d
      BY AfterNone, ZenonT(60)
    <3> QED BY <3>1, <3>2, ZenonT(60)
  <2>4. \A a : a \notin pos..(pos + n - 1)
    BY <1>2, SMTT(60)
  <2>5. 0 \in 0..0
    BY SMTT(60)
  <2>6. IsLog(l) /\ Len(l) = 0
    BY <2>1, <2>2, ZenonT(60)
  <2>7. \A k \in 0..Len(l) : After(d, l, k) = d
    BY <2>3, <2>6, ZenonT(60)
  <2>8. After(d, l, Len(l)) = d
    BY <2>3, <2>5, <2>6, ZenonT(60)
  <2> QED BY <1>1, <2>4, <2>6, <2>7, <2>8, ZenonT(60)
<1>3. CASE n # 0
  <2>0. n \in Nat \ {0} /\ pos + n <= h[1]
    BY <1>1, <1>3, ZenonT(60)
  <2> DEFINE fs == pos \div SectorSize
             len == 1 + ((pos + n - 1) \div SectorSize) - fs
             data(k) == BlockAfter(d, h, SubSeq(bytes, 1, n), pos, fs + k - 1)
  <2>1. /\ IsLog(l) /\ Len(l) = len
        /\ \A k \in 1..len : /\ fs + k \in 1..divRoundUp(h[1], SectorSize)
                             /\ l[k] = <<h[2][fs + k], data(k)>>
    <3>1. Writes(d, h, bytes, pos, n, l, fs, len)
      BY <2>0, ZenonT(60) DEF Writes
    <3> HIDE DEF fs, len
    <3>2. SectorWrites(d, h, bytes, pos, n, l, fs, len)
      BY <3>1, WriteParts, ZenonT(60)
    <3> QED BY <3>2, ZenonT(60) DEF SectorWrites
  <2>2. ASSUME NEW a \in 0..(h[1] - 1)
        PROVE  Contents(After(d, l, Len(l))[ByteToSector(h, a)])[1 + (a % SectorSize)]
                 = IF a \in pos..(pos + n - 1) THEN bytes[1 + a - pos]
                   ELSE Contents(d[ByteToSector(h, a)])[1 + (a % SectorSize)]
    BY <1>1, <2>0, WriteByte, SMTT(60)
  <2> HIDE DEF fs, len, data
  <2>3. ASSUME NEW j \in 1..Len(l) PROVE l[j][1] \in Range(h[2])
    <3>1. fs + j \in 1..divRoundUp(h[1], SectorSize) /\ l[j] = <<h[2][fs + j], data(j)>>
      BY <2>1, ZenonT(60)
    <3>2. l[j][1] = h[2][fs + j]
      BY <3>1, SMTT(60)
    <3> QED BY <3>1, <3>2, ZenonT(60) DEF Range, IsHeader
  <2>4. ASSUME NEW k \in 0..Len(l), NEW s \in Sectors \ Range(h[2])
        PROVE  After(d, l, k)[s] = d[s]
    <3>1. \A j \in 1..k : j \in 1..Len(l)
      <4>1. Len(l) \in Nat
        BY <2>1, SMTT(60) DEF IsLog
      <4> QED BY <4>1, SMTT(60)
    <3>2. \A j \in 1..k : l[j][1] # s
      BY <2>3, <3>1, ZenonT(60)
    <3> QED BY <3>2, AfterMiss, SMTT(60)
  <2> QED BY <1>1, <2>1, <2>2, <2>4, ZenonT(60)
<1> QED BY <1>2, <1>3, ZenonT(60)

-----------------------------------------------------------------------------
(* The steps.                                                              *)

(* When there is nothing to write, the disk is as it should be.            *)
LEMMA Rest ==
  ASSUME NEW d, NEW n, NEW f, NEW w
  PROVE  Operation(d, <<>>, n, f, w) <=> AtRest(d, f, w)
<1>0. /\ Len(<<>>) = 0 /\ IsLog(<<>>) /\ 0 \in 0..0 /\ \A k \in 0..0 : k = 0
  <2>1. /\ Len(<<>>) = 0 /\ 1..0 = {} /\ 0 \in 0..0 /\ \A k \in 0..0 : k = 0
        /\ \A T : <<>> \in Seq(T)
    BY SMTT(60)
  <2> QED BY <2>1, ZenonT(60) DEF IsLog
<1>1. IsDisk(d) => After(d, <<>>, Len(<<>>)) = d
  <2>1. IsDisk(d) => After(d, <<>>, 0) = d
    BY AfterNone, ZenonT(60)
  <2> QED BY <1>0, <2>1, ZenonT(60)
<1>2. ASSUME AtRest(d, f, w) PROVE Operation(d, <<>>, n, f, w)
  <2>1. IsDisk(d)
    BY <1>2, ZenonT(60) DEF AtRest, Good
  <2>2. Kept(d, w, n)
    BY <1>2, ZenonT(60) DEF AtRest, Good, Headed, Kept
  <2>3. After(d, <<>>, 0) = d
    BY <1>0, <1>1, <2>1, ZenonT(60)
  <2>4. \A k \in 0..Len(<<>>) : Kept(After(d, <<>>, k), w, n)
    BY <1>0, <2>2, <2>3, ZenonT(60)
  <2> QED BY <1>0, <1>1, <1>2, <2>1, <2>4, ZenonT(60) DEF Operation
<1>3. ASSUME Operation(d, <<>>, n, f, w) PROVE AtRest(d, f, w)
  BY <1>1, <1>3, ZenonT(60) DEF Operation
<1> QED BY <1>2, <1>3, ZenonT(60)

(* Files that are open stay so when their entries and headers stay.        *)
LEMMA OpenSame ==
  ASSUME NEW d, NEW d2, NEW f, OpenOK(d, f),
         \A e \in Entries(d) :
           \/ e \in Entries(d2) /\ HeaderOf(d2, e) = HeaderOf(d, e)
           \/ \A s \in DOMAIN f : f[s].name # e.name
  PROVE  OpenOK(d2, f)
<1>1. f = [s \in 0..(NumSlots - 1) |-> f[s]] /\ DOMAIN f = 0..(NumSlots - 1)
  BY ZenonT(60) DEF OpenOK
<1>2. ASSUME NEW s \in 0..(NumSlots - 1), f[s] # NoFile PROVE Opened(d2, f[s])
  <2>1. Opened(d, f[s])
    BY <1>2, ZenonT(60) DEF OpenOK
  <2>2. PICK e \in Entries(d) : e.name = f[s].name /\ HeaderOf(d, e) = f[s].hdr
    BY <2>1, ZenonT(60) DEF Opened
  <2>3. e \in Entries(d2) /\ HeaderOf(d2, e) = f[s].hdr
    BY <1>1, <2>2, ZenonT(60)
  <2>4. /\ f[s] = [hdr |-> f[s].hdr, name |-> f[s].name, pos |-> f[s].pos]
        /\ f[s].pos \in Nat
    BY <2>1, ZenonT(60) DEF Opened
  <2> QED BY <2>2, <2>3, <2>4, ZenonT(60) DEF Opened
<1> QED BY <1>1, <1>2, ZenonT(60) DEF OpenOK

(* A sector is written back.                                               *)
LEMMA WriteBackStep ==
  ASSUME NEW d, NEW l, NEW n, NEW f, NEW w, Operation(d, l, n, f, w), l # <<>>
  PROVE  Operation(WriteSector(d, Head(l)), Tail(l), n, f, w)
<1> DEFINE d2 == WriteSector(d, Head(l))
           u == Tail(l)
<1>0. IsDisk(d) /\ IsLog(l)
  BY ZenonT(60) DEF Operation
<1>1. /\ IsDisk(d2)
      /\ \A k \in 0..Len(u) : /\ k + 1 \in 0..Len(l)
                              /\ After(d2, u, k) = After(d, l, k + 1)
  BY <1>0, AfterStep, ZenonT(60)
<1>2. IsLog(u) /\ Len(u) \in Nat /\ Len(l) = Len(u) + 1
  BY <1>0, TailIsLog, ZenonT(60)
<1> HIDE DEF d2, u
<1>3. Len(u) \in 0..Len(u)
  BY <1>2, SMTT(60)
<1>4. After(d2, u, Len(u)) = After(d, l, Len(l))
  BY <1>1, <1>2, <1>3, ZenonT(60)
<1>5. AtRest(After(d2, u, Len(u)), f, w)
  BY <1>4, ZenonT(60) DEF Operation
<1>6. \A k \in 0..Len(u) : Kept(After(d2, u, k), w, n)
  BY <1>1, ZenonT(60) DEF Operation
<1> QED BY <1>1, <1>2, <1>5, <1>6, ZenonT(60) DEF Operation, d2, u

(* A write to one sector, to two and to three.                             *)
LEMMA SomeWrites ==
  ASSUME NEW d, NEW x, NEW y, NEW z, NEW a, NEW b, NEW c, {x, y, z} \subseteq Sectors,
         x # y, y # z, x # z, NEW l, l = << <<x, a>>, <<y, b>>, <<z, c>> >>
  PROVE  /\ IsLog(l) /\ Len(l) = 3 /\ \A k \in 0..3 : k \in {0, 1, 2, 3}
         /\ After(d, l, 1)[x] = a
         /\ \A s \in Sectors \ {x} : After(d, l, 1)[s] = d[s]
         /\ After(d, l, 2)[x] = a /\ After(d, l, 2)[y] = b
         /\ \A s \in Sectors \ {x, y} : After(d, l, 2)[s] = d[s]
         /\ After(d, l, 3)[x] = a /\ After(d, l, 3)[y] = b /\ After(d, l, 3)[z] = c
         /\ \A s \in Sectors \ {x, y, z} : After(d, l, 3)[s] = d[s]
<1>1. /\ Len(l) = 3 /\ \A k \in 0..3 : k \in {0, 1, 2, 3}
      /\ l[1][1] = x /\ l[1][2] = a /\ l[2][1] = y /\ l[2][2] = b
      /\ l[3][1] = z /\ l[3][2] = c /\ DOMAIN l = 1..3 /\ 3 \in Nat
  BY SMTT(60)
<1>2. /\ 1..1 = {1} /\ 1..2 = {1, 2} /\ 1..3 = {1, 2, 3}
      /\ 1 \in 0..3 /\ 2 \in 0..3 /\ 3 \in 0..3
  BY SMTT(60)
<1>3. l \in Seq(Range(l))
  <2>1. \A i \in 1..3 : l[i] \in Range(l)
    BY <1>1, ZenonT(60) DEF Range
  <2>2. l[1] \in Range(l) /\ l[2] \in Range(l) /\ l[3] \in Range(l)
    BY <1>2, <2>1, ZenonT(60)
  <2> DEFINE R == Range(l)
  <2> HIDE DEF R
  <2>3. <<x, a>> \in R /\ <<y, b>> \in R /\ <<z, c>> \in R
    <3>1. l[1] = <<x, a>> /\ l[2] = <<y, b>> /\ l[3] = <<z, c>>
      BY SMTT(60)
    <3> QED BY <2>2, <3>1, ZenonT(60) DEF R
  <2>4. << <<x, a>>, <<y, b>>, <<z, c>> >> \in Seq(R)
    BY <2>3, SMTT(60)
  <2> QED BY <2>4, ZenonT(60) DEF R
<1>4. \A i \in 1..3 : l[i][1] \in Sectors
  BY <1>1, <1>2, ZenonT(60)
<1>5. \A i, j \in 1..3 : l[i][1] = l[j][1] => i = j
  BY <1>1, <1>2, ZenonT(60)
<1>6. IsLog(l)
  BY <1>1, <1>3, <1>4, <1>5, ZenonT(60) DEF IsLog
<1>7. \A k \in 0..3 : \A j \in 1..k : WriteMade(d, l, k, j)
  BY <1>1, <1>6, AfterHit, ZenonT(60)
<1>8. \A k : \A s \in Sectors :
        (\A j \in 1..k : l[j][1] # s) => After(d, l, k)[s] = d[s]
  BY AfterMiss, SMTT(60)
<1>9. After(d, l, 1)[x] = a
  BY <1>1, <1>2, <1>7, SMTT(60) DEF WriteMade
<1>10. After(d, l, 2)[x] = a /\ After(d, l, 2)[y] = b
  BY <1>1, <1>2, <1>7, SMTT(60) DEF WriteMade
<1>11. After(d, l, 3)[x] = a /\ After(d, l, 3)[y] = b /\ After(d, l, 3)[z] = c
  BY <1>1, <1>2, <1>7, SMTT(60) DEF WriteMade
<1>12. ASSUME NEW s \in Sectors \ {x} PROVE After(d, l, 1)[s] = d[s]
  <2>1. \A j \in 1..1 : l[j][1] # s
    BY <1>1, <1>2, ZenonT(60)
  <2> QED BY <1>8, <2>1, ZenonT(60)
<1>13. ASSUME NEW s \in Sectors \ {x, y} PROVE After(d, l, 2)[s] = d[s]
  <2>1. \A j \in 1..2 : l[j][1] # s
    BY <1>1, <1>2, ZenonT(60)
  <2> QED BY <1>8, <2>1, ZenonT(60)
<1>14. ASSUME NEW s \in Sectors \ {x, y, z} PROVE After(d, l, 3)[s] = d[s]
  <2>1. \A j \in 1..3 : l[j][1] # s
    BY <1>1, <1>2, ZenonT(60)
  <2> QED BY <1>8, <2>1, ZenonT(60)
<1> QED BY <1>1, <1>6, <1>9, <1>10, <1>11, <1>12, <1>13, <1>14, ZenonT(60)

(* What two writes, of a to x and of b to y, do.                           *)
TwoWritten(d, x, y, a, b, l) ==
  /\ IsLog(l) /\ Len(l) = 2 /\ \A k \in 0..2 : k \in {0, 1, 2}
  /\ After(d, l, 1)[x] = a
  /\ \A s \in Sectors \ {x} : After(d, l, 1)[s] = d[s]
  /\ After(d, l, 2)[x] = a /\ After(d, l, 2)[y] = b
  /\ \A s \in Sectors \ {x, y} : After(d, l, 2)[s] = d[s]

(* The writes of Remove.                                                   *)
LEMMA TwoWrites ==
  ASSUME NEW d, NEW x \in Sectors, NEW y \in Sectors, NEW a, NEW b,
         x # y, NEW l, l = << <<x, a>>, <<y, b>> >>
  PROVE  TwoWritten(d, x, y, a, b, l)
<1>1. /\ Len(l) = 2 /\ \A k \in 0..2 : k \in {0, 1, 2}
      /\ l[1][1] = x /\ l[1][2] = a /\ l[2][1] = y /\ l[2][2] = b
      /\ DOMAIN l = 1..2 /\ 2 \in Nat
  BY SMTT(60)
<1>2. 1..1 = {1} /\ 1..2 = {1, 2} /\ 1 \in 0..2 /\ 2 \in 0..2
  BY SMTT(60)
<1>3. l \in Seq(Range(l))
  <2>1. \A i \in 1..2 : l[i] \in Range(l)
    BY <1>1, ZenonT(60) DEF Range
  <2>2. l[1] \in Range(l) /\ l[2] \in Range(l)
    BY <1>2, <2>1, ZenonT(60)
  <2> DEFINE R == Range(l)
  <2> HIDE DEF R
  <2>3. <<x, a>> \in R /\ <<y, b>> \in R
    <3>1. l[1] = <<x, a>> /\ l[2] = <<y, b>>
      BY SMTT(60)
    <3> QED BY <2>2, <3>1, ZenonT(60) DEF R
  <2>4. << <<x, a>>, <<y, b>> >> \in Seq(R)
    BY <2>3, SMTT(60)
  <2> QED BY <2>4, ZenonT(60) DEF R
<1>4. \A i \in 1..2 : l[i][1] \in Sectors
  BY <1>1, <1>2, ZenonT(60)
<1>5. \A i, j \in 1..2 : l[i][1] = l[j][1] => i = j
  BY <1>1, <1>2, ZenonT(60)
<1>6. IsLog(l)
  BY <1>1, <1>3, <1>4, <1>5, ZenonT(60) DEF IsLog
<1>7. \A k \in 0..2 : \A j \in 1..k : WriteMade(d, l, k, j)
  BY <1>1, <1>6, AfterHit, ZenonT(60)
<1>8. \A k : \A s \in Sectors :
        (\A j \in 1..k : l[j][1] # s) => After(d, l, k)[s] = d[s]
  BY AfterMiss, SMTT(60)
<1>9. After(d, l, 1)[x] = a
  BY <1>1, <1>2, <1>7, SMTT(60) DEF WriteMade
<1>10. After(d, l, 2)[x] = a /\ After(d, l, 2)[y] = b
  BY <1>1, <1>2, <1>7, SMTT(60) DEF WriteMade
<1>12. ASSUME NEW s \in Sectors \ {x} PROVE After(d, l, 1)[s] = d[s]
  <2>1. \A j \in 1..1 : l[j][1] # s
    BY <1>1, <1>2, ZenonT(60)
  <2> QED BY <1>8, <2>1, ZenonT(60)
<1>13. ASSUME NEW s \in Sectors \ {x, y} PROVE After(d, l, 2)[s] = d[s]
  <2>1. \A j \in 1..2 : l[j][1] # s
    BY <1>1, <1>2, ZenonT(60)
  <2> QED BY <1>8, <2>1, ZenonT(60)
<1> QED BY <1>1, <1>6, <1>9, <1>10, <1>12, <1>13, ZenonT(60) DEF TwoWritten

(* A disk that differs in free sectors, in the map or in a directory has   *)
(* the entries of its directory.                                           *)
LEMMA SameSystem ==
  ASSUME NEW d, Good(d), NEW d2,
         \A s \in {FreeMapSector, DirectorySector} : d2[s] = d[s]
  PROVE  /\ DirSector(d2) = DirSector(d) /\ MapSector(d2) = MapSector(d)
         /\ d2[DirSector(d)] = d[DirSector(d)] => Entries(d2) = Entries(d)
         /\ \A t : d2[DirSector(d)] = DirBlock(t) => Entries(d2) = InUse(t)
<1>1. DirSector(d2) = DirSector(d) /\ MapSector(d2) = MapSector(d)
  <2>1. d2[FreeMapSector] = d[FreeMapSector] /\ d2[DirectorySector] = d[DirectorySector]
    BY ZenonT(60)
  <2> QED BY <2>1, SamePlaces, ZenonT(60)
<1>2. d2[DirSector(d)] = d[DirSector(d)] => Entries(d2) = Entries(d)
  BY <1>1, ZenonT(60) DEF Entries, DirOf
<1>3. ASSUME NEW t, d2[DirSector(d)] = DirBlock(t) PROVE Entries(d2) = InUse(t)
  <2>0. DirBlock(t).dir = t
    BY ZenonT(60) DEF DirBlock
  <2>1. DirOf(d2) = t
    BY <1>1, <1>3, <2>0, ZenonT(60) DEF DirOf
  <2> QED BY <2>1, ZenonT(60) DEF Entries, InUse
<1> QED BY <1>1, <1>2, <1>3, ZenonT(60)

(* Create.                                                                 *)
LEMMA CreateStep ==
  ASSUME NEW d, NEW f, NEW w, AtRest(d, f, w), NEW name \in Names, NEW size \in Nat,
         CanCreate(d, name, size), NEW w2, DOMAIN w2 = Names,
         w2[name] = [i \in 1..size |-> -1], \A m \in Names \ {name} : w2[m] = w[m]
  PROVE  Operation(d, CreateWrites(d, name, size), name, f, w2)
<1>0. Good(d) /\ IsDisk(d)
  BY ZenonT(60) DEF AtRest, Good
<1>1. PICK hs, g, t, m :
        /\ CreateWrites(d, name, size) =
             << <<hs, HdrBlock(<<size, g>>)>>, <<DirSector(d), DirBlock(t)>>,
                <<MapSector(d), MapBlock(m)>> >>
        /\ NewFile(d, name, size, hs, g, t, m)
  BY <1>0, CreateParts, ZenonT(60)
<1> DEFINE l == CreateWrites(d, name, size)
           ds == DirSector(d)
           ms == MapSector(d)
           new == NewEntry(name, hs)
           h == HdrBlock(<<size, g>>)
<1>2. /\ hs \in Sectors /\ hs \notin MapOf(d) /\ {hs, ds, ms} \subseteq Sectors
      /\ hs # ds /\ ds # ms /\ hs # ms
      /\ \A s \in {FreeMapSector, DirectorySector} :
           s \in Sectors /\ s # hs /\ s # ds /\ s # ms
      /\ \A e \in Entries(d) : Used(d, e) \subseteq Sectors \ {hs, ds, ms}
  <2>1. SystemSectors(d) = {FreeMapSector, DirectorySector, ms, ds}
    BY ZenonT(60) DEF SystemSectors
  <2>2. SystemSectors(d) \subseteq MapOf(d) /\ SystemSectors(d) \subseteq Sectors
    BY <1>0, GoodUse, ZenonT(60)
  <2>3. hs \in Sectors /\ hs \notin MapOf(d)
    BY <1>1, ZenonT(60) DEF NewFile
  <2>4. ds # ms /\ \A s \in {FreeMapSector, DirectorySector} : s # ds /\ s # ms
    BY <1>0, ZenonT(60) DEF Good, System
  <2>5. \A e \in Entries(d) : /\ Used(d, e) \subseteq MapOf(d)
                              /\ Used(d, e) \subseteq Sectors
                              /\ Used(d, e) \cap SystemSectors(d) = {}
    BY <1>0, GoodUse, ZenonT(60)
  <2> HIDE DEF ds, ms
  <2>6. \A e \in Entries(d) : Used(d, e) \subseteq Sectors \ {hs, ds, ms}
    BY <2>1, <2>3, <2>5, ZenonT(60)
  <2> QED BY <2>1, <2>2, <2>3, <2>4, <2>6, ZenonT(60)
<1>3. /\ IsLog(l) /\ Len(l) = 3 /\ \A k \in 0..3 : k \in {0, 1, 2, 3}
      /\ After(d, l, 1)[hs] = h
      /\ \A s \in Sectors \ {hs} : After(d, l, 1)[s] = d[s]
      /\ After(d, l, 2)[hs] = h /\ After(d, l, 2)[ds] = DirBlock(t)
      /\ \A s \in Sectors \ {hs, ds} : After(d, l, 2)[s] = d[s]
      /\ After(d, l, 3)[hs] = h /\ After(d, l, 3)[ds] = DirBlock(t)
      /\ After(d, l, 3)[ms] = MapBlock(m)
      /\ \A s \in Sectors \ {hs, ds, ms} : After(d, l, 3)[s] = d[s]
  <2>1. l = << <<hs, h>>, <<ds, DirBlock(t)>>, <<ms, MapBlock(m)>> >>
    BY <1>1, ZenonT(60)
  <2> DEFINE b == DirBlock(t)
             c == MapBlock(m)
  <2> HIDE DEF l, ds, ms, h, b, c
  <2>2. l = << <<hs, h>>, <<ds, b>>, <<ms, c>> >>
    BY <2>1, ZenonT(60) DEF b, c
  <2>3. /\ IsLog(l) /\ Len(l) = 3 /\ \A k \in 0..3 : k \in {0, 1, 2, 3}
        /\ After(d, l, 1)[hs] = h
        /\ \A s \in Sectors \ {hs} : After(d, l, 1)[s] = d[s]
        /\ After(d, l, 2)[hs] = h /\ After(d, l, 2)[ds] = b
        /\ \A s \in Sectors \ {hs, ds} : After(d, l, 2)[s] = d[s]
        /\ After(d, l, 3)[hs] = h /\ After(d, l, 3)[ds] = b
        /\ After(d, l, 3)[ms] = c
        /\ \A s \in Sectors \ {hs, ds, ms} : After(d, l, 3)[s] = d[s]
    BY <1>2, <2>2, SomeWrites, SMTT(60)
  <2> QED BY <2>3, ZenonT(60) DEF b, c
<1> HIDE DEF l
<1>4. After(d, l, 0) = d
  BY <1>0, AfterNone, ZenonT(60)
<1> DEFINE d1 == After(d, l, 1)
           d2 == After(d, l, 2)
           d3 == After(d, l, 3)
<1>5. /\ d1[hs] = h /\ \A s \in Sectors \ {hs} : d1[s] = d[s]
      /\ d2[hs] = h /\ d2[ds] = DirBlock(t) /\ \A s \in Sectors \ {hs, ds} : d2[s] = d[s]
      /\ NewDisk(d, d3, size, hs, g, t, m)
  <2>1. IsDisk(d3)
    BY AfterIsDisk, ZenonT(60)
  <2> QED BY <1>3, <2>1, ZenonT(60) DEF NewDisk
<1> HIDE DEF d1, d2, d3, ds, ms
<1>6. /\ Good(d3) /\ Entries(d3) = Entries(d) \cup {new}
      /\ HeaderOf(d3, new) = <<size, g>>
      /\ \A e \in Entries(d) : e.name # name /\ \A s \in Used(d, e) : d3[s] = d[s]
  <2>1. /\ Good(d) /\ NewFile(d, name, size, hs, g, t, m)
        /\ NewDisk(d, d3, size, hs, g, t, m)
    BY <1>0, <1>1, <1>5, ZenonT(60)
  <2>2. /\ Good(d3) /\ Entries(d3) = Entries(d) \cup {NewEntry(name, hs)}
        /\ HeaderOf(d3, NewEntry(name, hs)) = <<size, g>>
        /\ \A e \in Entries(d) : e.name # name /\ \A s \in Used(d, e) : d3[s] = d[s]
    BY <2>1, CreateGood, SMTT(60)
  <2> QED BY <2>2, ZenonT(60)
<1>7. new.name = name /\ new.sector = hs /\ h.kind = "hdr"
  BY ZenonT(60) DEF NewEntry, HdrBlock
<1>8. AtRest(d3, f, w2)
  <2>1. ASSUME NEW e \in Entries(d) PROVE Holds(d3, w2, e)
    <3>1. Holds(d, w, e) /\ IsHeader(HeaderOf(d, e))
      BY ZenonT(60) DEF AtRest, Good, Headed
    <3>2. e.name \in Names
      <4>1. IsTable(DirOf(d)) /\ e \in InUse(DirOf(d))
        BY <1>0, ZenonT(60) DEF Good, Entries, InUse
      <4> QED BY <4>1, EntryFields, ZenonT(60)
    <3>3. w2[e.name] = w[e.name] /\ \A s \in Used(d, e) : d3[s] = d[s]
      BY <1>6, <3>2, ZenonT(60)
    <3> QED BY <3>1, <3>3, HoldsSame, ZenonT(60)
  <2>2. Holds(d3, w2, new)
    <3>1. \A i \in 1..size : w2[name][i] = -1
      BY ZenonT(60)
    <3>2. DOMAIN w2[name] = 1..size
      BY ZenonT(60)
    <3> DEFINE hh == <<size, g>>
    <3>3. hh[1] = size
      BY SMTT(60)
    <3> HIDE DEF hh
    <3>4. HeaderOf(d3, new) = hh
      BY <1>6, ZenonT(60) DEF hh
    <3> QED BY <1>7, <3>1, <3>2, <3>3, <3>4, ZenonT(60) DEF Holds
  <2>3. \A e \in Entries(d3) : Holds(d3, w2, e)
    BY <1>6, <2>1, <2>2, ZenonT(60)
  <2>4. OpenOK(d3, f)
    <3>1. \A e \in Entries(d) : e \in Entries(d3) /\ HeaderOf(d3, e) = HeaderOf(d, e)
      BY <1>6, SameUse, SMTT(60)
    <3>2. OpenOK(d, f)
      BY ZenonT(60) DEF AtRest
    <3> QED BY <3>1, <3>2, OpenSame, ZenonT(60)
  <2>5. \A n \in {"stdin", "stdout"} : \E e \in Entries(d3) : e.name = n
    BY <1>6, ZenonT(60) DEF AtRest
  <2> QED BY <1>6, <2>3, <2>4, <2>5, ZenonT(60) DEF AtRest
<1>9. \A e \in Entries(d) : Holds(d, w, e)
  BY ZenonT(60) DEF AtRest
<1>10. Kept(d, w2, name)
  <2>1. \A e \in Entries(d) : e \in Entries(d) /\ e.name # name
                              /\ \A s \in Used(d, e) : d[s] = d[s]
    BY <1>6, ZenonT(60)
  <2> QED BY <1>0, <1>9, <2>1, KeptFiles, ZenonT(60)
<1>11. Kept(d1, w2, name)
  <2>1. \A s \in {FreeMapSector, DirectorySector} : d1[s] = d[s]
    BY <1>2, <1>5, ZenonT(60)
  <2>2. d1[ds] = d[ds]
    BY <1>2, <1>5, ZenonT(60)
  <2>3. Entries(d1) = Entries(d)
    BY <1>0, <2>1, <2>2, SameSystem, ZenonT(60) DEF ds
  <2>4. \A e \in Entries(d1) : e \in Entries(d) /\ e.name # name
                               /\ \A s \in Used(d, e) : d1[s] = d[s]
    BY <1>2, <1>5, <1>6, <2>3, ZenonT(60)
  <2> QED BY <1>0, <1>9, <2>4, KeptFiles, ZenonT(60)
<1>12. Kept(d2, w2, name)
  <2>1. \A s \in {FreeMapSector, DirectorySector} : d2[s] = d[s]
    BY <1>2, <1>5, ZenonT(60)
  <2>2. Entries(d2) = InUse(t)
    <3>1. \A u : d2[DirSector(d)] = DirBlock(u) => Entries(d2) = InUse(u)
      BY <1>0, <2>1, SameSystem, SMTT(60)
    <3> QED BY <1>5, <3>1, ZenonT(60) DEF ds
  <2>3. InUse(t) = Entries(d) \cup {new}
    BY <1>1, ZenonT(60) DEF NewFile, Entries, InUse
  <2>5. new.name = name /\ d2[new.sector].kind = "hdr"
    BY <1>5, <1>7, ZenonT(60)
  <2>6. \A e \in Entries(d) : e.name # name /\ \A s \in Used(d, e) : d2[s] = d[s]
    BY <1>2, <1>5, <1>6, ZenonT(60)
  <2> HIDE DEF new
  <2>4. ASSUME NEW e \in Entries(d2)
        PROVE  \/ e.name = name /\ d2[e.sector].kind = "hdr"
               \/ e \in Entries(d) /\ e.name # name /\ \A s \in Used(d, e) : d2[s] = d[s]
    <3>1. CASE e = new
      BY <2>5, <3>1, ZenonT(60)
    <3>2. CASE e \in Entries(d)
      BY <2>6, <3>2, ZenonT(60)
    <3> QED BY <2>2, <2>3, <3>1, <3>2, ZenonT(60)
  <2> QED BY <1>0, <1>9, <2>4, KeptFiles, ZenonT(60)
<1>13. Kept(d3, w2, name)
  BY <1>8, ZenonT(60) DEF AtRest, Good, Headed, Kept
<1>14. \A k \in 0..Len(l) : Kept(After(d, l, k), w2, name)
  BY <1>3, <1>4, <1>10, <1>11, <1>12, <1>13, ZenonT(60) DEF d1, d2, d3
<1>15. AtRest(After(d, l, Len(l)), f, w2)
  BY <1>3, <1>8, ZenonT(60) DEF d3
<1> QED BY <1>0, <1>3, <1>14, <1>15, ZenonT(60) DEF Operation, l

(* Remove.                                                                 *)
LEMMA RemoveStep ==
  ASSUME NEW d, NEW f, NEW w, AtRest(d, f, w), NEW name \in FileNames,
         NEW e \in Entries(d), e.name = name, \A s \in DOMAIN f : f[s].name # name,
         NEW w2, DOMAIN w2 = Names, \A m \in Names \ {name} : w2[m] = w[m]
  PROVE  Operation(d, RemoveWrites(d, name), name, f, w2)
<1>0. Good(d) /\ IsDisk(d) /\ \A g \in Entries(d) : Holds(d, w, g)
  BY ZenonT(60) DEF AtRest, Good
<1>1. PICK t, m : /\ RemoveWrites(d, name) =
                       << <<MapSector(d), MapBlock(m)>>, <<DirSector(d), DirBlock(t)>> >>
                  /\ OldFile(d, e, t, m)
  BY <1>0, RemoveParts, ZenonT(60)
<1> DEFINE l == RemoveWrites(d, name)
           ds == DirSector(d)
           ms == MapSector(d)
<1>2. /\ ms \in Sectors /\ ds \in Sectors /\ ms # ds
      /\ \A s \in {FreeMapSector, DirectorySector} : s \in Sectors /\ s # ds /\ s # ms
      /\ \A g \in Entries(d) : Used(d, g) \subseteq Sectors \ {ds, ms}
  <2>1. SystemSectors(d) = {FreeMapSector, DirectorySector, ms, ds}
    BY ZenonT(60) DEF SystemSectors
  <2>2. SystemSectors(d) \subseteq Sectors
    BY <1>0, GoodUse, ZenonT(60)
  <2>3. ms # ds /\ \A s \in {FreeMapSector, DirectorySector} : s # ds /\ s # ms
    BY <1>0, ZenonT(60) DEF Good, System
  <2>4. \A g \in Entries(d) : /\ Used(d, g) \subseteq Sectors
                              /\ Used(d, g) \cap SystemSectors(d) = {}
    BY <1>0, GoodUse, ZenonT(60)
  <2> HIDE DEF ds, ms
  <2>5. \A g \in Entries(d) : Used(d, g) \subseteq Sectors \ {ds, ms}
    BY <2>1, <2>4, ZenonT(60)
  <2> QED BY <2>1, <2>2, <2>3, <2>5, ZenonT(60)
<1>3. /\ IsLog(l) /\ Len(l) = 2 /\ \A k \in 0..2 : k \in {0, 1, 2}
      /\ \A s \in Sectors \ {ms} : After(d, l, 1)[s] = d[s]
      /\ After(d, l, 2)[ms] = MapBlock(m) /\ After(d, l, 2)[ds] = DirBlock(t)
      /\ \A s \in Sectors \ {ms, ds} : After(d, l, 2)[s] = d[s]
  <2> DEFINE a == MapBlock(m)
             b == DirBlock(t)
  <2>1. l = << <<ms, a>>, <<ds, b>> >>
    BY <1>1, ZenonT(60)
  <2> HIDE DEF l, ds, ms, a, b
  <2>2. /\ IsLog(l) /\ Len(l) = 2 /\ \A k \in 0..2 : k \in {0, 1, 2}
        /\ \A s \in Sectors \ {ms} : After(d, l, 1)[s] = d[s]
        /\ After(d, l, 2)[ms] = a /\ After(d, l, 2)[ds] = b
        /\ \A s \in Sectors \ {ms, ds} : After(d, l, 2)[s] = d[s]
    <3>1. TwoWritten(d, ms, ds, a, b, l)
      BY <1>2, <2>1, TwoWrites, ZenonT(60)
    <3> QED BY <3>1, ZenonT(60) DEF TwoWritten
  <2> QED BY <2>2, ZenonT(60) DEF a, b
<1> HIDE DEF l
<1>4. After(d, l, 0) = d
  BY <1>0, AfterNone, ZenonT(60)
<1> DEFINE d1 == After(d, l, 1)
           d2 == After(d, l, 2)
<1>5. /\ \A s \in Sectors \ {ms} : d1[s] = d[s]
      /\ d2[ms] = MapBlock(m) /\ d2[ds] = DirBlock(t) /\ IsDisk(d2)
      /\ \A s \in Sectors \ {ds, ms} : d2[s] = d[s]
  <2>1. IsDisk(d2)
    BY AfterIsDisk, ZenonT(60)
  <2> QED BY <1>3, <2>1, ZenonT(60)
<1> HIDE DEF d1, d2
<1>6. /\ Good(d2) /\ Entries(d2) = Entries(d) \ {e}
      /\ \A g \in Entries(d) : \A s \in Used(d, g) : d2[s] = d[s]
  BY <1>0, <1>1, <1>5, RemoveGood, SMTT(60)
<1> HIDE DEF ds, ms
<1>7. \A g \in Entries(d) : /\ g.name \in Names /\ (g # e => g.name # name)
                            /\ d[g.sector].kind = "hdr" /\ IsHeader(HeaderOf(d, g))
  <2>1. IsTable(DirOf(d)) /\ Entries(d) = InUse(DirOf(d))
    BY <1>0, ZenonT(60) DEF Good, Entries, InUse
  <2>2. \A g \in Entries(d) : g.name \in Names /\ (g.name = e.name => g = e)
    <3> SUFFICES ASSUME NEW g \in Entries(d)
                 PROVE  g.name \in Names /\ (g.name = e.name => g = e)
      BY ZenonT(60)
    <3>1. g \in InUse(DirOf(d)) /\ e \in InUse(DirOf(d))
      BY <2>1, ZenonT(60)
    <3>2. g.name \in Names
      BY <2>1, <3>1, EntryFields, ZenonT(60)
    <3>3. g.name = e.name => g = e
      BY <2>1, <3>1, NamesDiffer, ZenonT(60)
    <3> QED BY <3>2, <3>3, ZenonT(60)
  <2>3. \A g \in Entries(d) : d[g.sector].kind = "hdr" /\ IsHeader(HeaderOf(d, g))
    BY <1>0, ZenonT(60) DEF Good, Headed
  <2> QED BY <2>2, <2>3, ZenonT(60)
<1>8. AtRest(d2, f, w2)
  <2>1. ASSUME NEW g \in Entries(d2) PROVE Holds(d2, w2, g)
    <3>1. g \in Entries(d) /\ g # e
      BY <1>6, ZenonT(60)
    <3>2. Holds(d, w, g) /\ IsHeader(HeaderOf(d, g)) /\ w2[g.name] = w[g.name]
      BY <1>0, <1>7, <3>1, ZenonT(60)
    <3>3. \A s \in Used(d, g) : d2[s] = d[s]
      BY <1>6, <3>1, ZenonT(60)
    <3> QED BY <3>2, <3>3, HoldsSame, ZenonT(60)
  <2>2. OpenOK(d2, f)
    <3>1. \A g \in Entries(d) : HeaderOf(d2, g) = HeaderOf(d, g)
      BY <1>6, SameUse, SMTT(60)
    <3>2. ASSUME NEW g \in Entries(d)
          PROVE  \/ g \in Entries(d2) /\ HeaderOf(d2, g) = HeaderOf(d, g)
                 \/ \A s \in DOMAIN f : f[s].name # g.name
      <4>1. CASE g = e
        BY <4>1, ZenonT(60)
      <4>2. CASE g # e
        BY <1>6, <3>1, <4>2, ZenonT(60)
      <4> QED BY <4>1, <4>2, ZenonT(60)
    <3>3. OpenOK(d, f)
      BY ZenonT(60) DEF AtRest
    <3> QED BY <3>2, <3>3, OpenSame, ZenonT(60)
  <2>3. \A n \in {"stdin", "stdout"} : \E g \in Entries(d2) : g.name = n
    <3>1. name \notin {"stdin", "stdout"}
      BY FileSysAssumption, ZenonT(60)
    <3>2. ASSUME NEW n \in {"stdin", "stdout"} PROVE \E g \in Entries(d2) : g.name = n
      <4>1. PICK g \in Entries(d) : g.name = n
        BY ZenonT(60) DEF AtRest
      <4>2. g # e
        BY <3>1, <4>1, ZenonT(60)
      <4> QED BY <1>6, <4>1, <4>2, ZenonT(60)
    <3> QED BY <3>2, ZenonT(60)
  <2> QED BY <1>6, <2>1, <2>2, <2>3, ZenonT(60) DEF AtRest
<1>10. Kept(d, w2, name)
  <2>1. \A g \in Entries(d) :
          \/ g.name = name /\ d[g.sector].kind = "hdr"
          \/ g \in Entries(d) /\ g.name # name /\ \A s \in Used(d, g) : d[s] = d[s]
    BY <1>7, ZenonT(60)
  <2> QED BY <1>0, <2>1, KeptFiles, ZenonT(60)
<1>11. Kept(d1, w2, name)
  <2>1. \A s \in {FreeMapSector, DirectorySector} : d1[s] = d[s]
    BY <1>2, <1>5, ZenonT(60)
  <2>2. d1[ds] = d[ds]
    BY <1>2, <1>5, ZenonT(60)
  <2>3. Entries(d1) = Entries(d)
    BY <1>0, <2>1, <2>2, SameSystem, ZenonT(60) DEF ds
  <2>5. \A g \in Entries(d) : \A s \in Used(d, g) : d1[s] = d[s]
    BY <1>2, <1>5, ZenonT(60)
  <2>6. \A g \in Entries(d) : d1[g.sector] = d[g.sector]
    BY <2>5, ZenonT(60) DEF Used
  <2>4. ASSUME NEW g \in Entries(d1)
        PROVE  \/ g.name = name /\ d1[g.sector].kind = "hdr"
               \/ g \in Entries(d) /\ g.name # name /\ \A s \in Used(d, g) : d1[s] = d[s]
    <3>1. g \in Entries(d)
      BY <2>3, ZenonT(60)
    <3>2. CASE g = e
      BY <1>7, <2>6, <3>1, <3>2, ZenonT(60)
    <3>3. CASE g # e
      BY <1>7, <2>5, <3>1, <3>3, ZenonT(60)
    <3> QED BY <3>2, <3>3, ZenonT(60)
  <2> QED BY <1>0, <2>4, KeptFiles, ZenonT(60)
<1>12. Kept(d2, w2, name)
  BY <1>8, ZenonT(60) DEF AtRest, Good, Headed, Kept
<1>14. \A k \in 0..Len(l) : Kept(After(d, l, k), w2, name)
  BY <1>3, <1>4, <1>10, <1>11, <1>12, ZenonT(60) DEF d1, d2
<1>15. AtRest(After(d, l, Len(l)), f, w2)
  BY <1>3, <1>8, ZenonT(60) DEF d2
<1> QED BY <1>0, <1>3, <1>14, <1>15, ZenonT(60) DEF Operation, l

(* The history after c bytes were written to a file from pos on.           *)
Rewritten(w, w2, name, bytes, pos, c) ==
  /\ DOMAIN w2 = Names
  /\ w2[name] = [i \in DOMAIN w[name] |-> IF i \in (pos + 1)..(pos + c)
                                          THEN bytes[i - pos] ELSE w[name][i]]
  /\ \A m \in Names \ {name} : w2[m] = w[m]

(* OpenFile::Write.                                                        *)
LEMMA WriteStep ==
  ASSUME NEW d, NEW f, NEW w, AtRest(d, f, w), NEW e \in Entries(d),
         NEW S, NEW bytes \in Seq(S), NEW pos \in Nat,
         NEW c, c = Clip(HeaderOf(d, e), Len(bytes), pos),
         NEW f2, OpenOK(d, f2), NEW w2, Rewritten(w, w2, e.name, bytes, pos, c)
  PROVE  Operation(d, WriteAt(d, HeaderOf(d, e), bytes, pos), e.name, f2, w2)
<1> DEFINE h == HeaderOf(d, e)
           l == WriteAt(d, h, bytes, pos)
           Byt(dd, a) == Contents(dd[ByteToSector(h, a)])[1 + (a % SectorSize)]
<1>0. Good(d) /\ IsDisk(d) /\ IsHeader(h) /\ h[1] \in Nat
      /\ \A g \in Entries(d) : Holds(d, w, g)
  BY ZenonT(60) DEF AtRest, Good, Headed, IsHeader
<1>1. /\ IsLog(l) /\ c \in Nat
      /\ \A k \in 0..Len(l) :
           \A s \in Sectors \ Range(h[2]) : After(d, l, k)[s] = d[s]
      /\ \A a \in 0..(h[1] - 1) :
           Byt(After(d, l, Len(l)), a)
             = IF a \in pos..(pos + c - 1) THEN bytes[1 + a - pos] ELSE Byt(d, a)
  <2> HIDE DEF h, l
  <2>1. c = Clip(h, Len(bytes), pos) /\ l = WriteAt(d, h, bytes, pos)
    BY ZenonT(60) DEF h, l
  <2> QED BY <1>0, <2>1, WriteFile, SMTT(60)
<1>2. \A g \in Entries(d) : /\ g.name \in Names /\ (g # e => g.name # e.name)
                            /\ d[g.sector].kind = "hdr" /\ IsHeader(HeaderOf(d, g))
  <2>1. IsTable(DirOf(d)) /\ Entries(d) = InUse(DirOf(d))
    BY <1>0, ZenonT(60) DEF Good, Entries, InUse
  <2>2. \A g \in Entries(d) : g.name \in Names /\ (g.name = e.name => g = e)
    <3> SUFFICES ASSUME NEW g \in Entries(d)
                 PROVE  g.name \in Names /\ (g.name = e.name => g = e)
      BY ZenonT(60)
    <3>1. g \in InUse(DirOf(d)) /\ e \in InUse(DirOf(d))
      BY <2>1, ZenonT(60)
    <3>2. g.name \in Names
      BY <2>1, <3>1, EntryFields, ZenonT(60)
    <3>3. g.name = e.name => g = e
      BY <2>1, <3>1, NamesDiffer, ZenonT(60)
    <3> QED BY <3>2, <3>3, ZenonT(60)
  <2>3. \A g \in Entries(d) : d[g.sector].kind = "hdr" /\ IsHeader(HeaderOf(d, g))
    BY <1>0, ZenonT(60) DEF Good, Headed
  <2> QED BY <2>2, <2>3, ZenonT(60)
<1> HIDE DEF l
<1>3. ASSUME NEW k \in 0..Len(l)
      PROVE  /\ Good(After(d, l, k)) /\ Entries(After(d, l, k)) = Entries(d)
             /\ After(d, l, k)[e.sector] = d[e.sector]
             /\ HeaderOf(After(d, l, k), e) = h
             /\ \A g \in Entries(d) : g # e => \A s \in Used(d, g) : After(d, l, k)[s] = d[s]
  <2> DEFINE d2 == After(d, l, k)
  <2>1. IsDisk(d2)
    BY AfterIsDisk, ZenonT(60)
  <2>2. \A s \in Sectors \ Range(HeaderOf(d, e)[2]) : d2[s] = d[s]
    BY <1>1, ZenonT(60)
  <2> HIDE DEF d2
  <2>3. /\ Good(d2) /\ Entries(d2) = Entries(d)
        /\ d2[e.sector] = d[e.sector] /\ HeaderOf(d2, e) = HeaderOf(d, e)
        /\ \A g \in Entries(d) : g # e => \A s \in Used(d, g) : d2[s] = d[s]
    BY <1>0, <2>1, <2>2, DataGood, SMTT(60)
  <2> QED BY <2>3, ZenonT(60) DEF d2
<1>4. ASSUME NEW k \in 0..Len(l) PROVE Kept(After(d, l, k), w2, e.name)
  <2> DEFINE d2 == After(d, l, k)
             n == e.name
  <2>1. /\ Entries(d2) = Entries(d) /\ d2[e.sector] = d[e.sector]
        /\ \A g \in Entries(d) : g # e => \A s \in Used(d, g) : d2[s] = d[s]
    BY <1>3, ZenonT(60)
  <2> HIDE DEF d2
  <2>2. ASSUME NEW g \in Entries(d2)
        PROVE  \/ g.name = n /\ d2[g.sector].kind = "hdr"
               \/ g \in Entries(d) /\ g.name # n /\ \A s \in Used(d, g) : d2[s] = d[s]
    <3>1. CASE g = e
      BY <1>2, <2>1, <3>1, ZenonT(60)
    <3>2. CASE g # e
      BY <1>2, <2>1, <3>2, ZenonT(60)
    <3> QED BY <3>1, <3>2, ZenonT(60)
  <2>3. \A m \in Names \ {n} : w2[m] = w[m]
    BY ZenonT(60) DEF Rewritten
  <2> HIDE DEF n
  <2>4. Kept(d2, w2, n)
    BY <1>0, <2>2, <2>3, KeptFiles, ZenonT(60)
  <2> QED BY <2>4, ZenonT(60) DEF d2, n
<1>5. Len(l) \in 0..Len(l)
  <2>1. Len(l) \in Nat
    BY <1>1, SMTT(60) DEF IsLog
  <2> QED BY <2>1, SMTT(60)
<1> DEFINE d2 == After(d, l, Len(l))
<1>6. /\ Good(d2) /\ Entries(d2) = Entries(d) /\ HeaderOf(d2, e) = h
      /\ \A g \in Entries(d) : g # e => \A s \in Used(d, g) : d2[s] = d[s]
      /\ \A a \in 0..(h[1] - 1) :
           Byt(d2, a) = IF a \in pos..(pos + c - 1) THEN bytes[1 + a - pos] ELSE Byt(d, a)
  BY <1>1, <1>3, <1>5, ZenonT(60)
<1> HIDE DEF d2
<1>7. Holds(d2, w2, e)
  <2>1. /\ DOMAIN w[e.name] = 1..h[1]
        /\ \A i \in 1..h[1] : w[e.name][i] # -1 => Byt(d, i - 1) = w[e.name][i]
    BY <1>0, ZenonT(60) DEF Holds
  <2>2. /\ DOMAIN w2[e.name] = 1..h[1]
        /\ \A i \in 1..h[1] :
             w2[e.name][i] = IF i \in (pos + 1)..(pos + c) THEN bytes[i - pos]
                             ELSE w[e.name][i]
    BY <2>1, ZenonT(60) DEF Rewritten
  <2>3. ASSUME NEW i \in 1..h[1], w2[e.name][i] # -1
        PROVE  Byt(d2, i - 1) = w2[e.name][i]
    <3> DEFINE size == h[1]
    <3>0. size \in Nat /\ i \in 1..size
      BY <1>0, ZenonT(60)
    <3> HIDE DEF size
    <3>1. /\ i - 1 \in 0..(size - 1) /\ 1 + (i - 1) - pos = i - pos
          /\ i - 1 \in pos..(pos + c - 1) <=> i \in (pos + 1)..(pos + c)
      BY <1>1, <3>0, SMTT(60)
    <3>2. Byt(d2, i - 1) =
            IF i - 1 \in pos..(pos + c - 1) THEN bytes[1 + (i - 1) - pos] ELSE Byt(d, i - 1)
      BY <1>6, <3>1, ZenonT(60) DEF size
    <3> HIDE DEF Byt
    <3>3. CASE i \in (pos + 1)..(pos + c)
      BY <2>2, <3>1, <3>2, <3>3, ZenonT(60)
    <3>4. CASE i \notin (pos + 1)..(pos + c)
      <4>1. w[e.name][i] # -1 /\ w2[e.name][i] = w[e.name][i]
        BY <2>2, <2>3, <3>4, ZenonT(60)
      <4> QED BY <2>1, <3>1, <3>2, <3>4, <4>1, ZenonT(60)
    <3> QED BY <3>3, <3>4, ZenonT(60)
  <2> QED BY <1>0, <1>6, <2>2, <2>3, ZenonT(60) DEF Holds
<1>8. ASSUME NEW g \in Entries(d2) PROVE Holds(d2, w2, g)
  <2>1. CASE g = e
    BY <1>7, <2>1, ZenonT(60)
  <2>2. CASE g # e
    <3>1. g \in Entries(d) /\ \A s \in Used(d, g) : d2[s] = d[s]
      BY <1>6, <2>2, ZenonT(60)
    <3>2. Holds(d, w, g) /\ IsHeader(HeaderOf(d, g)) /\ w2[g.name] = w[g.name]
      BY <1>0, <1>2, <2>2, <3>1, ZenonT(60) DEF Rewritten
    <3> QED BY <3>1, <3>2, HoldsSame, ZenonT(60)
  <2> QED BY <2>1, <2>2, ZenonT(60)
<1>9. OpenOK(d2, f2)
  <2>1. \A g \in Entries(d) : g # e => HeaderOf(d2, g) = HeaderOf(d, g)
    BY <1>6, SameUse, SMTT(60)
  <2>2. \A g \in Entries(d) : g \in Entries(d2) /\ HeaderOf(d2, g) = HeaderOf(d, g)
    BY <1>6, <2>1, ZenonT(60)
  <2> QED BY <2>2, OpenSame, ZenonT(60)
<1>10. \A n \in {"stdin", "stdout"} : \E g \in Entries(d2) : g.name = n
  BY <1>6, ZenonT(60) DEF AtRest
<1>11. AtRest(d2, f2, w2)
  BY <1>6, <1>8, <1>9, <1>10, ZenonT(60) DEF AtRest, Rewritten
<1> QED BY <1>0, <1>1, <1>4, <1>11, ZenonT(60) DEF Operation, d2, l

(* The file an open file names.                                            *)
LEMMA FoundIsOpened ==
  ASSUME NEW d, Good(d), NEW name, Find(DirOf(d), name) # -1
  PROVE  Opened(d, [hdr |-> d[Find(DirOf(d), name)].hdr, name |-> name, pos |-> 0])
<1> DEFINE x == Find(DirOf(d), name)
           f == [hdr |-> d[x].hdr, name |-> name, pos |-> 0]
<1>1. IsTable(DirOf(d)) /\ Entries(d) = InUse(DirOf(d))
  BY ZenonT(60) DEF Good, Entries, InUse
<1>2. PICK e \in InUse(DirOf(d)) : e.name = name
  BY <1>1, FoundEntry, ZenonT(60)
<1>3. x = e.sector
  BY <1>1, <1>2, FindSector, ZenonT(60)
<1> HIDE DEF x
<1>4. f.hdr = d[x].hdr /\ f.name = name /\ f.pos = 0
  BY ZenonT(60)
<1>5. f = [hdr |-> f.hdr, name |-> f.name, pos |-> f.pos]
  BY <1>4, ZenonT(60)
<1>6. 0 \in Nat
  BY SMTT(60)
<1>7. e \in Entries(d) /\ e.name = f.name /\ HeaderOf(d, e) = f.hdr
  BY <1>1, <1>2, <1>3, <1>4, ZenonT(60) DEF HeaderOf
<1> HIDE DEF f
<1>8. Opened(d, f)
  BY <1>4, <1>5, <1>6, <1>7, ZenonT(60) DEF Opened
<1> QED BY <1>8, ZenonT(60) DEF f, x

(* A file that is open at another position.                                *)
LEMMA MovedIsOpened ==
  ASSUME NEW d, NEW f, OpenOK(d, f), NEW s \in DOMAIN f, f[s] # NoFile,
         NEW p \in Nat, NEW f2, f2 = [f EXCEPT ![s].pos = p]
  PROVE  OpenOK(d, f2)
<1>1. DOMAIN f = 0..(NumSlots - 1)
  BY ZenonT(60) DEF OpenOK
<1>2. Opened(d, f[s])
  BY <1>1, ZenonT(60) DEF OpenOK
<1> DEFINE g == f[s]
           g2 == [g EXCEPT !.pos = p]
<1>3. f2 = [t \in 0..(NumSlots - 1) |-> f2[t]] /\ f2[s] = g2
      /\ \A t \in 0..(NumSlots - 1) : t # s => f2[t] = f[t]
  BY <1>1, ZenonT(60)
<1>4. Opened(d, g)
  BY <1>2, ZenonT(60)
<1> HIDE DEF g
<1>5. g = [hdr |-> g.hdr, name |-> g.name, pos |-> g.pos]
  BY <1>4, ZenonT(60) DEF Opened
<1>6. g2 = [hdr |-> g.hdr, name |-> g.name, pos |-> p]
  <2> DEFINE a == g.hdr
             b == g.name
             c == g.pos
  <2>1. g = [hdr |-> a, name |-> b, pos |-> c]
    BY <1>5, ZenonT(60)
  <2> HIDE DEF a, b, c
  <2>2. g2 = [hdr |-> a, name |-> b, pos |-> p]
    BY <2>1, SMTT(60)
  <2> QED BY <2>2, ZenonT(60) DEF a, b
<1>7. g2.hdr = g.hdr /\ g2.name = g.name /\ g2.pos = p
  BY <1>6, ZenonT(60)
<1>8. g2 = [hdr |-> g2.hdr, name |-> g2.name, pos |-> g2.pos]
  BY <1>6, <1>7, ZenonT(60)
<1> HIDE DEF g2
<1>9. Opened(d, g2)
  BY <1>4, <1>7, <1>8, ZenonT(60) DEF Opened
<1>10. ASSUME NEW t \in 0..(NumSlots - 1) PROVE f2[t] = NoFile \/ Opened(d, f2[t])
  <2>1. CASE t = s
    BY <1>3, <1>9, <2>1, ZenonT(60)
  <2>2. CASE t # s
    BY <1>3, <2>2, ZenonT(60) DEF OpenOK
  <2> QED BY <2>1, <2>2, ZenonT(60)
<1> QED BY <1>3, <1>10, ZenonT(60) DEF OpenOK

(* Steps that write nothing to the disk.                                   *)
LEMMA RestStep ==
  ASSUME FInv, log = <<>>, UNCHANGED <<disk, log, written>>, OpenOK(disk, openf')
  PROVE  FInv'
<1>1. AtRest(disk, openf, written)
  BY Rest, ZenonT(60) DEF FInv
<1>2. AtRest(disk, openf', written)
  BY <1>1, ZenonT(60) DEF AtRest
<1>3. Operation(disk, <<>>, working', openf', written)
  BY <1>2, Rest, ZenonT(60)
<1>4. disk' = disk /\ log' = <<>> /\ written' = written
  BY ZenonT(60)
<1> QED BY <1>3, <1>4, ZenonT(60) DEF FInv

(* The constructor that finds the files.                                   *)
LEMMA RestartStep == FInv /\ Restart => FInv'
<1> SUFFICES ASSUME FInv, Restart PROVE FInv'
  BY ZenonT(60)
<1>1. log = <<>> /\ UNCHANGED <<disk, log, written>>
  BY ZenonT(60) DEF Restart, Ready
<1>2. AtRest(disk, openf, written)
  BY <1>1, Rest, ZenonT(60) DEF FInv
<1>3. Good(disk) /\ DOMAIN openf = 0..(NumSlots - 1)
  BY <1>2, ZenonT(60) DEF AtRest, OpenOK
<1> DEFINE std(name) == [hdr |-> disk[Find(DirOf(disk), name)].hdr, name |-> name,
                         pos |-> 0]
<1>4. ASSUME NEW name \in {"stdin", "stdout"} PROVE Opened(disk, std(name))
  <2>1. PICK e \in Entries(disk) : e.name = name
    BY <1>2, ZenonT(60) DEF AtRest
  <2>2. IsTable(DirOf(disk)) /\ e \in InUse(DirOf(disk))
    BY <1>3, ZenonT(60) DEF Good, Entries, InUse
  <2>3. Find(DirOf(disk), name) # -1
    BY <2>1, <2>2, FindSector, ZenonT(60)
  <2> QED BY <1>3, <2>3, FoundIsOpened, ZenonT(60)
<1>5. Opened(disk, std("stdin")) /\ Opened(disk, std("stdout"))
  BY <1>4, ZenonT(60)
<1>6. openf' = [s \in DOMAIN openf |-> CASE s \in {0, 2} -> std("stdin")
                                         [] s \in {1, 3} -> std("stdout")
                                         [] OTHER -> NoFile]
  BY ZenonT(60) DEF Restart
<1> DEFINE a == std("stdin")
           b == std("stdout")
           c == NoFile
<1>7. Opened(disk, a) /\ Opened(disk, b)
  BY <1>5, ZenonT(60)
<1>8. openf' = [s \in 0..(NumSlots - 1) |-> CASE s \in {0, 2} -> a
                                              [] s \in {1, 3} -> b
                                              [] OTHER -> c]
  BY <1>3, <1>6, ZenonT(60)
<1> HIDE DEF a, b, c
<1>9. /\ openf' = [s \in 0..(NumSlots - 1) |-> openf'[s]]
      /\ \A s \in 0..(NumSlots - 1) : openf'[s] = a \/ openf'[s] = b \/ openf'[s] = c
  BY <1>8, SMTT(60)
<1>10. OpenOK(disk, openf')
  BY <1>7, <1>9, ZenonT(60) DEF OpenOK, c
<1> QED BY <1>1, <1>10, RestStep, ZenonT(60)

(* Open in a free slot.                                                    *)
LEMMA OpenStep ==
  ASSUME FInv, NEW name \in FileNames, OpenType(name)
  PROVE  FInv'
<1>1. log = <<>> /\ UNCHANGED <<disk, log, written>>
  BY ZenonT(60) DEF OpenType, Ready
<1>2. AtRest(disk, openf, written)
  BY <1>1, Rest, ZenonT(60) DEF FInv
<1>3. Good(disk) /\ OpenOK(disk, openf) /\ DOMAIN openf = 0..(NumSlots - 1)
  BY <1>2, ZenonT(60) DEF AtRest, OpenOK
<1> DEFINE x == FindFreeSlot
           f == [hdr |-> disk[Find(DirOf(disk), name)].hdr, name |-> name, pos |-> 0]
<1>4. Opened(disk, f)
  <2>1. Find(DirOf(disk), name) # -1
    BY ZenonT(60) DEF OpenType
  <2> QED BY <1>3, <2>1, FoundIsOpened, ZenonT(60)
<1>5. openf' = [openf EXCEPT ![x] = f]
  BY ZenonT(60) DEF OpenType
<1> HIDE DEF x, f
<1>6. /\ openf' = [s \in 0..(NumSlots - 1) |-> openf'[s]]
      /\ \A s \in 0..(NumSlots - 1) : openf'[s] = f \/ openf'[s] = openf[s]
  BY <1>3, <1>5, ZenonT(60)
<1>7. OpenOK(disk, openf')
  BY <1>3, <1>4, <1>6, ZenonT(60) DEF OpenOK
<1> QED BY <1>1, <1>7, RestStep, ZenonT(60)

(* Read moves the position.                                                *)
LEMMA ReadStep ==
  ASSUME FInv, NEW s \in DOMAIN openf, NEW len \in Nat, ReadSlot(s, len)
  PROVE  FInv'
<1>1. log = <<>> /\ UNCHANGED <<disk, log, written>> /\ openf[s] # NoFile
  BY ZenonT(60) DEF ReadSlot, Ready
<1>2. AtRest(disk, openf, written)
  BY <1>1, Rest, ZenonT(60) DEF FInv
<1>3. Good(disk) /\ OpenOK(disk, openf) /\ DOMAIN openf = 0..(NumSlots - 1)
  BY <1>2, ZenonT(60) DEF AtRest, OpenOK
<1>4. Opened(disk, openf[s])
  BY <1>1, <1>3, ZenonT(60) DEF OpenOK
<1> DEFINE h == openf[s].hdr
           pos == openf[s].pos
           p == pos + Clip(h, len, pos)
<1>5. pos \in Nat /\ IsHeader(h)
  BY <1>3, <1>4, ZenonT(60) DEF Opened, Good, Headed
<1>6. p \in Nat
  <2>1. h[1] \in Nat
    BY <1>5, ZenonT(60) DEF IsHeader
  <2> HIDE DEF h, pos
  <2>2. Clip(h, len, pos) \in Nat
    BY <1>5, <2>1, ClipFacts, ZenonT(60)
  <2> QED BY <1>5, <2>2, SMTT(60)
<1>7. openf' = [openf EXCEPT ![s].pos = p]
  BY ZenonT(60) DEF ReadSlot
<1> HIDE DEF p
<1>8. OpenOK(disk, openf')
  BY <1>1, <1>3, <1>6, <1>7, MovedIsOpened, ZenonT(60)
<1> QED BY <1>1, <1>8, RestStep, ZenonT(60)

(* Seek moves it too.                                                      *)
LEMMA SeekStep ==
  ASSUME FInv, NEW s \in DOMAIN openf, NEW p \in Nat, Seek(s, p)
  PROVE  FInv'
<1>1. /\ log = <<>> /\ UNCHANGED <<disk, log, written>> /\ openf[s] # NoFile
      /\ openf' = [openf EXCEPT ![s].pos = p]
  BY ZenonT(60) DEF Seek, Ready
<1>2. AtRest(disk, openf, written)
  BY <1>1, Rest, ZenonT(60) DEF FInv
<1>3. OpenOK(disk, openf)
  BY <1>2, ZenonT(60) DEF AtRest
<1>4. OpenOK(disk, openf')
  BY <1>1, <1>3, MovedIsOpened, ZenonT(60)
<1> QED BY <1>1, <1>4, RestStep, ZenonT(60)

(* FileSystem::Create: successful, refused, or of a file too large for a   *)
(* header.                                                                 *)
LEMMA CreateFileStep ==
  ASSUME FInv, NEW name \in FileNames, NEW size \in Sizes, Create(name, size)
  PROVE  FInv'
<1>0. name \in Names /\ size \in Nat
  BY FileSysAssumption, ZenonT(60) DEF Names
<1>1. log = <<>> /\ disk' = disk /\ openf' = openf /\ working' = name
  BY ZenonT(60) DEF Create, Ready
<1>2. AtRest(disk, openf, written)
  BY <1>1, Rest, ZenonT(60) DEF FInv
<1>3. CASE CanCreate(disk, name, size) /\ FitsHeader(size)
  <2> DEFINE v == [i \in 1..size |-> -1]
  <2>1. log' = CreateWrites(disk, name, size) /\ written' = [written EXCEPT ![name] = v]
    BY <1>3, ZenonT(60) DEF Create
  <2>2. DOMAIN written = Names
    BY <1>2, ZenonT(60) DEF AtRest
  <2>3. /\ DOMAIN written' = Names /\ written'[name] = v
        /\ \A m \in Names \ {name} : written'[m] = written[m]
    BY <1>0, <2>1, <2>2, ZenonT(60)
  <2>4. Operation(disk, CreateWrites(disk, name, size), name, openf, written')
    BY <1>0, <1>2, <1>3, <2>3, CreateStep, ZenonT(60)
  <2> QED BY <1>1, <2>1, <2>4, ZenonT(60) DEF FInv
<1>4. CASE ~(CanCreate(disk, name, size) /\ FitsHeader(size))
  <2>1. UNCHANGED <<disk, log, written>>
    BY <1>1, <1>4, ZenonT(60) DEF Create
  <2>2. OpenOK(disk, openf')
    BY <1>1, <1>2, ZenonT(60) DEF AtRest
  <2> QED BY <1>1, <2>1, <2>2, RestStep, ZenonT(60)
<1> QED BY <1>3, <1>4, ZenonT(60)

(* FileSystem::Remove, successful or not.                                  *)
LEMMA RemoveFileStep ==
  ASSUME FInv, NEW name \in FileNames, RemoveFile(name)
  PROVE  FInv'
<1>0. name \in Names
  BY ZenonT(60) DEF Names
<1>1. /\ log = <<>> /\ disk' = disk /\ openf' = openf /\ working' = name
      /\ \A s \in DOMAIN openf : openf[s].name # name
  BY ZenonT(60) DEF RemoveFile, Ready
<1>2. AtRest(disk, openf, written)
  BY <1>1, Rest, ZenonT(60) DEF FInv
<1>3. CASE Find(DirOf(disk), name) # -1
  <2>1. log' = RemoveWrites(disk, name) /\ written' = [written EXCEPT ![name] = <<>>]
    BY <1>3, ZenonT(60) DEF RemoveFile
  <2>2. DOMAIN written = Names /\ Good(disk)
    BY <1>2, ZenonT(60) DEF AtRest
  <2>3. /\ DOMAIN written' = Names
        /\ \A m \in Names \ {name} : written'[m] = written[m]
    BY <1>0, <2>1, <2>2, ZenonT(60)
  <2>4. PICK e \in Entries(disk) : e.name = name
    <3>1. IsTable(DirOf(disk)) /\ Entries(disk) = InUse(DirOf(disk))
      BY <2>2, ZenonT(60) DEF Good, Entries, InUse
    <3>2. PICK e \in InUse(DirOf(disk)) : e.name = name
      BY <1>3, <3>1, FoundEntry, ZenonT(60)
    <3> QED BY <3>1, <3>2, ZenonT(60)
  <2>5. Operation(disk, RemoveWrites(disk, name), name, openf, written')
    BY <1>1, <1>2, <2>3, <2>4, RemoveStep, ZenonT(60)
  <2> QED BY <1>1, <2>1, <2>5, ZenonT(60) DEF FInv
<1>4. CASE Find(DirOf(disk), name) = -1
  <2>1. UNCHANGED <<disk, log, written>>
    BY <1>1, <1>4, ZenonT(60) DEF RemoveFile
  <2>2. OpenOK(disk, openf')
    BY <1>1, <1>2, ZenonT(60) DEF AtRest
  <2> QED BY <1>1, <2>1, <2>2, RestStep, ZenonT(60)
<1> QED BY <1>3, <1>4, ZenonT(60)

(* OpenFile::Write.                                                        *)
LEMMA WriteSlotStep ==
  ASSUME FInv, NEW s \in DOMAIN openf, NEW S, NEW bytes \in Seq(S), WriteSlot(s, bytes)
  PROVE  FInv'
<1> DEFINE f == openf[s]
           n == Clip(f.hdr, Len(bytes), f.pos)
<1>1. /\ log = <<>> /\ f # NoFile /\ disk' = disk /\ working' = f.name
      /\ log' = WriteAt(disk, f.hdr, bytes, f.pos)
      /\ openf' = [openf EXCEPT ![s].pos = f.pos + n]
      /\ written' = [written EXCEPT ![f.name] =
                       [i \in DOMAIN written[f.name] |->
                          IF i \in (f.pos + 1)..(f.pos + n) THEN bytes[i - f.pos]
                          ELSE written[f.name][i]]]
  BY ZenonT(60) DEF WriteSlot, Ready
<1>2. AtRest(disk, openf, written)
  BY <1>1, Rest, ZenonT(60) DEF FInv
<1>3. Good(disk) /\ OpenOK(disk, openf) /\ DOMAIN written = Names
      /\ DOMAIN openf = 0..(NumSlots - 1)
  BY <1>2, ZenonT(60) DEF AtRest, OpenOK
<1>4. Opened(disk, f)
  BY <1>1, <1>3, ZenonT(60) DEF OpenOK
<1>5. PICK e \in Entries(disk) : e.name = f.name /\ HeaderOf(disk, e) = f.hdr
  BY <1>4, ZenonT(60) DEF Opened
<1>6. f.pos \in Nat /\ n = Clip(HeaderOf(disk, e), Len(bytes), f.pos) /\ n \in Nat
  <2>1. f.pos \in Nat /\ IsHeader(f.hdr)
    BY <1>3, <1>4, <1>5, ZenonT(60) DEF Opened, Good, Headed
  <2>2. Len(bytes) \in Nat
    BY SMTT(60)
  <2>3. n \in Nat
    <3> DEFINE h == f.hdr
               pos == f.pos
    <3>1. h[1] \in Nat /\ pos \in Nat
      BY <2>1, ZenonT(60) DEF IsHeader
    <3> HIDE DEF h, pos
    <3>2. Clip(h, Len(bytes), pos) \in Nat
      BY <2>2, <3>1, ClipFacts, ZenonT(60)
    <3> QED BY <3>2, ZenonT(60) DEF h, pos
  <2> QED BY <1>5, <2>1, <2>3, ZenonT(60)
<1>7. OpenOK(disk, openf')
  <2> DEFINE p == f.pos + n
  <2>1. p \in Nat
    <3> HIDE DEF n, f
    <3> QED BY <1>6, SMTT(60)
  <2>2. openf' = [openf EXCEPT ![s].pos = p]
    BY <1>1, ZenonT(60)
  <2> HIDE DEF p
  <2> QED BY <1>1, <1>3, <2>1, <2>2, MovedIsOpened, ZenonT(60)
<1> DEFINE pos == f.pos
<1>8. e.name \in Names
  <2>1. IsTable(DirOf(disk)) /\ e \in InUse(DirOf(disk))
    BY <1>3, ZenonT(60) DEF Good, Entries, InUse
  <2> QED BY <2>1, EntryFields, ZenonT(60)
<1>9. Rewritten(written, written', e.name, bytes, pos, n)
  <2> DEFINE v == [i \in DOMAIN written[e.name] |->
                     IF i \in (pos + 1)..(pos + n) THEN bytes[i - pos]
                     ELSE written[e.name][i]]
  <2>1. written' = [written EXCEPT ![e.name] = v]
    BY <1>1, <1>5, ZenonT(60)
  <2> HIDE DEF v
  <2>2. /\ DOMAIN written' = Names /\ written'[e.name] = v
        /\ \A m \in Names \ {e.name} : written'[m] = written[m]
    BY <1>3, <1>8, <2>1, ZenonT(60)
  <2> QED BY <2>2, ZenonT(60) DEF v, Rewritten
<1>10. pos \in Nat /\ n = Clip(HeaderOf(disk, e), Len(bytes), pos)
  BY <1>6, ZenonT(60)
<1>11. log' = WriteAt(disk, HeaderOf(disk, e), bytes, pos) /\ working' = e.name
  BY <1>1, <1>5, ZenonT(60)
<1> HIDE DEF pos, n, f
<1>12. Operation(disk, WriteAt(disk, HeaderOf(disk, e), bytes, pos), e.name,
                 openf', written')
  BY <1>2, <1>7, <1>9, <1>10, WriteStep, ZenonT(60)
<1> QED BY <1>1, <1>11, <1>12, ZenonT(60) DEF FInv

(* Every step preserves the invariant.                                     *)
LEMMA FStep == FInv /\ [Next]_vars => FInv'
<1> SUFFICES ASSUME FInv, [Next]_vars PROVE FInv'
  BY ZenonT(60)
<1>1. CASE WriteBack
  <2>1. /\ log # <<>> /\ disk' = WriteSector(disk, Head(log)) /\ log' = Tail(log)
        /\ working' = working /\ openf' = openf /\ written' = written
    BY <1>1, ZenonT(60) DEF WriteBack
  <2>2. Operation(WriteSector(disk, Head(log)), Tail(log), working, openf, written)
    BY <2>1, WriteBackStep, ZenonT(60) DEF FInv
  <2> QED BY <2>1, <2>2, ZenonT(60) DEF FInv
<1>2. CASE Restart
  BY <1>2, RestartStep, ZenonT(60)
<1>3. ASSUME NEW n \in FileNames, NEW size \in Sizes, Create(n, size) PROVE FInv'
  BY <1>3, CreateFileStep, ZenonT(60)
<1>4. ASSUME NEW n \in FileNames, RemoveFile(n) PROVE FInv'
  BY <1>4, RemoveFileStep, ZenonT(60)
<1>5. ASSUME NEW n \in FileNames, OpenType(n) PROVE FInv'
  BY <1>5, OpenStep, ZenonT(60)
<1>6. ASSUME NEW n \in FileNames, OpenByIndex(n) PROVE FInv'
  <2>1. log = <<>> /\ UNCHANGED <<disk, log, written>> /\ openf' = openf
    BY <1>6, ZenonT(60) DEF OpenByIndex, Ready
  <2>2. AtRest(disk, openf, written)
    BY <2>1, Rest, ZenonT(60) DEF FInv
  <2>3. OpenOK(disk, openf')
    BY <2>1, <2>2, ZenonT(60) DEF AtRest
  <2> QED BY <2>1, <2>3, RestStep, ZenonT(60)
<1>7. ASSUME NEW bytes \in Texts PROVE bytes \in Seq(Nat) /\ Len(bytes) \in Nat
  <2>1. bytes \in Seq(Nat)
    BY FileSysAssumption, ZenonT(60)
  <2> QED BY <2>1, SMTT(60)
<1>8. ASSUME NEW s \in DOMAIN openf, NEW bytes \in Texts, ReadSlot(s, Len(bytes))
      PROVE  FInv'
  BY <1>7, <1>8, ReadStep, ZenonT(60)
<1>9. ASSUME NEW s \in DOMAIN openf, NEW bytes \in Texts, WriteSlot(s, bytes)
      PROVE  FInv'
  BY <1>7, <1>9, WriteSlotStep, ZenonT(60)
<1>10. ASSUME NEW s \in DOMAIN openf, NEW position \in Offsets, Seek(s, position)
       PROVE  FInv'
  <2>1. position \in Nat
    BY FileSysAssumption, ZenonT(60)
  <2> QED BY <1>10, <2>1, SeekStep, ZenonT(60)
<1>11. CASE UNCHANGED vars
  <2>1. /\ disk' = disk /\ log' = log /\ working' = working
        /\ openf' = openf /\ written' = written
    BY <1>11, ZenonT(60) DEF vars
  <2> QED BY <2>1, ZenonT(60) DEF FInv
<1> QED BY <1>1, <1>2, <1>3, <1>4, <1>5, <1>6, <1>8, <1>9, <1>10, <1>11,
           ZenonT(60)
        DEF Next

-----------------------------------------------------------------------------
(* The constructor with format.                                            *)

(* A map with a clear bit has one to find.                                 *)
LEMMA SomeClear ==
  ASSUME NEW m, NEW n \in Nat, NEW i \in 0..(n - 1), i \notin m
  PROVE  /\ NumClear(m, n) \in Nat /\ 1 <= NumClear(m, n)
         /\ FindBit(m, n) # -1 /\ FindBit(m, n) \in (0..(n - 1)) \ m
<1> DEFINE C == {j \in 0..(n - 1) : j \notin m}
<1>1. IsFiniteSet(C)
  <2>1. n - 1 \in Int /\ 0 \in Int
    BY SMTT(60)
  <2>2. IsFiniteSet(0..(n - 1))
    BY <2>1, FS_Interval, ZenonT(60)
  <2>3. C \in SUBSET (0..(n - 1))
    BY ZenonT(60)
  <2> HIDE DEF C
  <2> QED BY <2>2, <2>3, FS_Subset, ZenonT(60)
<1>2. NumClear(m, n) = Cardinality(C) /\ C # {}
  BY ZenonT(60) DEF NumClear
<1> HIDE DEF C
<1>3. Cardinality(C) \in Nat /\ Cardinality(C) # 0
  BY <1>1, <1>2, FS_CardinalityType, FS_EmptySet, ZenonT(60)
<1>4. 1 <= Cardinality(C)
  BY <1>3, SMTT(60)
<1>5. FindBit(m, n) \in (0..(n - 1)) \ m
  BY FirstClear, ZenonT(60)
<1>6. \A j \in 0..(n - 1) : j # -1
  BY SMTT(60)
<1> QED BY <1>2, <1>3, <1>4, <1>5, <1>6, ZenonT(60)

(* Allocate gives a file of one sector a free one.                         *)
LEMMA AllocateOne ==
  ASSUME NEW m, NEW i \in Sectors, i \notin m
  PROVE  \E f, a : /\ Allocate(m, SectorSize) = [map |-> m \cup {a}, hdr |-> <<SectorSize, f>>]
                  /\ f[1] = a /\ a \in Sectors \ m
<1> DEFINE f == FindBits(m, NumSectors, 1)
<1>0. NumSectors \in Nat /\ SectorSize \in Nat \ {0}
  BY FileSysAssumption, ZenonT(60)
<1>1. divRoundUp(SectorSize, SectorSize) = 1
  BY <1>0, SmallFiles, ZenonT(60)
<1>2. 1 <= NumClear(m, NumSectors) /\ 1 \in Nat
  <2>1. i \in 0..(NumSectors - 1)
    BY ZenonT(60) DEF Sectors
  <2>2. 1 \in Nat
    BY SMTT(60)
  <2> QED BY <1>0, <2>1, <2>2, SomeClear, ZenonT(60)
<1>3. f \in [1..1 -> (0..(NumSectors - 1)) \ m]
  BY <1>0, <1>2, FindBitsClear, ZenonT(60)
<1>4. 1..1 = {1}
  BY SMTT(60)
<1> HIDE DEF f
<1>5. Range(f) = {f[1]} /\ f[1] \in Sectors \ m
  BY <1>3, <1>4, ZenonT(60) DEF Range, Sectors
<1>6. Allocate(m, SectorSize) = [map |-> m \cup {f[1]}, hdr |-> <<SectorSize, f>>]
  BY <1>1, <1>5, ZenonT(60) DEF Allocate, f
<1> QED BY <1>5, <1>6, ZenonT(60)

(* The disk after the constructor with format: no file, and only the       *)
(* sectors of the map and the directory in use.                            *)
LEMMA FormattedGood ==
  /\ Good(Formatted) /\ Entries(Formatted) = {}
  /\ \E a, b \in Sectors : MapOf(Formatted) = {0, 1, a, b}
<1> DEFINE S == 0..(NumSectors - 1)
           m == Allocate({FreeMapSector, DirectorySector}, SectorSize)
           t == Allocate(m.map, SectorSize)
           tab == [i \in 1..NumDirEntries |-> FreeEntry]
           blank == [s \in S |-> [kind |-> "data", data |-> Blank]]
           d == Formatted
<1>0. NumSectors \in Nat /\ NumSectors >= 6 /\ FreeMapSector = 0 /\ DirectorySector = 1
  BY FileSysAssumption, ZenonT(60) DEF FreeMapSector, DirectorySector
<1>1. 0 \in S /\ 1 \in S /\ 2 \in S /\ 3 \in S /\ 2 \notin {0, 1} /\ 0 # 1
  BY <1>0, SMTT(60)
<1>2. PICK fa, a : /\ m = [map |-> {0, 1} \cup {a}, hdr |-> <<SectorSize, fa>>]
                   /\ fa[1] = a /\ a \in Sectors \ {0, 1}
  BY <1>0, <1>1, AllocateOne, ZenonT(60) DEF Sectors
<1>3. m.map = {0, 1, a} /\ m.hdr = <<SectorSize, fa>>
  <2>1. m.map = {0, 1} \cup {a} /\ m.hdr = <<SectorSize, fa>>
    <3> HIDE DEF m
    <3> QED BY <1>2, SMTT(60)
  <2>2. {0, 1} \cup {a} = {0, 1, a}
    BY ZenonT(60)
  <2> QED BY <2>1, <2>2, ZenonT(60)
<1>4. 2 \notin m.map \/ 3 \notin m.map
  <2>1. 2 # 0 /\ 2 # 1 /\ 3 # 0 /\ 3 # 1 /\ 2 # 3
    BY SMTT(60)
  <2> QED BY <1>3, <2>1, ZenonT(60)
<1>5. PICK fb, b : /\ t = [map |-> m.map \cup {b}, hdr |-> <<SectorSize, fb>>]
                   /\ fb[1] = b /\ b \in Sectors \ m.map
  <2> HIDE DEF m
  <2> QED BY <1>1, <1>4, AllocateOne, ZenonT(60) DEF Sectors
<1>6. t.map = {0, 1, a, b} /\ t.hdr = <<SectorSize, fb>>
  <2>1. t.map = m.map \cup {b} /\ t.hdr = <<SectorSize, fb>>
    <3> HIDE DEF m, t
    <3> QED BY <1>5, SMTT(60)
  <2>2. {0, 1, a} \cup {b} = {0, 1, a, b}
    BY ZenonT(60)
  <2> QED BY <1>3, <2>1, <2>2, ZenonT(60)
<1>7. m.hdr[2][1] = a /\ t.hdr[2][1] = b
  <2>1. <<SectorSize, fa>>[2] = fa /\ <<SectorSize, fb>>[2] = fb
    BY SMTT(60)
  <2> QED BY <1>2, <1>3, <1>5, <1>6, <2>1, ZenonT(60)
<1> DEFINE A == HdrBlock(m.hdr)
           B == HdrBlock(t.hdr)
           C == MapBlock(t.map)
           D == DirBlock(tab)
<1>8. d = [blank EXCEPT ![0] = A, ![1] = B, ![a] = C, ![b] = D]
  BY <1>0, <1>7, ZenonT(60) DEF Formatted
<1>9. a \in S /\ b \in S /\ a # 0 /\ a # 1 /\ b # 0 /\ b # 1 /\ a # b
  BY <1>2, <1>3, <1>5, ZenonT(60) DEF Sectors
<1>10. DOMAIN blank = S
  BY ZenonT(60)
<1> HIDE DEF A, B, C, D, blank, d, S
<1>11. d[0] = A /\ d[1] = B /\ d[a] = C /\ d[b] = D /\ d = [s \in S |-> d[s]]
  <2> DEFINE d1 == [blank EXCEPT ![0] = A]
             d2 == [d1 EXCEPT ![1] = B]
             d3 == [d2 EXCEPT ![a] = C]
             d4 == [d3 EXCEPT ![b] = D]
  <2>1. d = d4
    BY <1>8, ZenonT(60)
  <2>2. DOMAIN d1 = S /\ d1[0] = A
    BY <1>1, <1>10, ZenonT(60)
  <2> HIDE DEF d1
  <2>3. DOMAIN d2 = S /\ d2[0] = A /\ d2[1] = B
    BY <1>1, <2>2, ZenonT(60)
  <2> HIDE DEF d2
  <2>4. DOMAIN d3 = S /\ d3[0] = A /\ d3[1] = B /\ d3[a] = C
    BY <1>1, <1>9, <2>3, ZenonT(60)
  <2> HIDE DEF d3
  <2>5. d4[0] = A /\ d4[1] = B /\ d4[a] = C /\ d4[b] = D /\ d4 = [s \in S |-> d4[s]]
    BY <1>1, <1>9, <2>4, ZenonT(60)
  <2> QED BY <2>1, <2>5, ZenonT(60)
<1>12. MapSector(d) = a /\ DirSector(d) = b
  <2>1. A.hdr = m.hdr /\ B.hdr = t.hdr
    BY ZenonT(60) DEF HdrBlock, A, B
  <2> QED BY <1>0, <1>7, <1>11, <2>1, ZenonT(60) DEF MapSector, DirSector
<1>13. MapOf(d) = {0, 1, a, b} /\ DirOf(d) = tab
  <2>1. C.map = t.map /\ D.dir = tab
    BY ZenonT(60) DEF MapBlock, DirBlock, C, D
  <2> QED BY <1>6, <1>11, <1>12, <2>1, ZenonT(60) DEF MapOf, DirOf
<1>14. IsTable(tab) /\ InUse(tab) = {}
  <2>1. FreeEntry \in Entry /\ ~FreeEntry.inUse
    BY <1>1, ZenonT(60) DEF FreeEntry, Entry, Sectors, S
  <2>2. tab \in [1..NumDirEntries -> Entry] /\ DOMAIN tab = 1..NumDirEntries
        /\ \A i \in 1..NumDirEntries : tab[i] = FreeEntry
    BY <2>1, ZenonT(60)
  <2> HIDE DEF tab
  <2> QED BY <2>1, <2>2, ZenonT(60) DEF IsTable, InUse, Range
<1>15. Entries(d) = {}
  BY <1>13, <1>14, ZenonT(60) DEF Entries, InUse
<1>16. SystemSectors(d) = {0, 1, a, b}
  BY <1>0, <1>12, ZenonT(60) DEF SystemSectors
<1>17. Exact(d)
  <2>1. MapOf(d) \subseteq Sectors
    BY <1>1, <1>9, <1>13, ZenonT(60) DEF Sectors, S
  <2> QED BY <1>13, <1>15, <1>16, <2>1, ZenonT(60) DEF Exact
<1>18. System(d) /\ IsDisk(d)
  BY <1>0, <1>9, <1>11, <1>12, ZenonT(60) DEF System, IsDisk, Sectors, S
<1>19. Good(d)
  BY <1>13, <1>14, <1>15, <1>17, <1>18, ZenonT(60) DEF Good, Headed
<1> QED BY <1>9, <1>13, <1>15, <1>19, ZenonT(60) DEF d, S, Sectors

(* Create's writes, made one after the other.                              *)
LEMMA CreatedDisk ==
  ASSUME NEW d, Good(d), NEW name \in Names, NEW size \in Nat,
         CanCreate(d, name, size)
  PROVE  \E hs, f, t, m : /\ NewFile(d, name, size, hs, f, t, m)
                          /\ NewDisk(d, Created(d, name, size), size, hs, f, t, m)
<1>1. PICK hs, f, t, m :
        /\ CreateWrites(d, name, size) =
             << <<hs, HdrBlock(<<size, f>>)>>, <<DirSector(d), DirBlock(t)>>,
                <<MapSector(d), MapBlock(m)>> >>
        /\ NewFile(d, name, size, hs, f, t, m)
  BY CreateParts, ZenonT(60)
<1> DEFINE ds == DirSector(d)
           ms == MapSector(d)
           A == HdrBlock(<<size, f>>)
           B == DirBlock(t)
           C == MapBlock(m)
           w == CreateWrites(d, name, size)
           d1 == [d EXCEPT ![hs] = A]
           d2 == [d1 EXCEPT ![ds] = B]
           d3 == [d2 EXCEPT ![ms] = C]
<1>2. hs \in Sectors /\ ds \in Sectors /\ ms \in Sectors /\ ds # ms /\ hs # ds /\ hs # ms
  <2>1. hs \in Sectors \ MapOf(d)
    BY <1>1, ZenonT(60) DEF NewFile
  <2>2. ds \in MapOf(d) /\ ms \in MapOf(d)
    BY GoodUse, ZenonT(60) DEF SystemSectors
  <2> QED BY <2>1, <2>2, ZenonT(60) DEF Good, System
<1>3. DOMAIN d = Sectors
  BY ZenonT(60) DEF Good, IsDisk
<1>4. Created(d, name, size) = d3
  <2>1. w = << <<hs, A>>, <<ds, B>>, <<ms, C>> >>
    BY <1>1, ZenonT(60)
  <2> HIDE DEF w, A, B, C, ds, ms
  <2>2. /\ w[1][1] = hs /\ w[1][2] = A /\ w[2][1] = ds /\ w[2][2] = B
        /\ w[3][1] = ms /\ w[3][2] = C
    BY <2>1, SMTT(60)
  <2>3. Created(d, name, size) =
          WriteSector(WriteSector(WriteSector(d, w[1]), w[2]), w[3])
    BY ZenonT(60) DEF Created, w
  <2>4. WriteSector(d, w[1]) = d1
    BY <2>2, ZenonT(60) DEF WriteSector
  <2>5. WriteSector(d1, w[2]) = d2
    BY <2>2, ZenonT(60) DEF WriteSector
  <2>6. WriteSector(d2, w[3]) = d3
    BY <2>2, ZenonT(60) DEF WriteSector
  <2> QED BY <2>3, <2>4, <2>5, <2>6, ZenonT(60)
<1> HIDE DEF A, B, C, ds, ms
<1>5. DOMAIN d1 = Sectors /\ d1[hs] = A /\ \A s \in Sectors \ {hs} : d1[s] = d[s]
  BY <1>2, <1>3, ZenonT(60)
<1> HIDE DEF d1
<1>6. /\ DOMAIN d2 = Sectors /\ d2[hs] = A /\ d2[ds] = B
      /\ \A s \in Sectors \ {hs, ds} : d2[s] = d[s]
  BY <1>2, <1>5, ZenonT(60)
<1> HIDE DEF d2
<1>7. /\ d3 = [s \in Sectors |-> d3[s]] /\ d3[hs] = A /\ d3[ds] = B /\ d3[ms] = C
      /\ \A s \in Sectors \ {hs, ds, ms} : d3[s] = d[s]
  BY <1>2, <1>6, ZenonT(60)
<1> HIDE DEF d3
<1>8. NewDisk(d, d3, size, hs, f, t, m)
  BY <1>7, ZenonT(60) DEF NewDisk, IsDisk, A, B, C, ds, ms
<1> QED BY <1>1, <1>4, <1>8, ZenonT(60)

(* An empty file can be created when there is a place for it in the        *)
(* directory and a sector for its header.                                  *)
LEMMA EmptyFile ==
  ASSUME NEW d, Good(d), NEW name \in Names, NEW i \in Sectors, i \notin MapOf(d),
         \A e \in Entries(d) : e.name # name,
         NEW j \in 1..NumDirEntries, ~DirOf(d)[j].inUse
  PROVE  CanCreate(d, name, 0)
<1> DEFINE m == MapOf(d)
           t == DirOf(d)
           hs == FindBit(m, NumSectors)
<1>0. NumSectors \in Nat /\ SectorSize \in Nat \ {0} /\ i \in 0..(NumSectors - 1)
  BY FileSysAssumption, ZenonT(60) DEF Sectors
<1>1. hs # -1
  BY <1>0, SomeClear, ZenonT(60)
<1>2. IsTable(t) /\ Entries(d) = InUse(t) /\ DOMAIN t = 1..NumDirEntries
  BY ZenonT(60) DEF Good, Entries, InUse, IsTable
<1>3. Find(t, name) = -1
  <2> SUFFICES ASSUME Find(t, name) # -1 PROVE FALSE
    BY ZenonT(60)
  <2> HIDE DEF t
  <2>1. PICK e \in InUse(t) : e.name = name
    BY <1>2, FoundEntry, ZenonT(60)
  <2> QED BY <1>2, <2>1, ZenonT(60)
<1>4. FindIndex(t, name) = -1
  <2> SUFFICES ASSUME FindIndex(t, name) # -1 PROVE FALSE
    BY ZenonT(60)
  <2> DEFINE x == FindIndex(t, name)
  <2> HIDE DEF t
  <2>1. x \in 1..NumDirEntries /\ t[x].inUse /\ t[x].name = name
    <3>1. FoundAt(t, name, x)
      BY <1>2, FoundIndex, ZenonT(60)
    <3> QED BY <3>1, ZenonT(60) DEF FoundAt
  <2>2. t[x] \in InUse(t)
    BY <1>2, <2>1, ZenonT(60) DEF InUse, Range
  <2> QED BY <1>2, <2>1, <2>2, ZenonT(60)
<1>5. CanAdd(t, name)
  BY <1>2, <1>4, ZenonT(60) DEF CanAdd
<1>6. CanAllocate(Mark(m, hs), 0)
  <2> DEFINE n == NumClear(Mark(m, hs), NumSectors)
  <2>1. n \in Nat
    <3>1. n = Cardinality(ClearBefore(Mark(m, hs), NumSectors))
      BY ZenonT(60) DEF NumClear, ClearBefore
    <3>2. Cardinality(ClearBefore(Mark(m, hs), NumSectors)) \in Nat
      BY <1>0, CountStep, ZenonT(60)
    <3> QED BY <3>1, <3>2, ZenonT(60)
  <2>2. divRoundUp(0, SectorSize) = 0
    BY <1>0, SmallFiles, ZenonT(60)
  <2> HIDE DEF n
  <2>3. n >= 0
    BY <2>1, SMTT(60)
  <2> QED BY <2>2, <2>3, ZenonT(60) DEF CanAllocate, n
<1> QED BY <1>1, <1>3, <1>5, <1>6, ZenonT(60) DEF CanCreate

(* d2 is d with an empty file.                                             *)
EmptyAdded(d, d2, name, hs, g) ==
  /\ Good(d2) /\ Entries(d2) = Entries(d) \cup {NewEntry(name, hs)}
  /\ HeaderOf(d2, NewEntry(name, hs)) = <<0, g>> /\ MapOf(d2) = MapOf(d) \cup {hs}
  /\ \A e \in Entries(d) : HeaderOf(d2, e) = HeaderOf(d, e)

(* Create, of an empty file.                                               *)
LEMMA EmptyCreated ==
  ASSUME NEW d, Good(d), NEW name \in Names, CanCreate(d, name, 0)
  PROVE  \E hs, g : hs \in Sectors /\ EmptyAdded(d, Created(d, name, 0), name, hs, g)
<1> DEFINE d2 == Created(d, name, 0)
<1>0. 0 \in Nat /\ 1..0 = {}
  BY SMTT(60)
<1>1. PICK hs, f, t, m : NewFile(d, name, 0, hs, f, t, m) /\ NewDisk(d, d2, 0, hs, f, t, m)
  BY <1>0, CreatedDisk, ZenonT(60)
<1> HIDE DEF d2
<1>2. /\ Good(d2) /\ Entries(d2) = Entries(d) \cup {NewEntry(name, hs)}
      /\ HeaderOf(d2, NewEntry(name, hs)) = <<0, f>>
      /\ \A e \in Entries(d) : e.name # name /\ \A s \in Used(d, e) : d2[s] = d[s]
  BY <1>0, <1>1, CreateGood, SMTT(60)
<1>3. \A e \in Entries(d) : HeaderOf(d2, e) = HeaderOf(d, e)
  BY <1>2, SameUse, SMTT(60)
<1>4. Range(f) = {}
  <2> DEFINE h == <<0, f>>
  <2>1. h[1] = 0 /\ h[2] = f
    BY SMTT(60)
  <2>2. IsHeader(h)
    BY <1>1, ZenonT(60) DEF NewFile
  <2> HIDE DEF h
  <2>3. DOMAIN f = 1..divRoundUp(0, SectorSize)
    BY <2>1, <2>2, ZenonT(60) DEF IsHeader
  <2>4. divRoundUp(0, SectorSize) = 0
    BY FileSysAssumption, SmallFiles, ZenonT(60)
  <2> QED BY <1>0, <2>3, <2>4, ZenonT(60) DEF Range
<1>5. m = MapOf(d) \cup {hs} /\ hs \in Sectors /\ hs \notin MapOf(d)
  BY <1>1, <1>4, ZenonT(60) DEF NewFile
<1>6. MapOf(d2) = m
  <2> DEFINE ms == MapSector(d)
             ds == DirSector(d)
  <2>1. d2[ms] = MapBlock(m) /\ \A s \in Sectors \ {hs, ds, ms} : d2[s] = d[s]
    BY <1>1, ZenonT(60) DEF NewDisk
  <2>2. /\ FreeMapSector \in Sectors \ {hs, ds, ms}
        /\ DirectorySector \in Sectors \ {hs, ds, ms}
    BY <1>5, GoodUse, ZenonT(60) DEF SystemSectors, Good, System
  <2>3. MapSector(d2) = ms
    BY <2>1, <2>2, SamePlaces, ZenonT(60)
  <2>4. MapBlock(m).map = m
    BY ZenonT(60) DEF MapBlock
  <2> QED BY <2>1, <2>3, <2>4, ZenonT(60) DEF MapOf
<1>7. EmptyAdded(d, d2, name, hs, f)
  BY <1>2, <1>3, <1>5, <1>6, ZenonT(60) DEF EmptyAdded
<1> QED BY <1>5, <1>7, ZenonT(60) DEF d2

(* The invariant holds initially.                                          *)
LEMMA FInit == Init => FInv
<1> SUFFICES ASSUME Init PROVE FInv
  BY ZenonT(60)
<1> DEFINE d0 == Formatted
           d1 == Created(d0, "stdin", 0)
           d2 == Created(d1, "stdout", 0)
<1>0. /\ 0 \in Nat /\ 1..0 = {} /\ 2 # 0 /\ 2 # 1 /\ 3 # 0 /\ 3 # 1 /\ 4 # 0 /\ 4 # 1
      /\ 5 # 0 /\ 5 # 1 /\ 2 # 3 /\ 2 # 4 /\ 2 # 5 /\ 3 # 4 /\ 3 # 5 /\ 4 # 5
      /\ 2 \in Sectors /\ 3 \in Sectors /\ 4 \in Sectors /\ 5 \in Sectors
      /\ 1 \in 1..NumDirEntries /\ 2 \in 1..NumDirEntries /\ 1 # 2
  BY FileSysAssumption, SMTT(60) DEF Sectors
<1>1. "stdin" \in Names /\ "stdout" \in Names /\ "stdin" # "stdout"
  BY ZenonT(60) DEF Names
<1>2. Good(d0) /\ Entries(d0) = {}
  BY FormattedGood, ZenonT(60)
<1>3. PICK a \in Sectors, b \in Sectors : MapOf(d0) = {0, 1, a, b}
  BY FormattedGood, ZenonT(60)
<1> HIDE DEF d0
<1>4. PICK i \in Sectors : i \notin MapOf(d0)
  BY <1>0, <1>3, ZenonT(60)
<1>5. ~DirOf(d0)[1].inUse
  <2>1. IsTable(DirOf(d0)) /\ InUse(DirOf(d0)) = {}
    BY <1>2, ZenonT(60) DEF Good, Entries, InUse
  <2> QED BY <1>0, <2>1, ZenonT(60) DEF IsTable, InUse, Range
<1>6. CanCreate(d0, "stdin", 0)
  BY <1>0, <1>1, <1>2, <1>4, <1>5, EmptyFile, ZenonT(60)
<1>7. PICK ha, ga :
        /\ ha \in Sectors /\ Good(d1) /\ Entries(d1) = Entries(d0) \cup {NewEntry("stdin", ha)}
        /\ HeaderOf(d1, NewEntry("stdin", ha)) = <<0, ga>>
        /\ MapOf(d1) = MapOf(d0) \cup {ha}
  <2>1. PICK ha, ga : ha \in Sectors /\ EmptyAdded(d0, d1, "stdin", ha, ga)
    BY <1>1, <1>2, <1>6, EmptyCreated, ZenonT(60)
  <2> QED BY <2>1, ZenonT(60) DEF EmptyAdded
<1> HIDE DEF d1
<1> DEFINE x == NewEntry("stdin", ha)
<1>8. Entries(d1) = {x} /\ x.name = "stdin"
  BY <1>2, <1>7, ZenonT(60) DEF NewEntry
<1>9. PICK j \in Sectors : j \notin MapOf(d1)
  <2>1. MapOf(d1) = {0, 1, a, b, ha}
    BY <1>3, <1>7, ZenonT(60)
  <2> QED BY <1>0, <2>1, ZenonT(60)
<1>10. PICK k \in 1..NumDirEntries : ~DirOf(d1)[k].inUse
  <2> SUFFICES ASSUME \A k \in 1..NumDirEntries : DirOf(d1)[k].inUse PROVE FALSE
    BY ZenonT(60)
  <2> DEFINE t == DirOf(d1)
  <2>1. IsTable(t) /\ InUse(t) = {x}
    BY <1>7, <1>8, ZenonT(60) DEF Good, Entries, InUse
  <2>2. t[1].inUse /\ t[2].inUse
    BY <1>0, ZenonT(60)
  <2> HIDE DEF t, x
  <2>3. t[1] \in InUse(t) /\ t[2] \in InUse(t)
    BY <1>0, <2>1, <2>2, ZenonT(60) DEF IsTable, InUse, Range
  <2>4. t[1].name = t[2].name
    BY <2>1, <2>3, ZenonT(60)
  <2> QED BY <1>0, <2>1, <2>2, <2>4, ZenonT(60) DEF IsTable
<1>11. CanCreate(d1, "stdout", 0)
  <2>1. \A e \in Entries(d1) : e.name # "stdout"
    BY <1>1, <1>8, ZenonT(60)
  <2> QED BY <1>1, <1>7, <1>9, <1>10, <2>1, EmptyFile, ZenonT(60)
<1>12. PICK hb, gb :
         /\ hb \in Sectors /\ Good(d2) /\ Entries(d2) = Entries(d1) \cup {NewEntry("stdout", hb)}
         /\ HeaderOf(d2, NewEntry("stdout", hb)) = <<0, gb>>
         /\ \A e \in Entries(d1) : HeaderOf(d2, e) = HeaderOf(d1, e)
  <2>1. PICK hb, gb : hb \in Sectors /\ EmptyAdded(d1, d2, "stdout", hb, gb)
    BY <1>1, <1>7, <1>11, EmptyCreated, ZenonT(60)
  <2> QED BY <2>1, ZenonT(60) DEF EmptyAdded
<1> HIDE DEF d2
<1> DEFINE y == NewEntry("stdout", hb)
<1>13. y.name = "stdout"
  BY ZenonT(60) DEF NewEntry
<1>14. \A e \in Entries(d2) : e.name \in Names /\ HeaderOf(d2, e)[1] = 0
  <2>1. <<0, ga>>[1] = 0 /\ <<0, gb>>[1] = 0
    BY SMTT(60)
  <2>2. HeaderOf(d2, x) = <<0, ga>> /\ HeaderOf(d2, y) = <<0, gb>>
    BY <1>7, <1>8, <1>12, ZenonT(60)
  <2>3. HeaderOf(d2, x)[1] = 0 /\ HeaderOf(d2, y)[1] = 0
    BY <2>1, <2>2, ZenonT(60)
  <2> HIDE DEF x, y
  <2>4. \A e \in Entries(d2) : e = x \/ e = y
    BY <1>8, <1>12, ZenonT(60) DEF y
  <2> QED BY <1>1, <1>8, <1>13, <2>3, <2>4, ZenonT(60)
<1>15. /\ disk = d2 /\ log = <<>> /\ openf = [s \in 0..(NumSlots - 1) |-> NoFile]
       /\ written = [n \in Names |-> <<>>]
  BY ZenonT(60) DEF Init, d2, d1, d0, Names
<1>16. \A e \in Entries(d2) : Holds(d2, written, e)
  <2>1. \A n \in Names : written[n] = <<>>
    BY <1>15, ZenonT(60)
  <2>2. DOMAIN <<>> = 1..0
    BY SMTT(60)
  <2> QED BY <1>0, <1>14, <2>1, <2>2, ZenonT(60) DEF Holds
<1>17. OpenOK(d2, openf)
  <2>1. openf = [s \in 0..(NumSlots - 1) |-> openf[s]]
        /\ \A s \in 0..(NumSlots - 1) : openf[s] = NoFile
    BY <1>15, ZenonT(60)
  <2> QED BY <2>1, ZenonT(60) DEF OpenOK
<1>18. \A n \in {"stdin", "stdout"} : \E e \in Entries(d2) : e.name = n
  BY <1>8, <1>12, <1>13, ZenonT(60)
<1>19. AtRest(d2, openf, written)
  <2>1. DOMAIN written = Names
    BY <1>15, ZenonT(60)
  <2> QED BY <1>12, <1>16, <1>17, <1>18, <2>1, ZenonT(60) DEF AtRest
<1> QED BY <1>15, <1>19, Rest, ZenonT(60) DEF FInv

(* A file that holds its bytes can be read.                                *)
LEMMA HoldsReadable ==
  ASSUME NEW e, Holds(disk, written, e)
  PROVE  Readable(e)
<1> DEFINE h == HeaderOf(disk, e)
           size == h[1]
           bytes == ReadAt(disk, h, size, 0)
           Byt(a) == Contents(disk[ByteToSector(h, a)])[1 + (a % SectorSize)]
<1>1. /\ size \in Nat /\ DOMAIN written[e.name] = 1..size
      /\ \A i \in 1..size : written[e.name][i] # -1 => Byt(i - 1) = written[e.name][i]
  BY ZenonT(60) DEF Holds
<1>2. Clip(h, size, 0) = size
  <2>1. Clip(h, size, 0) = IF 0 >= size THEN 0 ELSE IF 0 + size > size THEN size - 0 ELSE size
    BY ZenonT(60) DEF Clip
  <2> HIDE DEF size
  <2> QED BY <1>1, <2>1, SMTT(60)
<1>3. bytes = [i \in 1..size |-> Byt(0 + i - 1)]
  BY <1>2, ZenonT(60) DEF ReadAt
<1> HIDE DEF Byt, size, bytes, h
<1>4. \A i \in 1..size : 0 + i - 1 = i - 1
  BY <1>1, SMTT(60)
<1>5. \A i \in DOMAIN written[e.name] :
        written[e.name][i] # -1 => bytes[i] = written[e.name][i]
  BY <1>1, <1>3, <1>4, ZenonT(60)
<1> QED BY <1>5, ZenonT(60) DEF Readable, bytes, size, h

(* Between operations the map of free sectors is exact: for a disk and a   *)
(* directory of any size, and files of any size that a header can hold,    *)
(* Create, Remove, Allocate and Deallocate neither leak nor share a        *)
(* sector.  A larger file ends what is defined.                            *)
THEOREM FreeMapCorrectness == Spec => []FreeMapExact
<1>1. FInv => FreeMapExact
  <2> SUFFICES ASSUME FInv, log = <<>>
               PROVE  /\ MapOf(disk) = SystemSectors(disk)
                                       \cup UNION {Used(disk, e) : e \in Entries(disk)}
                      /\ \A e \in Entries(disk) :
                           /\ Used(disk, e) \cap SystemSectors(disk) = {}
                           /\ e.sector \notin Range(HeaderOf(disk, e)[2])
                           /\ Cardinality(Range(HeaderOf(disk, e)[2])) = Len(HeaderOf(disk, e)[2])
                           /\ \A f \in Entries(disk) \ {e} :
                                Used(disk, e) \cap Used(disk, f) = {}
    BY ZenonT(60) DEF FreeMapExact
  <2>1. AtRest(disk, openf, written)
    BY Rest, ZenonT(60) DEF FInv
  <2>2. Good(disk)
    BY <2>1, ZenonT(60) DEF AtRest
  <2>3. MapOf(disk) = SystemSectors(disk)
                      \cup UNION {Used(disk, e) : e \in Entries(disk)}
    <3> DEFINE U == UNION {Used(disk, e) : e \in Entries(disk)}
    <3>1. \A s : s \in U <=> \E e \in Entries(disk) : s \in Used(disk, e)
      BY ZenonT(60)
    <3> HIDE DEF U
    <3>2. ASSUME NEW s PROVE s \in MapOf(disk) <=> s \in SystemSectors(disk) \cup U
      <4>1. CASE s \in Sectors
        BY <2>2, <3>1, <4>1, ZenonT(60) DEF Good, Exact
      <4>2. CASE s \notin Sectors
        <5>1. s \notin MapOf(disk)
          BY <2>2, <4>2, ZenonT(60) DEF Good, Exact
        <5>2. s \notin SystemSectors(disk) /\ s \notin U
          BY <2>2, <3>1, <4>2, GoodUse, ZenonT(60)
        <5> QED BY <5>1, <5>2, ZenonT(60)
      <4> QED BY <4>1, <4>2, ZenonT(60)
    <3>3. MapOf(disk) = SystemSectors(disk) \cup U
      BY <3>2, ZenonT(60)
    <3> QED BY <3>3, ZenonT(60) DEF U
  <2>4. ASSUME NEW e \in Entries(disk)
        PROVE  /\ Used(disk, e) \cap SystemSectors(disk) = {}
               /\ e.sector \notin Range(HeaderOf(disk, e)[2])
               /\ \A f \in Entries(disk) \ {e} : Used(disk, e) \cap Used(disk, f) = {}
    BY <2>2, ZenonT(60) DEF Good, Exact
  <2>5. ASSUME NEW e \in Entries(disk)
        PROVE  Cardinality(Range(HeaderOf(disk, e)[2])) = Len(HeaderOf(disk, e)[2])
    <3> DEFINE h == HeaderOf(disk, e)
               f == h[2]
               n == divRoundUp(h[1], SectorSize)
    <3>1. IsHeader(h)
      BY <2>2, ZenonT(60) DEF Good, Headed
    <3>2. n \in Nat /\ f \in [1..n -> Sectors] /\ \A i, j \in 1..n : f[i] = f[j] => i = j
      <4>1. h[1] \in Nat
        BY <3>1, ZenonT(60) DEF IsHeader
      <4>2. n \in Nat
        BY <4>1, FileSysAssumption, RoundUp, ZenonT(60)
      <4> QED BY <3>1, <4>2, ZenonT(60) DEF IsHeader
    <3> HIDE DEF f, n
    <3>3. Cardinality(Range(f)) = n
      BY <3>2, RangeCount, ZenonT(60)
    <3>4. Len(f) = n
      BY <3>2, SMTT(60)
    <3> QED BY <3>3, <3>4, ZenonT(60) DEF f
  <2> QED BY <2>3, <2>4, <2>5, ZenonT(60)
<1> QED BY <1>1, FInit, FStep, PTL DEF Spec

(* Between operations every file holds the bytes written to it: for any    *)
(* sizes of sectors, and of files that a header can hold, and writes of    *)
(* any bytes at any offsets, across sectors.                               *)
THEOREM ContentsCorrectness == Spec => []WrittenIsRead
<1>1. FInv => WrittenIsRead
  <2> SUFFICES ASSUME FInv, log = <<>>, NEW e \in Entries(disk) PROVE Readable(e)
    BY ZenonT(60) DEF WrittenIsRead
  <2>1. AtRest(disk, openf, written)
    BY Rest, ZenonT(60) DEF FInv
  <2>2. Holds(disk, written, e)
    BY <2>1, ZenonT(60) DEF AtRest
  <2> QED BY <2>2, HoldsReadable, ZenonT(60)
<1> QED BY <1>1, FInit, FStep, PTL DEF Spec

(* A stop between two sector writes of Create, Remove or Write leaves      *)
(* every name with its header, and every other file with its bytes, for    *)
(* files that a header can hold.                                           *)
THEOREM StopCorrectness == Spec => []StopKeepsFiles
<1>1. FInv => StopKeepsFiles
  <2> SUFFICES ASSUME FInv, NEW e \in Entries(disk)
               PROVE  /\ disk[e.sector].kind = "hdr"
                      /\ e.name # working => Readable(e)
    BY ZenonT(60) DEF StopKeepsFiles
  <2>1. IsDisk(disk) /\ IsLog(log)
        /\ \A k \in 0..Len(log) : Kept(After(disk, log, k), written, working)
    BY ZenonT(60) DEF FInv, Operation
  <2>2. 0 \in 0..Len(log)
    <3>1. Len(log) \in Nat
      BY <2>1, SMTT(60) DEF IsLog
    <3> QED BY <3>1, SMTT(60)
  <2>3. After(disk, log, 0) = disk
    BY <2>1, AfterNone, ZenonT(60)
  <2>4. Kept(disk, written, working)
    BY <2>1, <2>2, <2>3, ZenonT(60)
  <2>5. disk[e.sector].kind = "hdr" /\ (e.name # working => Holds(disk, written, e))
    BY <2>4, ZenonT(60) DEF Kept
  <2> QED BY <2>5, HoldsReadable, ZenonT(60)
<1> QED BY <1>1, FInit, FStep, PTL DEF Spec

=============================================================================
