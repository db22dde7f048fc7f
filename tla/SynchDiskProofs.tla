-------------------------- MODULE SynchDiskProofs ---------------------------
(***************************************************************************)
(* Proofs about the disk, its driver and the simulated clock, for a disk   *)
(* of any size and speed, any threads and any time slices.                 *)
(***************************************************************************)
EXTENDS SynchDisk, TLAPS

Interrupts == [when : Nat, type : {"DiskInt", "TimerInt"}]

TypeOK ==
  /\ mode \in {"run", "P", "tick", "resume", "idle", "due", "halted", "abort"}
  /\ cur \in Threads
  /\ asleep \in SUBSET Threads
  /\ place \in [Threads -> {"resume", "P", "done"}]
  /\ totalTicks \in Nat
  /\ yieldOnReturn \in BOOLEAN
  /\ active \in BOOLEAN
  /\ lastSector \in Sectors
  /\ bufferInit \in Nat /\ settled \in Nat
  /\ value \in Nat

(* The timer's interrupt is always pending, and the disk's while a request *)
(* is under way; the first to come is at the head.                         *)
ShapeOf(busy, list) ==
  \E tm, dk \in Interrupts :
    /\ tm.type = "TimerInt" /\ dk.type = "DiskInt"
    /\ \/ ~busy /\ list = <<tm>>
       \/ busy /\ tm.when <= dk.when /\ list = <<tm, dk>>
       \/ busy /\ dk.when <= tm.when /\ list = <<dk, tm>>

Shape == ShapeOf(active, pending)

(* The disk's interrupt is in the future: always, while a thread runs.     *)
DiskAfter(list, now) ==
  \A i \in DOMAIN list : list[i].type = "DiskInt" => list[i].when > now

DiskAhead == mode \in {"run", "P", "resume"} => DiskAfter(pending, totalTicks)

(* The track buffer was emptied at the first full sector after a seek.     *)
Buffer ==
  \E b \in Nat : bufferInit = b * RotationTime /\ bufferInit >= settled

IInv == TypeOK /\ Shape /\ DiskAhead /\ Buffer

(* The thread that runs, if one does.                                      *)
Running(t) == t = cur /\ mode \in {"run", "P", "tick", "resume"}

(* Thread t has made a request and is in P.                                *)
InP(t) == IF Running(t) THEN mode = "P" ELSE place[t] = "P"

(* Where the threads are: only threads that use the disk are in P, a       *)
(* thread that sleeps is in P and does not run, and one that runs is not   *)
(* done.                                                                   *)
Placed ==
  /\ \A t \in Threads : InP(t) => t \in DiskThreads
  /\ \A t \in asleep : place[t] = "P" /\ ~Running(t)
  /\ \A t \in Threads : Running(t) => place[t] # "done"

(* The one request that is under way, or whose end has been announced, has *)
(* a thread in P, which sleeps until the interrupt has come.               *)
Counted ==
  /\ value <= 1 /\ ~(active /\ value > 0)
  /\ (\E t \in Threads : InP(t)) <=> active \/ value > 0
  /\ asleep # {} => active
  /\ active /\ mode # "P" => asleep # {}

(* One thread uses the disk: SynchDisk's Lock is not implemented.          *)
OneUser == \A s, t \in DiskThreads : s = t

OneRequest == Placed /\ Counted /\ RequestsFinish

(* The interrupts of a list come at time n or later.                       *)
AllFrom(list, n) == \A i \in DOMAIN list : list[i].when >= n

(* A thread that sleeps is in P and does not run, and one that runs is not *)
(* done.                                                                   *)
Seated ==
  /\ \A t \in asleep : place[t] = "P" /\ ~Running(t)
  /\ \A t \in Threads : Running(t) => place[t] # "done"

(* Idle finds no thread ready, and the threads that are when it has fired  *)
(* an interrupt were woken by the disk.                                    *)
Waiting ==
  /\ mode = "idle" => Ready(asleep) = {}
  /\ mode = "due" => \A t \in Ready(asleep) : place[t] = "P" /\ value > 0

(* Idle turns the clock no further than to the first interrupt, and a      *)
(* thread runs when all that is due has fired.                             *)
Ahead ==
  /\ mode \in {"run", "P", "resume"} /\ ~LeftByIdle =>
       AllFrom(pending, totalTicks + 1)
  /\ mode \in {"idle", "due"} => AllFrom(pending, totalTicks)

Late == Seated /\ Waiting /\ Ahead

-----------------------------------------------------------------------------
(* Remainders.                                                             *)

(* Division with remainder, by a positive number.                          *)
LEMMA Division ==
  ASSUME NEW n \in Int, NEW k \in Nat \ {0}
  PROVE  /\ n \div k \in Int /\ n % k \in 0..(k - 1)
         /\ n = (n \div k) * k + (n % k)
  BY SMTT(60)

(* Only one quotient and one remainder are possible.                       *)
LEMMA OneRemainder ==
  ASSUME NEW q \in Int, NEW p \in Int, NEW k \in Nat,
         NEW r \in 0..(k - 1), NEW t \in 0..(k - 1), q * k + r = p * k + t
  PROVE  q = p /\ r = t
<1>1. \A i, j \in Int : (i - j) * k = i * k - j * k
  BY SMTT(60)
<1>2. \A i \in Int : i >= 1 => i * k >= k
  BY SMTT(60)
<1>3. ~(q > p)
  <2>1. (q - p) * k = t - r
    BY <1>1, SMTT(60)
  <2> QED BY <1>2, <2>1, SMTT(60)
<1>4. ~(q < p)
  <2>1. (p - q) * k = r - t
    BY <1>1, SMTT(60)
  <2> QED BY <1>2, <2>1, SMTT(60)
<1> QED BY <1>3, <1>4, SMTT(60)

(* Numbers a multiple of k apart have the same remainder, and numbers with *)
(* the same remainder are a multiple of k apart.                           *)
LEMMA SameRemainder ==
  ASSUME NEW x \in Int, NEW y \in Int, NEW k \in Nat \ {0}
  PROVE  x % k = y % k <=> \E q \in Int : x = y + q * k
<1>1. /\ x \div k \in Int /\ x % k \in 0..(k - 1) /\ x = (x \div k) * k + (x % k)
      /\ y \div k \in Int /\ y % k \in 0..(k - 1) /\ y = (y \div k) * k + (y % k)
  BY Division, ZenonT(60)
<1>2. ASSUME x % k = y % k PROVE \E q \in Int : x = y + q * k
  <2> DEFINE q == (x \div k) - (y \div k)
  <2>1. q \in Int /\ x = y + q * k
    BY <1>1, <1>2, SMTT(60)
  <2> QED BY <2>1, ZenonT(60)
<1>3. ASSUME NEW q \in Int, x = y + q * k PROVE x % k = y % k
  <2> DEFINE a == x \div k  b == (y \div k) + q  r == x % k  t == y % k
  <2>1. a \in Int /\ b \in Int /\ r \in 0..(k - 1) /\ t \in 0..(k - 1)
        /\ a * k + r = b * k + t
    BY <1>1, <1>3, SMTT(60)
  <2> HIDE DEF a, b, r, t
  <2>2. r = t
    BY <2>1, OneRemainder, SMTT(60)
  <2> QED BY <2>2, ZenonT(60) DEF r, t
<1> QED BY <1>2, <1>3, ZenonT(60)

(* ModuloDiff is how many sectors have still to pass: sector s is under    *)
(* the head in slot k + ModuloDiff(s, k), and in no slot from k on before. *)
LEMMA ModuloDiffIsNext ==
  ASSUME NEW s \in Nat, NEW k \in Int
  PROVE  /\ ModuloDiff(s, k) \in 0..(SectorsPerTrack - 1)
         /\ Over(s, k + ModuloDiff(s, k))
         /\ \A j \in Int : k <= j /\ j < k + ModuloDiff(s, k) => ~Over(s, j)
<1> DEFINE n == SectorsPerTrack
           x == (s % n) - (k % n) + n
           d == ModuloDiff(s, k)
<1>0. n \in Nat \ {0}
  BY SynchDiskAssumption, ZenonT(60)
<1>1. /\ s \div n \in Int /\ s % n \in Int /\ s = (s \div n) * n + (s % n)
      /\ k \div n \in Int /\ k % n \in Int /\ k = (k \div n) * n + (k % n)
  BY <1>0, Division, SMTT(60)
<1>2. x \in Int /\ d \in 0..(n - 1) /\ x \div n \in Int /\ x = (x \div n) * n + d
  <2>1. x \in Int
    BY <1>0, <1>1, SMTT(60)
  <2>2. d = x % n
    BY ZenonT(60) DEF ModuloDiff
  <2> HIDE DEF x, d
  <2> QED BY <1>0, <2>1, <2>2, Division, ZenonT(60)
<1>3. Over(s, k + d)
  <2> DEFINE q == (k \div n) - (s \div n) + 1 - (x \div n)
  <2>1. q \in Int /\ k + d = s + q * n
    <3>1. \A a, b, c \in Int : (a - b + 1 - c) * n = a * n - b * n + n - c * n
      BY <1>0, SMTT(60)
    <3>2. q * n = (k \div n) * n - (s \div n) * n + n - (x \div n) * n
      BY <1>1, <1>2, <3>1, ZenonT(60)
    <3>3. q \in Int
      BY <1>1, <1>2, SMTT(60)
    <3>4. x = (s % n) - (k % n) + n
      OBVIOUS
    <3> HIDE DEF d, q, x
    <3> QED BY <1>0, <1>1, <1>2, <3>2, <3>3, <3>4, SMTT(60)
  <2>2. k + d \in Int
    BY <1>2, SMTT(60)
  <2> HIDE DEF d, q
  <2>3. s \in Int
    BY SMTT(60)
  <2> QED BY <1>0, <2>1, <2>2, <2>3, SameRemainder, ZenonT(60) DEF Over
<1>4. ASSUME NEW j \in Int, k <= j, j < k + d PROVE ~Over(s, j)
  <2> SUFFICES ASSUME Over(s, j) PROVE FALSE
    OBVIOUS
  <2> HIDE DEF d
  <2>1. k + d \in Int /\ (k + d) % n = j % n
    BY <1>2, <1>3, SMTT(60) DEF Over
  <2>2. PICK q \in Int : k + d = j + q * n
    BY <1>0, <2>1, SameRemainder, ZenonT(60)
  <2>3. 0 < q * n /\ q * n < n
    BY <1>0, <1>2, <1>4, <2>2, SMTT(60)
  <2>4. \A i \in Int : (i >= 1 => i * n >= n) /\ (i <= 0 => i * n <= 0)
    BY <1>0, SMTT(60)
  <2> QED BY <1>0, <2>3, <2>4, SMTT(60)
<1> QED BY <1>2, <1>3, <1>4, ZenonT(60)

(* Rotation rounds the time up to the next full sector.                    *)
LEMMA RotationRoundsUp ==
  ASSUME NEW seek \in Nat, totalTicks \in Nat
  PROVE  /\ Rotation(seek) \in Nat
         /\ \E a \in Nat : /\ totalTicks + seek + Rotation(seek) = a * RotationTime
                           /\ (a - 1) * RotationTime < totalTicks + seek
<1> DEFINE n == RotationTime
           x == totalTicks + seek
<1> SUFFICES /\ Rotation(seek) \in Nat
             /\ \E a \in Nat : x + Rotation(seek) = a * n /\ (a - 1) * n < x
  OBVIOUS
<1>0. n \in Nat \ {0} /\ x \in Nat /\ x \in Int
  BY SynchDiskAssumption, SMTT(60)
<1>3. Rotation(seek) = IF x % n > 0 THEN n - (x % n) ELSE 0
  BY ZenonT(60) DEF Rotation
<1> HIDE DEF x, n
<1>1. x \div n \in Int /\ x % n \in 0..(n - 1) /\ x = (x \div n) * n + (x % n)
  BY <1>0, Division, ZenonT(60)
<1>2. x \div n \in Nat
  BY <1>0, SMTT(60)
<1>4. \A i \in Int : (i + 1) * n = i * n + n /\ (i - 1) * n = i * n - n
  BY <1>0, SMTT(60)
<1>5. CASE x % n > 0
  <2> DEFINE a == (x \div n) + 1
  <2>1. x + Rotation(seek) = a * n /\ (a - 1) * n < x
    BY <1>0, <1>1, <1>2, <1>3, <1>4, <1>5, SMTT(60)
  <2>2. a \in Nat /\ Rotation(seek) \in Nat
    BY <1>0, <1>1, <1>2, <1>3, <1>5, SMTT(60)
  <2> QED BY <2>1, <2>2, ZenonT(60)
<1>6. CASE ~(x % n > 0)
  <2>1. x + Rotation(seek) = (x \div n) * n /\ ((x \div n) - 1) * n < x
    BY <1>0, <1>1, <1>2, <1>3, <1>4, <1>6, SMTT(60)
  <2>2. Rotation(seek) \in Nat
    BY <1>3, <1>6, SMTT(60)
  <2> QED BY <1>2, <2>1, <2>2, ZenonT(60)
<1> QED BY <1>5, <1>6, ZenonT(60)

(* A seek takes no negative time.                                          *)
LEMMA SeekIsNat ==
  ASSUME TypeOK, NEW s \in Sectors
  PROVE  s \in Nat /\ SeekTo(s) \in Nat
<1>1. SectorsPerTrack \in Nat \ {0} /\ SeekTime \in Nat /\ Tracks \in Nat
  BY SynchDiskAssumption, SMTT(60)
<1>2. s \in Nat /\ lastSector \in Nat
  BY <1>1, SMTT(60) DEF TypeOK, Sectors
<1> DEFINE t == s \div SectorsPerTrack - lastSector \div SectorsPerTrack
<1>3. t \in Int
  BY <1>1, <1>2, Division, SMTT(60)
<1>4. SeekTo(s) = (IF t < 0 THEN -t ELSE t) * SeekTime
  BY ZenonT(60) DEF SeekTo, Abs
<1> HIDE DEF t
<1>5. \A i, j \in Nat : i * j \in Nat
  BY SMTT(60)
<1>6. (IF t < 0 THEN -t ELSE t) \in Nat
  BY <1>3, SMTT(60)
<1> QED BY <1>1, <1>2, <1>4, <1>5, <1>6, ZenonT(60)

(* The two ways in which ComputeLatency computes a latency.                *)
LEMMA LatencyCases ==
  ASSUME TypeOK, NEW s \in Sectors, NEW writing \in BOOLEAN, NEW a \in Nat,
         totalTicks + SeekTo(s) + Rotation(SeekTo(s)) = a * RotationTime
  PROVE  LET latency == ComputeLatency(s, writing)
         IN  /\ latency \in Nat /\ latency > 0
             /\ \/ /\ ~writing /\ SeekTo(s) = 0 /\ latency = RotationTime
                   /\ (a * RotationTime - bufferInit) \div RotationTime
                        > ModuloDiff(s, bufferInit \div RotationTime)
                \/ totalTicks + latency
                     = (a + ModuloDiff(s, a) + 1) * RotationTime
<1> DEFINE n == RotationTime
           seek == SeekTo(s)
           rotation == Rotation(seek)
           latency == ComputeLatency(s, writing)
<1>0. n \in Nat \ {0} /\ s \in Nat /\ seek \in Nat /\ rotation \in Nat /\ totalTicks \in Nat
  <2>1. n \in Nat \ {0} /\ totalTicks \in Nat
    BY SynchDiskAssumption, ZenonT(60) DEF TypeOK
  <2> QED BY <2>1, SeekIsNat, RotationRoundsUp, ZenonT(60)
<1>1. a = (a * n) \div n
  BY <1>0, SMTT(60)
<1>2. ModuloDiff(s, a) \in 0..(SectorsPerTrack - 1)
  <2>1. a \in Int
    BY SMTT(60)
  <2> QED BY <1>0, <2>1, ModuloDiffIsNext, ZenonT(60)
<1>3. ModuloDiff(s, a) \in Nat
  BY <1>2, SMTT(60)
<1>4. \/ /\ ~writing /\ seek = 0 /\ latency = n
         /\ (a * n - bufferInit) \div n > ModuloDiff(s, bufferInit \div n)
      \/ latency = seek + rotation + n + ModuloDiff(s, a) * n
  BY <1>1, ZenonT(60) DEF ComputeLatency
<1> HIDE DEF n, seek, rotation, latency
<1>5. CASE latency = seek + rotation + n + ModuloDiff(s, a) * n
  <2>1. \A i, j \in Nat : (i + j + 1) * n = i * n + j * n + n /\ j * n \in Nat
    BY <1>0, SMTT(60)
  <2>2. (a + ModuloDiff(s, a) + 1) * n = a * n + ModuloDiff(s, a) * n + n
        /\ ModuloDiff(s, a) * n \in Nat
    BY <1>3, <2>1, ZenonT(60)
  <2>3. totalTicks + seek + rotation = a * n
    BY ZenonT(60) DEF n, seek, rotation
  <2>4. /\ latency \in Nat /\ latency > 0
        /\ totalTicks + latency = (a + ModuloDiff(s, a) + 1) * n
    BY <1>0, <1>3, <1>5, <2>2, <2>3, SMTT(60)
  <2> QED BY <2>4, ZenonT(60) DEF n, latency
<1>6. CASE /\ ~writing /\ seek = 0 /\ latency = n
           /\ (a * n - bufferInit) \div n > ModuloDiff(s, bufferInit \div n)
  <2>1. latency \in Nat /\ latency > 0
    BY <1>0, <1>6, SMTT(60)
  <2> QED BY <1>6, <2>1, ZenonT(60) DEF n, latency, seek
<1> QED BY <1>4, <1>5, <1>6, ZenonT(60)

(* ComputeLatency is right about the track buffer and about the rotation.  *)
LEMMA LatencyRight ==
  ASSUME TypeOK, Buffer, NEW s \in Sectors, NEW writing \in BOOLEAN
  PROVE  LET latency == ComputeLatency(s, writing)
             end == totalTicks + latency
             start == totalTicks + SeekTo(s)
             slots == 0..((end \div RotationTime) + SectorsPerTrack)
         IN  \/ /\ ~writing /\ SeekTo(s) = 0 /\ latency = RotationTime
                /\ \E k \in slots : /\ Over(s, k)
                                    /\ k * RotationTime >= settled
                                    /\ (k + 1) * RotationTime <= start + RotationTime
             \/ \E k \in slots :
                  /\ Over(s, k) /\ k * RotationTime >= start
                  /\ \A j \in 0..(k - 1) : Over(s, j) => j * RotationTime < start
                  /\ end = (k + 1) * RotationTime
<1> DEFINE n == RotationTime
           latency == ComputeLatency(s, writing)
           end == totalTicks + latency
           start == totalTicks + SeekTo(s)
           slots == 0..((end \div RotationTime) + SectorsPerTrack)
<1>0. /\ n \in Nat \ {0} /\ s \in Nat /\ SeekTo(s) \in Nat /\ totalTicks \in Nat
      /\ settled \in Nat /\ SectorsPerTrack \in Nat \ {0}
  BY SynchDiskAssumption, SeekIsNat, ZenonT(60) DEF TypeOK
<1>1. PICK a \in Nat : /\ start + Rotation(SeekTo(s)) = a * n
                       /\ (a - 1) * n < start
  BY <1>0, RotationRoundsUp, ZenonT(60)
<1>2. Rotation(SeekTo(s)) \in Nat
  BY <1>0, RotationRoundsUp, ZenonT(60)
<1>3. PICK b \in Nat : bufferInit = b * n /\ bufferInit >= settled
  BY ZenonT(60) DEF Buffer
<1>4. /\ latency \in Nat /\ latency > 0
      /\ \/ /\ ~writing /\ SeekTo(s) = 0 /\ latency = n
            /\ (a * n - bufferInit) \div n > ModuloDiff(s, bufferInit \div n)
         \/ end = (a + ModuloDiff(s, a) + 1) * n
  BY <1>0, <1>1, LatencyCases, ZenonT(60)
<1>5. start \in Nat /\ end \in Nat /\ start <= a * n
  BY <1>0, <1>1, <1>2, <1>4, SMTT(60)
<1>6. \A i, j \in Int : i <= j => i * n <= j * n
  BY <1>0, SMTT(60)
<1> HIDE DEF latency, end, start
<1>7. CASE /\ ~writing /\ SeekTo(s) = 0 /\ latency = n
           /\ (a * n - bufferInit) \div n > ModuloDiff(s, bufferInit \div n)
  <2>1. (a * n - bufferInit) \div n = a - b /\ bufferInit \div n = b
    <3>1. a * n - b * n = (a - b) * n
      BY <1>0, SMTT(60)
    <3>2. \A i \in Int : (i * n) \div n = i
      BY <1>0, SMTT(60)
    <3>3. a - b \in Int /\ b \in Int
      BY SMTT(60)
    <3> QED BY <1>3, <3>1, <3>2, <3>3, ZenonT(60)
  <2> DEFINE d == ModuloDiff(s, b)
             k == b + d
  <2>2. d \in 0..(SectorsPerTrack - 1) /\ Over(s, k)
    <3>1. b \in Int
      BY SMTT(60)
    <3> QED BY <1>0, <3>1, ModuloDiffIsNext, ZenonT(60)
  <2>3. a - b > d
    BY <1>7, <2>1, ZenonT(60)
  <2> HIDE DEF d
  <2>4. k \in Nat /\ b <= k /\ k <= a - 1
    BY <1>0, <2>2, <2>3, SMTT(60)
  <2> HIDE DEF k
  <2>5. k * n >= b * n /\ k * n <= (a - 1) * n
    BY <1>0, <1>6, <2>4, SMTT(60)
  <2>6. k * n >= settled /\ k * n < start
    BY <1>0, <1>1, <1>3, <1>5, <2>4, <2>5, SMTT(60)
  <2>7. (k + 1) * n <= start + n
    <3>1. (k + 1) * n = k * n + n
      BY <1>0, <2>4, SMTT(60)
    <3> QED BY <1>0, <1>5, <2>4, <2>6, <3>1, SMTT(60)
  <2>8. k \in slots
    <3>1. end \div n \in Int /\ end % n \in 0..(n - 1) /\ end = (end \div n) * n + (end % n)
      BY <1>0, <1>5, Division, SMTT(60)
    <3>2. k <= end \div n
      <4>1. end = start + n
        BY <1>0, <1>7, SMTT(60) DEF end, start
      <4>2. k * n < (end \div n) * n
        BY <1>0, <1>5, <2>4, <2>6, <3>1, <4>1, SMTT(60)
      <4> DEFINE q == end \div n
      <4>3. q \in Int /\ k \in Int /\ k * n < q * n /\ k * n \in Int /\ q * n \in Int
        BY <1>0, <2>4, <3>1, <4>2, SMTT(60)
      <4> HIDE DEF q
      <4>4. q <= k => q * n <= k * n
        BY <1>6, <4>3, ZenonT(60)
      <4>5. k <= q
        BY <4>3, <4>4, SMTT(60)
      <4> QED BY <4>5, ZenonT(60) DEF q
    <3> QED BY <1>0, <2>4, <3>1, <3>2, SMTT(60)
  <2>9. k * n >= settled
    BY <2>6, ZenonT(60)
  <2> QED BY <1>7, <2>2, <2>7, <2>8, <2>9, ZenonT(60) DEF end, latency, start
<1>8. CASE end = (a + ModuloDiff(s, a) + 1) * n
  <2> DEFINE d == ModuloDiff(s, a)
             k == a + d
  <2>1. /\ d \in 0..(SectorsPerTrack - 1) /\ Over(s, k)
        /\ \A j \in Int : a <= j /\ j < k => ~Over(s, j)
    <3>1. a \in Int
      BY SMTT(60)
    <3> QED BY <1>0, <3>1, ModuloDiffIsNext, ZenonT(60)
  <2>2. end = (k + 1) * n
    BY <1>8, ZenonT(60)
  <2> HIDE DEF d
  <2>3. k \in Nat /\ a <= k
    BY <1>0, <2>1, SMTT(60)
  <2> HIDE DEF k
  <2>4. k * n >= start
    <3>1. a * n <= k * n
      BY <1>6, <2>3, SMTT(60)
    <3> QED BY <1>0, <1>5, <2>3, <3>1, SMTT(60)
  <2>5. ASSUME NEW j \in 0..(k - 1), Over(s, j) PROVE j * n < start
    <3>1. j \in Int /\ j <= a - 1
      BY <2>1, <2>3, <2>5, SMTT(60)
    <3>2. j * n <= (a - 1) * n
      BY <1>6, <3>1, SMTT(60)
    <3> QED BY <1>0, <1>1, <1>5, <3>1, <3>2, SMTT(60)
  <2>6. k \in slots
    <3>1. end \div n = k + 1
      BY <1>0, <2>2, <2>3, SMTT(60)
    <3> QED BY <1>0, <2>3, <3>1, SMTT(60)
  <2> QED BY <2>1, <2>2, <2>4, <2>5, <2>6, ZenonT(60) DEF end, latency, start
<1> QED BY <1>4, <1>7, <1>8, ZenonT(60)

-----------------------------------------------------------------------------
(* The list of pending interrupts.                                         *)

(* Two tuples of one element make a pair.                                  *)
LEMMA Pair ==
  ASSUME NEW S, NEW x \in S, NEW y \in S
  PROVE  <<y>> \o <<x>> = <<y, x>>
<1> DEFINE s == <<y>>
           t == <<x>>
           u == <<y, x>>
<1>1. /\ s \in Seq(S) /\ t \in Seq(S) /\ Len(s) = 1 /\ Len(t) = 1
      /\ s[1] = y /\ t[1] = x
  BY SMTT(60)
<1>2. u \in Seq(S) /\ Len(u) = 2 /\ u[1] = y /\ u[2] = x
  BY SMTT(60)
<1>3. \A a, b \in Seq(S) :
        /\ a \o b \in Seq(S) /\ Len(a \o b) = Len(a) + Len(b)
        /\ \A i \in 1..Len(a) : (a \o b)[i] = a[i]
        /\ \A i \in 1..Len(b) : (a \o b)[Len(a) + i] = b[i]
  BY SMTT(60)
<1>4. \A a, b \in Seq(S) :
        Len(a) = Len(b) /\ (\A i \in 1..Len(a) : a[i] = b[i]) => a = b
  BY SMTT(60)
<1> HIDE DEF s, t, u
<1>5. s \o t \in Seq(S) /\ Len(s \o t) = 2 /\ (s \o t)[1] = y /\ (s \o t)[2] = x
  BY <1>1, <1>3, SMTT(60)
<1>6. Len(s \o t) = Len(u) /\ \A i \in 1..Len(s \o t) : (s \o t)[i] = u[i]
  BY <1>2, <1>5, SMTT(60)
<1>7. s \o t = u
  BY <1>2, <1>4, <1>5, <1>6, ZenonT(60)
<1> QED BY <1>7, ZenonT(60) DEF s, t, u

(* What SortedInsert does with short lists is done with these.             *)
LEMMA Tuples ==
  ASSUME NEW x \in Interrupts, NEW y \in Interrupts
  PROVE  /\ Head(<<x>>) = x /\ Tail(<<x>>) = <<>>
         /\ Head(<<x, y>>) = x /\ Tail(<<x, y>>) = <<y>>
         /\ SubSeq(<<y>>, 1, 0) = <<>> /\ SubSeq(<<y>>, 1, 1) = <<y>>
         /\ SubSeq(<<y>>, 2, 1) = <<>> /\ SubSeq(<<>>, 1, 0) = <<>>
         /\ <<y>> \o <<x>> = <<y, x>> /\ <<y, x>> \o <<>> = <<y, x>>
         /\ <<>> \o <<x>> = <<x>> /\ <<x>> \o <<>> = <<x>>
<1>1. Head(<<x>>) = x /\ Tail(<<x>>) = <<>>
  BY SMTT(60)
<1>2. Head(<<x, y>>) = x /\ Tail(<<x, y>>) = <<y>>
  BY SMTT(60)
<1>3. SubSeq(<<y>>, 1, 0) = <<>>
  BY SMTT(60)
<1>4. SubSeq(<<y>>, 1, 1) = <<y>>
  <2>1. <<y>> \in Seq(Interrupts) /\ Len(<<y>>) = 1
    BY SMTT(60)
  <2>2. \A s \in Seq(Interrupts) : SubSeq(s, 1, Len(s)) = s
    BY SMTT(60)
  <2> QED BY <2>1, <2>2, ZenonT(60)
<1>5. SubSeq(<<y>>, 2, 1) = <<>> /\ SubSeq(<<>>, 1, 0) = <<>>
  BY SMTT(60)
<1>6. <<>> \o <<x>> = <<x>>
  BY SMTT(60)
<1>7. <<y, x>> \o <<>> = <<y, x>> /\ <<x>> \o <<>> = <<x>>
  BY SMTT(60)
<1> QED BY <1>1, <1>2, <1>3, <1>4, <1>5, <1>6, <1>7, Pair, ZenonT(60)

(* SortedInsert into a list of no or one element.                          *)
LEMMA InsertOne ==
  ASSUME NEW x \in Interrupts, NEW y \in Interrupts
  PROVE  /\ SortedInsert(<<>>, x) = <<x>>
         /\ y.when <= x.when => SortedInsert(<<y>>, x) = <<y, x>>
         /\ ~(y.when <= x.when) => SortedInsert(<<y>>, x) = <<x, y>>
<1> DEFINE before(list) == {i \in DOMAIN list : \A j \in 1..i : list[j].when <= x.when}
           n(list) == CHOOSE n \in before(list) \cup {0} : \A i \in before(list) : i <= n
<1>1. \A list : SortedInsert(list, x)
                  = SubSeq(list, 1, n(list)) \o <<x>> \o SubSeq(list, n(list) + 1, Len(list))
  BY ZenonT(60) DEF SortedInsert
<1>2. n(<<>>) = 0 /\ n(<<>>) + 1 = 1 /\ Len(<<>>) = 0
  <2>1. before(<<>>) = {}
    BY SMTT(60)
  <2> HIDE DEF before
  <2> QED BY <2>1, SMTT(60)
<1>3. ASSUME y.when <= x.when PROVE n(<<y>>) = 1 /\ n(<<y>>) + 1 = 2 /\ Len(<<y>>) = 1
  <2>1. before(<<y>>) = {1}
    BY <1>3, SMTT(60)
  <2> HIDE DEF before
  <2> QED BY <2>1, SMTT(60)
<1>4. ASSUME ~(y.when <= x.when)
      PROVE  n(<<y>>) = 0 /\ n(<<y>>) + 1 = 1 /\ Len(<<y>>) = 1
  <2>1. before(<<y>>) = {}
    BY <1>4, SMTT(60)
  <2> HIDE DEF before
  <2> QED BY <2>1, SMTT(60)
<1> HIDE DEF n
<1>5. SortedInsert(<<>>, x) = <<x>>
  <2>1. SortedInsert(<<>>, x) = SubSeq(<<>>, 1, 0) \o <<x>> \o SubSeq(<<>>, 1, 0)
    BY <1>1, <1>2, ZenonT(60)
  <2>2. SubSeq(<<>>, 1, 0) = <<>> /\ <<>> \o <<x>> = <<x>> /\ <<x>> \o <<>> = <<x>>
    BY Tuples, ZenonT(60)
  <2> QED BY <2>1, <2>2, ZenonT(60)
<1>6. ASSUME y.when <= x.when PROVE SortedInsert(<<y>>, x) = <<y, x>>
  <2>1. SortedInsert(<<y>>, x) = SubSeq(<<y>>, 1, 1) \o <<x>> \o SubSeq(<<y>>, 2, 1)
    BY <1>1, <1>3, <1>6, ZenonT(60)
  <2>2. /\ SubSeq(<<y>>, 1, 1) = <<y>> /\ SubSeq(<<y>>, 2, 1) = <<>>
        /\ <<y>> \o <<x>> = <<y, x>> /\ <<y, x>> \o <<>> = <<y, x>>
    BY Tuples, ZenonT(60)
  <2> QED BY <2>1, <2>2, ZenonT(60)
<1>7. ASSUME ~(y.when <= x.when) PROVE SortedInsert(<<y>>, x) = <<x, y>>
  <2>1. SortedInsert(<<y>>, x) = SubSeq(<<y>>, 1, 0) \o <<x>> \o SubSeq(<<y>>, 1, 1)
    BY <1>1, <1>4, <1>7, ZenonT(60)
  <2>2. /\ SubSeq(<<y>>, 1, 0) = <<>> /\ SubSeq(<<y>>, 1, 1) = <<y>>
        /\ <<>> \o <<x>> = <<x>>
    BY Tuples, ZenonT(60)
  <2>3. <<x>> \o <<y>> = <<x, y>>
    BY Tuples, ZenonT(60)
  <2> QED BY <2>1, <2>2, <2>3, ZenonT(60)
<1> QED BY <1>5, <1>6, <1>7, ZenonT(60)

(* The first element is the earliest, and the timer is alone exactly when  *)
(* no request is under way.                                                *)
LEMMA HeadFirst ==
  ASSUME NEW busy \in BOOLEAN, NEW list, ShapeOf(busy, list)
  PROVE  /\ list # <<>> /\ Head(list) \in Interrupts
         /\ \A i \in DOMAIN list : list[i] \in Interrupts /\ Head(list).when <= list[i].when
         /\ TimerOnly(list) <=> ~busy
         /\ ~busy => \A now : DiskAfter(list, now)
         /\ \A i, j \in DOMAIN list : i < j => list[i].when <= list[j].when
<1>1. PICK tm, dk \in Interrupts :
        /\ tm.type = "TimerInt" /\ dk.type = "DiskInt"
        /\ \/ ~busy /\ list = <<tm>>
           \/ busy /\ tm.when <= dk.when /\ list = <<tm, dk>>
           \/ busy /\ dk.when <= tm.when /\ list = <<dk, tm>>
  BY ZenonT(60) DEF ShapeOf
<1>2. tm.when \in Nat /\ dk.when \in Nat
  BY ZenonT(60) DEF Interrupts
<1>3. CASE ~busy /\ list = <<tm>>
  BY <1>1, <1>2, <1>3, SMTT(60) DEF TimerOnly, DiskAfter
<1>4. CASE busy /\ tm.when <= dk.when /\ list = <<tm, dk>>
  BY <1>1, <1>2, <1>4, SMTT(60) DEF TimerOnly
<1>5. CASE busy /\ dk.when <= tm.when /\ list = <<dk, tm>>
  BY <1>1, <1>2, <1>5, SMTT(60) DEF TimerOnly
<1> QED BY <1>1, <1>3, <1>4, <1>5, ZenonT(60)

(* CheckIfDue's taking off and putting back loses nothing and keeps the    *)
(* order.                                                                  *)
LEMMA PutBackKeeps ==
  ASSUME NEW busy \in BOOLEAN, NEW list, ShapeOf(busy, list), NEW now \in Nat,
         DiskAfter(list, now)
  PROVE  ShapeOf(busy, PutBack(list)) /\ DiskAfter(PutBack(list), now)
<1>1. PICK tm, dk \in Interrupts :
        /\ tm.type = "TimerInt" /\ dk.type = "DiskInt"
        /\ \/ ~busy /\ list = <<tm>>
           \/ busy /\ tm.when <= dk.when /\ list = <<tm, dk>>
           \/ busy /\ dk.when <= tm.when /\ list = <<dk, tm>>
  BY ZenonT(60) DEF ShapeOf
<1>2. tm.when \in Nat /\ dk.when \in Nat
  BY ZenonT(60) DEF Interrupts
<1>3. PutBack(list) = SortedInsert(Tail(list), Head(list))
  BY HeadFirst, ZenonT(60) DEF PutBack
<1>4. CASE ~busy /\ list = <<tm>>
  <2>1. Tail(list) = <<>> /\ Head(list) = tm
    BY <1>4, SMTT(60)
  <2>2. PutBack(list) = list
    BY <1>3, <1>4, <2>1, InsertOne, ZenonT(60)
  <2> QED BY <2>2, ZenonT(60)
<1>5. CASE busy /\ (list = <<tm, dk>> \/ list = <<dk, tm>>)
  <2>1. \/ Tail(list) = <<dk>> /\ Head(list) = tm
        \/ Tail(list) = <<tm>> /\ Head(list) = dk
    <3>1. /\ Tail(<<tm, dk>>) = <<dk>> /\ Head(<<tm, dk>>) = tm
          /\ Tail(<<dk, tm>>) = <<tm>> /\ Head(<<dk, tm>>) = dk
      BY Tuples, ZenonT(60)
    <3> QED BY <1>5, <3>1, ZenonT(60)
  <2>2. \/ tm.when <= dk.when /\ PutBack(list) = <<tm, dk>>
        \/ dk.when <= tm.when /\ PutBack(list) = <<dk, tm>>
    <3>1. \/ tm.when <= dk.when /\ PutBack(list) = <<tm, dk>>
          \/ dk.when <= tm.when /\ PutBack(list) = <<dk, tm>>
          \/ ~(tm.when <= dk.when) /\ PutBack(list) = <<dk, tm>>
          \/ ~(dk.when <= tm.when) /\ PutBack(list) = <<tm, dk>>
      BY <1>3, <2>1, InsertOne, ZenonT(60)
    <3>2. /\ ~(tm.when <= dk.when) => dk.when <= tm.when
          /\ ~(dk.when <= tm.when) => tm.when <= dk.when
      BY <1>2, SMTT(60)
    <3> QED BY <3>1, <3>2, ZenonT(60)
  <2>3. ShapeOf(busy, PutBack(list))
    BY <1>1, <1>5, <2>2, ZenonT(60) DEF ShapeOf
  <2>4. dk.when > now
    BY <1>1, <1>5, SMTT(60) DEF DiskAfter
  <2>5. DiskAfter(PutBack(list), now)
    BY <1>1, <2>2, <2>4, SMTT(60) DEF DiskAfter
  <2> QED BY <2>3, <2>5, ZenonT(60)
<1> QED BY <1>1, <1>4, <1>5, ZenonT(60)

(* The disk's interrupt joins the timer's.                                 *)
LEMMA ScheduleDisk ==
  ASSUME NEW list, ShapeOf(FALSE, list), NEW now \in Nat, NEW fromNow \in Nat,
         fromNow > 0, DiskAfter(list, now)
  PROVE  /\ ShapeOf(TRUE, Schedule(list, now, fromNow, "DiskInt"))
         /\ DiskAfter(Schedule(list, now, fromNow, "DiskInt"), now)
<1> DEFINE dk == [when |-> now + fromNow, type |-> "DiskInt"]
<1>1. PICK tm \in Interrupts : tm.type = "TimerInt" /\ list = <<tm>>
  BY ZenonT(60) DEF ShapeOf
<1>2. dk \in Interrupts /\ dk.type = "DiskInt" /\ dk.when \in Nat /\ dk.when > now
  BY SMTT(60) DEF Interrupts
<1>3. Schedule(list, now, fromNow, "DiskInt") = SortedInsert(<<tm>>, dk)
  BY <1>1, ZenonT(60) DEF Schedule
<1> HIDE DEF dk
<1>4. tm.when \in Nat
  BY ZenonT(60) DEF Interrupts
<1>5. \/ tm.when <= dk.when /\ SortedInsert(<<tm>>, dk) = <<tm, dk>>
      \/ dk.when <= tm.when /\ SortedInsert(<<tm>>, dk) = <<dk, tm>>
  <2>1. ~(tm.when <= dk.when) => dk.when <= tm.when
    BY <1>2, <1>4, SMTT(60)
  <2> QED BY <1>2, <2>1, InsertOne, ZenonT(60)
<1>6. ShapeOf(TRUE, SortedInsert(<<tm>>, dk))
  BY <1>1, <1>2, <1>5, ZenonT(60) DEF ShapeOf
<1>7. DiskAfter(SortedInsert(<<tm>>, dk), now)
  BY <1>1, <1>2, <1>5, SMTT(60) DEF DiskAfter
<1> QED BY <1>3, <1>6, <1>7, ZenonT(60)

(* The timer's interrupt is taken off and scheduled again.                 *)
LEMMA ScheduleTimer ==
  ASSUME NEW busy \in BOOLEAN, NEW list, ShapeOf(busy, list),
         Head(list).type = "TimerInt", NEW now \in Nat, NEW d \in Nat
  PROVE  ShapeOf(busy, Schedule(Tail(list), now, d, "TimerInt"))
<1> DEFINE new == [when |-> now + d, type |-> "TimerInt"]
<1>1. PICK tm, dk \in Interrupts :
        /\ tm.type = "TimerInt" /\ dk.type = "DiskInt"
        /\ \/ ~busy /\ list = <<tm>>
           \/ busy /\ list = <<tm, dk>>
           \/ busy /\ list = <<dk, tm>>
  BY ZenonT(60) DEF ShapeOf
<1>2. new \in Interrupts /\ new.type = "TimerInt" /\ new.when \in Nat /\ dk.when \in Nat
  BY SMTT(60) DEF Interrupts
<1>3. Schedule(Tail(list), now, d, "TimerInt") = SortedInsert(Tail(list), new)
  BY ZenonT(60) DEF Schedule
<1> HIDE DEF new
<1>4. CASE ~busy /\ list = <<tm>>
  <2>1. Tail(list) = <<>>
    BY <1>4, SMTT(60)
  <2>2. SortedInsert(Tail(list), new) = <<new>>
    BY <1>2, <2>1, InsertOne, ZenonT(60)
  <2> QED BY <1>1, <1>2, <1>3, <1>4, <2>2, ZenonT(60) DEF ShapeOf
<1>5. CASE busy /\ list = <<tm, dk>>
  <2>1. Tail(list) = <<dk>>
    BY <1>5, SMTT(60)
  <2>2. ~(dk.when <= new.when) => new.when <= dk.when
    BY <1>2, SMTT(60)
  <2>3. \/ dk.when <= new.when /\ SortedInsert(Tail(list), new) = <<dk, new>>
        \/ new.when <= dk.when /\ SortedInsert(Tail(list), new) = <<new, dk>>
    BY <1>2, <2>1, <2>2, InsertOne, ZenonT(60)
  <2> QED BY <1>1, <1>2, <1>3, <1>5, <2>3, ZenonT(60) DEF ShapeOf
<1>6. ~(list = <<dk, tm>>)
  <2>1. list = <<dk, tm>> => Head(list) = dk
    BY SMTT(60)
  <2>2. "TimerInt" # "DiskInt"
    OBVIOUS
  <2> QED BY <1>1, <2>1, <2>2, ZenonT(60)
<1> QED BY <1>1, <1>4, <1>5, <1>6, ZenonT(60)

(* The handlers leave the list in order.                                   *)
LEMMA HandlerShape ==
  ASSUME active \in BOOLEAN, Shape, NEW now \in Nat, Handler(now)
  PROVE  Shape'
<1>1. CASE HandleInterrupt
  <2>1. PICK tm, dk \in Interrupts :
          /\ tm.type = "TimerInt" /\ dk.type = "DiskInt"
          /\ \/ ~active /\ pending = <<tm>>
             \/ active /\ pending = <<tm, dk>>
             \/ active /\ pending = <<dk, tm>>
    BY ZenonT(60) DEF Shape, ShapeOf
  <2>2. Head(pending).type = "DiskInt" /\ pending' = Tail(pending) /\ active' = FALSE
    BY <1>1, ZenonT(60) DEF HandleInterrupt
  <2>3. Tail(pending) = <<tm>>
    <3>1. "DiskInt" # "TimerInt"
      OBVIOUS
    <3>2. Head(<<tm>>) = tm /\ Head(<<tm, dk>>) = tm /\ Tail(<<dk, tm>>) = <<tm>>
      BY Tuples, ZenonT(60)
    <3> QED BY <2>1, <2>2, <3>1, <3>2, ZenonT(60)
  <2> QED BY <2>1, <2>2, <2>3, ZenonT(60) DEF Shape, ShapeOf
<1>2. CASE TimerExpired(now)
  <2>1. PICK d \in TimerDelays : pending' = Schedule(Tail(pending), now, d, "TimerInt")
    BY <1>2, ZenonT(60) DEF TimerExpired
  <2>2. d \in Nat
    BY SynchDiskAssumption, ZenonT(60)
  <2>3. Head(pending).type = "TimerInt" /\ active' = active
    BY <1>2, ZenonT(60) DEF TimerExpired, diskVars
  <2> QED BY <2>1, <2>2, <2>3, ScheduleTimer, ZenonT(60) DEF Shape
<1> QED BY <1>1, <1>2, ZenonT(60) DEF Handler

-----------------------------------------------------------------------------
(* The invariant.                                                          *)

(* A thread that is dispatched goes on in P or enables interrupts.         *)
LEMMA SwitchType ==
  ASSUME TypeOK, NEW ready \in SUBSET Threads,
         \A t \in ready : place'[t] \in {"resume", "P"}, Switch(ready)
  PROVE  cur' \in Threads /\ mode' \in {"idle", "resume", "P"}
  BY ZenonT(60) DEF Switch, TypeOK

(* Handlers leave the processor and the head of the disk alone.            *)
LEMMA HandlerType ==
  ASSUME TypeOK, NEW now, Handler(now)
  PROVE  /\ asleep' \in SUBSET asleep /\ value' \in Nat
         /\ yieldOnReturn' \in BOOLEAN /\ active' \in BOOLEAN
         /\ UNCHANGED <<lastSector, bufferInit, settled>>
<1>1. value + 1 \in Nat
  BY SMTT(60) DEF TypeOK
<1> QED BY <1>1, ZenonT(60)
           DEF Handler, HandleInterrupt, RequestDone, TimerExpired,
           diskVars, TypeOK

(* The clock never goes back.                                              *)
LEMMA ClockType ==
  ASSUME TypeOK, Shape
  PROVE  /\ totalTicks + SystemTick \in Nat
         /\ Head(pending).when \in Nat
<1>1. SystemTick \in Nat
  BY SynchDiskAssumption, ZenonT(60)
<1>2. Head(pending) \in Interrupts
  BY HeadFirst, ZenonT(60) DEF Shape, TypeOK
<1>3. Head(pending).when \in Nat
  BY <1>2, ZenonT(60) DEF Interrupts
<1> QED BY <1>1, <1>3, SMTT(60) DEF TypeOK

(* A request that Disk accepts.                                            *)
LEMMA RequestStep ==
  ASSUME IInv, NEW s \in Sectors, NEW writing \in BOOLEAN, Request(s, writing)
  PROVE  IInv'
<1> DEFINE latency == ComputeLatency(s, writing)
           seek == SeekTo(s)
<1>1. /\ mode = "run" /\ UNCHANGED <<cur, asleep, place, totalTicks, yieldOnReturn, value>>
  BY ZenonT(60) DEF Request
<1>2. CASE active
  <2>1. mode' = "abort" /\ UNCHANGED <<active, lastSector, bufferInit, settled, pending>>
    BY <1>2, ZenonT(60) DEF Request, diskVars
  <2> QED BY <1>1, <2>1, ZenonT(60)
             DEF IInv, TypeOK, Shape, DiskAhead, Buffer
<1>3. CASE ~active
  <2>1. /\ active' = TRUE /\ mode' = "P" /\ lastSector' = s
        /\ pending' = Schedule(pending, totalTicks, latency, "DiskInt")
        /\ settled' = IF seek # 0 THEN totalTicks + seek ELSE settled
        /\ bufferInit' = IF seek # 0 THEN totalTicks + seek + Rotation(seek) ELSE bufferInit
    BY <1>3, ZenonT(60) DEF Request, UpdateLast
  <2>2. s \in Nat /\ seek \in Nat /\ totalTicks \in Nat
    BY SeekIsNat, ZenonT(60) DEF IInv, TypeOK
  <2>3. PICK a \in Nat : totalTicks + seek + Rotation(seek) = a * RotationTime
    BY <2>2, RotationRoundsUp, ZenonT(60)
  <2>4. Rotation(seek) \in Nat
    BY <2>2, RotationRoundsUp, ZenonT(60)
  <2>5. latency \in Nat /\ latency > 0
    BY <2>3, LatencyCases, ZenonT(60) DEF IInv
  <2>6. Shape' /\ DiskAfter(pending', totalTicks')
    <3>1. ShapeOf(FALSE, pending) /\ DiskAfter(pending, totalTicks)
      BY <1>1, <1>3, ZenonT(60) DEF IInv, TypeOK, Shape, DiskAhead
    <3>2. /\ ShapeOf(TRUE, Schedule(pending, totalTicks, latency, "DiskInt"))
          /\ DiskAfter(Schedule(pending, totalTicks, latency, "DiskInt"), totalTicks)
      BY <2>2, <2>5, <3>1, ScheduleDisk, ZenonT(60)
    <3> QED BY <1>1, <2>1, <3>2, ZenonT(60) DEF Shape
  <2>7. /\ totalTicks + seek \in Nat /\ totalTicks + seek + Rotation(seek) \in Nat
        /\ totalTicks + seek + Rotation(seek) >= totalTicks + seek
    BY <2>2, <2>4, SMTT(60)
  <2>8. Buffer' /\ bufferInit' \in Nat /\ settled' \in Nat
    BY <2>1, <2>3, <2>7, ZenonT(60) DEF IInv, Buffer, TypeOK
  <2>9. TypeOK'
    BY <1>1, <2>1, <2>8, ZenonT(60) DEF IInv, TypeOK
  <2> QED BY <2>6, <2>8, <2>9, ZenonT(60) DEF IInv, DiskAhead
<1> QED BY <1>2, <1>3, ZenonT(60)

(* The steps that fire an interrupt.                                       *)
LEMMA FiresStep ==
  ASSUME IInv, TickFires \/ IdleFires \/ IdleFiresMore
  PROVE  IInv'
<1>1. /\ UNCHANGED <<cur, place>> /\ mode' \in {"tick", "due"}
      /\ \/ totalTicks' = totalTicks
         \/ totalTicks' = Head(pending).when
      /\ Handler(totalTicks) \/ Handler(totalTicks')
  BY ZenonT(60) DEF TickFires, IdleFires, IdleFiresMore
<1>2. totalTicks \in Nat /\ totalTicks' \in Nat
  BY <1>1, ClockType, ZenonT(60) DEF IInv, TypeOK
<1>3. Shape'
  BY <1>1, <1>2, HandlerShape, ZenonT(60) DEF IInv, TypeOK
<1>4. /\ asleep' \in SUBSET asleep /\ value' \in Nat
      /\ yieldOnReturn' \in BOOLEAN /\ active' \in BOOLEAN
      /\ UNCHANGED <<lastSector, bufferInit, settled>>
  BY <1>1, HandlerType, ZenonT(60) DEF IInv
<1>5. TypeOK' /\ Buffer'
  BY <1>1, <1>2, <1>4, ZenonT(60) DEF IInv, TypeOK, Buffer
<1>6. DiskAhead'
  BY <1>1, ZenonT(60) DEF DiskAhead
<1> QED BY <1>3, <1>5, <1>6, ZenonT(60) DEF IInv

(* The steps that find no interrupt due.                                   *)
LEMMA EndsStep ==
  ASSUME IInv, TickEnds \/ IdleEnds
  PROVE  IInv'
<1>1. /\ pending' = PutBack(pending) /\ yieldOnReturn' = FALSE
      /\ UNCHANGED <<asleep, totalTicks, active, lastSector, bufferInit, settled, value>>
      /\ ~Due(pending, totalTicks, FALSE) \/ ~Due(pending, totalTicks, TRUE)
  BY ZenonT(60) DEF TickEnds, IdleEnds, diskVars
<1>2. DiskAfter(pending, totalTicks)
  <2>1. /\ pending # <<>> /\ Head(pending) \in Interrupts
        /\ \A i \in DOMAIN pending : pending[i] \in Interrupts /\ Head(pending).when <= pending[i].when
        /\ TimerOnly(pending) <=> ~active
        /\ ~active => DiskAfter(pending, totalTicks)
    BY HeadFirst, ZenonT(60) DEF IInv, TypeOK, Shape
  <2>2. CASE TimerOnly(pending)
    BY <2>1, <2>2, ZenonT(60)
  <2>3. CASE ~(Head(pending).when <= totalTicks)
    <3>1. /\ Head(pending).when \in Nat /\ totalTicks \in Nat
          /\ \A i \in DOMAIN pending : pending[i].when \in Nat
      BY <2>1, ZenonT(60) DEF Interrupts, IInv, TypeOK
    <3> QED BY <2>1, <2>3, <3>1, SMTT(60) DEF DiskAfter
  <2> QED BY <1>1, <2>1, <2>2, <2>3, ZenonT(60) DEF Due
<1>3. Shape' /\ DiskAfter(pending', totalTicks')
  BY <1>1, <1>2, PutBackKeeps, ZenonT(60) DEF IInv, TypeOK, Shape
<1>4. /\ place' \in [Threads -> {"resume", "P", "done"}]
      /\ cur' \in Threads /\ mode' \in {"run", "idle", "resume", "P"}
  <2>1. CASE TickEnds
    <3>1. CASE yieldOnReturn
      <4> DEFINE ready == IF Ready(asleep) = {cur} THEN {cur} ELSE Ready(asleep) \ {cur}
      <4>1. place' = [place EXCEPT ![cur] = "resume"] /\ Switch(ready)
        BY <2>1, <3>1, ZenonT(60) DEF TickEnds
      <4>2. \A t \in Ready(asleep) : t \in Threads /\ place[t] \in {"resume", "P"}
        BY ZenonT(60) DEF Ready, IInv, TypeOK
      <4>3. place' \in [Threads -> {"resume", "P", "done"}] /\ place'[cur] = "resume"
            /\ \A t \in Threads \ {cur} : place'[t] = place[t]
        BY <4>1, ZenonT(60) DEF IInv, TypeOK
      <4>4. ready \in SUBSET Threads /\ \A t \in ready : place'[t] \in {"resume", "P"}
        BY <4>2, <4>3, ZenonT(60) DEF IInv, TypeOK
      <4> HIDE DEF ready
      <4> QED BY <4>1, <4>3, <4>4, SwitchType, ZenonT(60) DEF IInv
    <3> QED BY <2>1, <3>1, ZenonT(60) DEF TickEnds, IInv, TypeOK
  <2>2. CASE IdleEnds
    <3>1. place' = place /\ Switch(Ready(asleep))
      BY <2>2, ZenonT(60) DEF IdleEnds
    <3>2. Ready(asleep) \in SUBSET Threads /\ \A t \in Ready(asleep) : place'[t] \in {"resume", "P"}
      BY <3>1, ZenonT(60) DEF Ready, IInv, TypeOK
    <3> QED BY <3>1, <3>2, SwitchType, ZenonT(60) DEF IInv, TypeOK
  <2> QED BY <2>1, <2>2, ZenonT(60)
<1>5. TypeOK' /\ Buffer'
  BY <1>1, <1>4, ZenonT(60) DEF IInv, TypeOK, Buffer
<1> QED BY <1>3, <1>5, ZenonT(60) DEF IInv, DiskAhead

(* P and Finish, which may leave the processor.                            *)
LEMMA LeaveStep ==
  ASSUME IInv, P \/ Finish
  PROVE  IInv'
<1>1. UNCHANGED <<pending, yieldOnReturn, active, lastSector, bufferInit, settled>>
  BY ZenonT(60) DEF P, Finish, diskVars
<1>2. CASE P /\ value > 0
  <2>1. /\ value' = value - 1 /\ totalTicks' = totalTicks + SystemTick
        /\ mode' = "tick" /\ UNCHANGED <<cur, asleep, place>>
    BY <1>2, ZenonT(60) DEF P, OneTick
  <2>2. value' \in Nat
    BY <1>2, <2>1, SMTT(60) DEF IInv, TypeOK
  <2>3. totalTicks' \in Nat
    BY <2>1, ClockType, ZenonT(60) DEF IInv
  <2> QED BY <1>1, <2>1, <2>2, <2>3, ZenonT(60)
             DEF IInv, TypeOK, Shape, DiskAhead, Buffer
<1>3. CASE (P /\ ~(value > 0)) \/ Finish
  <2>1. PICK where \in {"P", "done"},
             ready \in {Ready(asleep \cup {cur}), Ready(asleep) \ {cur}} :
          /\ place' = [place EXCEPT ![cur] = where] /\ Switch(ready)
          /\ asleep' \in {asleep, asleep \cup {cur}}
          /\ UNCHANGED <<totalTicks, value>>
    BY <1>3, ZenonT(60) DEF P, Finish
  <2>2. ready \in SUBSET Threads /\ cur \notin ready
        /\ \A t \in ready : place[t] \in {"resume", "P"}
    BY <2>1, ZenonT(60) DEF Ready, IInv, TypeOK
  <2>3. place' \in [Threads -> {"resume", "P", "done"}]
        /\ \A t \in ready : place'[t] \in {"resume", "P"}
    BY <2>1, <2>2, ZenonT(60) DEF IInv, TypeOK
  <2>4. cur' \in Threads /\ mode' \in {"idle", "resume", "P"}
    BY <2>1, <2>2, <2>3, SwitchType, ZenonT(60) DEF IInv
  <2>5. mode \in {"run", "P", "resume"}
    BY <1>3, ZenonT(60) DEF P, Finish
  <2>6. TypeOK'
    BY <1>1, <2>1, <2>3, <2>4, ZenonT(60) DEF IInv, TypeOK
  <2> QED BY <1>1, <2>1, <2>5, <2>6, ZenonT(60)
             DEF IInv, Shape, DiskAhead, Buffer
<1> QED BY <1>2, <1>3, ZenonT(60)

(* The invariant holds initially.                                          *)
LEMMA InitIInv ==
  SInit => IInv
<1> SUFFICES ASSUME SInit PROVE IInv
  BY ZenonT(60)
<1>1. 0 \in Nat /\ 0 \in Sectors
  <2>1. Tracks \in Nat \ {0} /\ SectorsPerTrack \in Nat \ {0}
    BY SynchDiskAssumption, ZenonT(60)
  <2>2. Tracks * SectorsPerTrack >= 1
    BY <2>1, SMTT(60)
  <2> QED BY <2>1, <2>2, SMTT(60) DEF Sectors
<1>2. TypeOK
  BY <1>1, ZenonT(60) DEF SInit, TypeOK
<1>3. Shape /\ DiskAfter(pending, totalTicks)
  <2>1. PICK d \in TimerDelays : pending = Schedule(<<>>, 0, d, "TimerInt")
    BY ZenonT(60) DEF SInit, TimerStarted
  <2> DEFINE tm == [when |-> 0 + d, type |-> "TimerInt"]
             dk == [when |-> 0 + d, type |-> "DiskInt"]
  <2>2. /\ tm \in Interrupts /\ tm.type = "TimerInt"
        /\ dk \in Interrupts /\ dk.type = "DiskInt"
    <3>1. 0 + d \in Nat
      BY SynchDiskAssumption, SMTT(60)
    <3> QED BY <3>1, ZenonT(60) DEF Interrupts
  <2>3. pending = <<tm>>
    BY <2>1, <2>2, InsertOne, ZenonT(60) DEF Schedule
  <2>4. ShapeOf(FALSE, pending)
    BY <2>2, <2>3, ZenonT(60) DEF ShapeOf
  <2> QED BY <2>4, HeadFirst, ZenonT(60) DEF Shape, SInit
<1>4. Buffer
  <2>1. 0 = 0 * RotationTime /\ 0 >= 0
    BY SynchDiskAssumption, SMTT(60)
  <2> QED BY <1>1, <2>1, ZenonT(60) DEF SInit, Buffer
<1> QED BY <1>2, <1>3, <1>4, ZenonT(60) DEF IInv, DiskAhead

(* Every step preserves the invariant.                                     *)
LEMMA StepIInv ==
  IInv /\ [SNext]_svars => IInv'
<1> SUFFICES ASSUME IInv, [SNext]_svars PROVE IInv'
  BY ZenonT(60)
<1>1. CASE Compute \/ Resume
  <2>1. /\ totalTicks' = totalTicks + SystemTick /\ mode' = "tick"
        /\ UNCHANGED <<cur, asleep, place, pending, yieldOnReturn, active, lastSector,
                       bufferInit, settled, value>>
    BY <1>1, ZenonT(60) DEF Compute, Resume, OneTick, diskVars
  <2>2. totalTicks' \in Nat
    BY <2>1, ClockType, ZenonT(60) DEF IInv
  <2> QED BY <2>1, <2>2, ZenonT(60)
             DEF IInv, TypeOK, Shape, DiskAhead, Buffer
<1>2. CASE IdleHalts
  <2>1. /\ totalTicks' = totalTicks \/ totalTicks' = Head(pending).when
        /\ mode' = "halted"
        /\ UNCHANGED <<cur, asleep, place, pending, yieldOnReturn, active, lastSector,
                       bufferInit, settled, value>>
    BY <1>2, ZenonT(60) DEF IdleHalts, diskVars
  <2>2. totalTicks' \in Nat
    BY <2>1, ClockType, ZenonT(60) DEF IInv, TypeOK
  <2> QED BY <2>1, <2>2, ZenonT(60)
             DEF IInv, TypeOK, Shape, DiskAhead, Buffer
<1>3. CASE UNCHANGED svars
  BY <1>3, ZenonT(60)
     DEF svars, diskVars, IInv, TypeOK, Shape, DiskAhead, Buffer
<1> QED BY <1>1, <1>2, <1>3, RequestStep, FiresStep, EndsStep, LeaveStep,
           ZenonT(60)
           DEF SNext

-----------------------------------------------------------------------------
(* What is due fires.                                                      *)

(* Nothing of a list comes before time n.                                  *)
LEMMA HeadFrom ==
  ASSUME NEW busy \in BOOLEAN, NEW list, ShapeOf(busy, list), NEW n \in Nat,
         AllFrom(list, n)
  PROVE  /\ Head(list) \in Interrupts /\ Head(list).when >= n
         /\ \E y \in Interrupts : Tail(list) \in {<<>>, <<y>>}
         /\ AllFrom(Tail(list), n)
<1>1. PICK tm, dk \in Interrupts : list \in {<<tm>>, <<tm, dk>>, <<dk, tm>>}
  BY ZenonT(60) DEF ShapeOf
<1>2. CASE list = <<tm>>
  <2>1. Head(list) = tm /\ Tail(list) = <<>>
    BY <1>2, Tuples, ZenonT(60)
  <2> QED BY <1>1, <1>2, <2>1, SMTT(60) DEF AllFrom
<1>3. ASSUME NEW x \in Interrupts, NEW y \in Interrupts, list = <<x, y>>
      PROVE  /\ Head(list) \in Interrupts /\ Head(list).when >= n
             /\ \E z \in Interrupts : Tail(list) \in {<<>>, <<z>>}
             /\ AllFrom(Tail(list), n)
  <2>1. Head(list) = x /\ Tail(list) = <<y>>
    BY <1>3, Tuples, ZenonT(60)
  <2>2. x.when >= n /\ y.when >= n
    BY <1>3, SMTT(60) DEF AllFrom
  <2>3. AllFrom(<<y>>, n)
    BY <2>2, SMTT(60) DEF AllFrom
  <2> QED BY <2>1, <2>2, <2>3, ZenonT(60)
<1> QED BY <1>1, <1>2, <1>3, ZenonT(60)

(* An interrupt that does not come before time n keeps that so.            *)
LEMMA InsertFrom ==
  ASSUME NEW x \in Interrupts, NEW y \in Interrupts, NEW n \in Nat, x.when >= n,
         NEW list \in {<<>>, <<y>>}, AllFrom(list, n)
  PROVE  AllFrom(SortedInsert(list, x), n)
<1>1. CASE list = <<>>
  <2>1. AllFrom(<<x>>, n)
    BY SMTT(60) DEF AllFrom
  <2> QED BY <1>1, <2>1, InsertOne, ZenonT(60)
<1>2. CASE list = <<y>>
  <2>1. y.when >= n
    BY <1>2, SMTT(60) DEF AllFrom
  <2>2. AllFrom(<<x, y>>, n) /\ AllFrom(<<y, x>>, n)
    BY <2>1, SMTT(60) DEF AllFrom
  <2> QED BY <1>2, <2>2, InsertOne, ZenonT(60)
<1> QED BY <1>1, <1>2, ZenonT(60)

(* CheckIfDue's putting back changes no time.                              *)
LEMMA PutBackFrom ==
  ASSUME NEW busy \in BOOLEAN, NEW list, ShapeOf(busy, list), NEW n \in Nat,
         AllFrom(list, n)
  PROVE  AllFrom(PutBack(list), n) /\ (TimerOnly(list) => PutBack(list) = list)
<1>1. PutBack(list) = SortedInsert(Tail(list), Head(list))
  BY HeadFirst, ZenonT(60) DEF PutBack
<1>2. AllFrom(PutBack(list), n)
  <2>1. /\ Head(list) \in Interrupts /\ Head(list).when >= n
        /\ AllFrom(Tail(list), n)
    BY HeadFrom, ZenonT(60)
  <2>2. PICK y \in Interrupts : Tail(list) \in {<<>>, <<y>>}
    BY HeadFrom, ZenonT(60)
  <2>3. AllFrom(SortedInsert(Tail(list), Head(list)), n)
    BY <2>1, <2>2, InsertFrom, ZenonT(60)
  <2> QED BY <1>1, <2>3, ZenonT(60)
<1>3. ASSUME TimerOnly(list) PROVE PutBack(list) = list
  <2>1. ~busy
    BY <1>3, HeadFirst, ZenonT(60)
  <2>2. PICK tm \in Interrupts : list = <<tm>>
    BY <2>1, ZenonT(60) DEF ShapeOf
  <2>3. Tail(list) = <<>> /\ Head(list) = tm
    BY <2>2, Tuples, ZenonT(60)
  <2> QED BY <1>1, <2>2, <2>3, InsertOne, ZenonT(60)
<1> QED BY <1>2, <1>3, ZenonT(60)

(* Nor do the handlers let an interrupt come before the one they serve.    *)
LEMMA HandlerFrom ==
  ASSUME active \in BOOLEAN, Shape, NEW now \in Nat, Handler(now),
         AllFrom(pending, now)
  PROVE  AllFrom(pending', now)
<1>1. /\ AllFrom(Tail(pending), now)
      /\ \E y \in Interrupts : Tail(pending) \in {<<>>, <<y>>}
  BY HeadFrom, ZenonT(60) DEF Shape
<1>2. CASE HandleInterrupt
  BY <1>1, <1>2, ZenonT(60) DEF HandleInterrupt
<1>3. CASE TimerExpired(now)
  <2>1. PICK d \in TimerDelays : pending' = Schedule(Tail(pending), now, d, "TimerInt")
    BY <1>3, ZenonT(60) DEF TimerExpired
  <2> DEFINE new == [when |-> now + d, type |-> "TimerInt"]
  <2>2. new \in Interrupts /\ new.when >= now
    BY SynchDiskAssumption, SMTT(60) DEF Interrupts
  <2>3. pending' = SortedInsert(Tail(pending), new)
    BY <2>1, ZenonT(60) DEF Schedule
  <2> HIDE DEF new
  <2> QED BY <1>1, <2>2, <2>3, InsertFrom, ZenonT(60)
<1> QED BY <1>2, <1>3, ZenonT(60) DEF Handler

(* An interrupt that comes a tick later or more comes after the clock.     *)
LEMMA AheadIsStrict ==
  ASSUME TypeOK, Shape
  PROVE  /\ AllFrom(pending, totalTicks + 1) =>
              /\ AllFrom(pending, totalTicks)
              /\ \A i \in DOMAIN pending : pending[i].when > totalTicks
         /\ Head(pending).when > totalTicks => AllFrom(pending, totalTicks + 1)
<1>1. /\ \A i \in DOMAIN pending : pending[i] \in Interrupts
                                 /\ Head(pending).when <= pending[i].when
      /\ Head(pending) \in Interrupts
  BY HeadFirst, ZenonT(60) DEF TypeOK, Shape
<1>2. /\ totalTicks \in Nat /\ Head(pending).when \in Nat
      /\ \A i \in DOMAIN pending : pending[i].when \in Nat
  BY <1>1, ZenonT(60) DEF TypeOK, Interrupts
<1> QED BY <1>1, <1>2, SMTT(60) DEF AllFrom

(* A request adds the disk's interrupt, at a later time.                   *)
LEMMA RequestLate ==
  ASSUME IInv, Late, NEW s \in Sectors, NEW writing \in BOOLEAN,
         Request(s, writing)
  PROVE  Late'
<1> DEFINE latency == ComputeLatency(s, writing)
<1>1. mode = "run" /\ UNCHANGED <<cur, asleep, place, totalTicks, value>>
  BY ZenonT(60) DEF Request
<1>2. mode' \in {"abort", "P"}
  BY ZenonT(60) DEF Request
<1>3. Seated' /\ Waiting'
  BY <1>1, <1>2, ZenonT(60) DEF Late, Seated, Waiting, Running
<1>4. CASE active
  <2>1. mode' = "abort"
    BY <1>4, ZenonT(60) DEF Request
  <2> QED BY <1>3, <2>1, ZenonT(60) DEF Late, Ahead
<1>5. CASE ~active
  <2>1. mode' = "P" /\ pending' = Schedule(pending, totalTicks, latency, "DiskInt")
    BY <1>5, ZenonT(60) DEF Request
  <2>2. totalTicks \in Nat /\ SeekTo(s) \in Nat
    BY SeekIsNat, ZenonT(60) DEF IInv, TypeOK
  <2>3. latency \in Nat /\ latency > 0
    <3>1. PICK a \in Nat :
            totalTicks + SeekTo(s) + Rotation(SeekTo(s)) = a * RotationTime
      BY <2>2, RotationRoundsUp, ZenonT(60)
    <3> QED BY <3>1, LatencyCases, ZenonT(60) DEF IInv
  <2> DEFINE dk == [when |-> totalTicks + latency, type |-> "DiskInt"]
             n == totalTicks + 1
  <2>4. dk \in Interrupts /\ n \in Nat /\ dk.when >= n
    <3> HIDE DEF latency
    <3> QED BY <2>2, <2>3, SMTT(60) DEF Interrupts
  <2>5. AllFrom(pending, n)
    BY <1>1, ZenonT(60) DEF Late, Ahead, LeftByIdle
  <2>6. PICK y \in Interrupts : pending = <<y>>
    BY <1>5, ZenonT(60) DEF IInv, Shape, ShapeOf
  <2>7. pending' = SortedInsert(pending, dk)
    BY <2>1, ZenonT(60) DEF Schedule
  <2> HIDE DEF dk, n
  <2>8. AllFrom(pending', n)
    BY <2>4, <2>5, <2>6, <2>7, InsertFrom, ZenonT(60)
  <2>9. AllFrom(pending', totalTicks' + 1)
    BY <1>1, <2>8, ZenonT(60) DEF n
  <2> QED BY <1>3, <2>1, <2>9, ZenonT(60) DEF Late, Ahead
<1> QED BY <1>4, <1>5, ZenonT(60)

(* Idle fires the first interrupt when its time has come, and those of the *)
(* same time; a thread that becomes ready then is woken by the disk.       *)
LEMMA FiresLate ==
  ASSUME IInv, Late, TickFires \/ IdleFires \/ IdleFiresMore
  PROVE  Late'
<1>1. /\ UNCHANGED <<cur, place>> /\ mode' \in {"tick", "due"}
      /\ mode' = "tick" => mode = "tick"
  BY ZenonT(60) DEF TickFires, IdleFires, IdleFiresMore
<1>2. PICK now \in {totalTicks, totalTicks'} : Handler(now)
  BY ZenonT(60) DEF TickFires, IdleFires, IdleFiresMore
<1>3. asleep' \in SUBSET asleep
  BY <1>2, HandlerType, ZenonT(60) DEF IInv
<1>4. Seated'
  BY <1>1, <1>3, ZenonT(60) DEF Late, Seated, Running
<1>5. CASE TickFires
  <2>1. mode' = "tick"
    BY <1>5, ZenonT(60) DEF TickFires
  <2> QED BY <1>4, <2>1, ZenonT(60) DEF Late, Waiting, Ahead
<1>6. CASE IdleFires \/ IdleFiresMore
  <2>1. mode \in {"idle", "due"} /\ mode' = "due" /\ Handler(totalTicks')
    BY <1>6, ZenonT(60) DEF IdleFires, IdleFiresMore
  <2>2. AllFrom(pending, totalTicks)
    BY <2>1, ZenonT(60) DEF Late, Ahead
  <2>3. totalTicks' \in Nat /\ AllFrom(pending, totalTicks')
    <3>1. /\ Head(pending).when \in Nat /\ totalTicks \in Nat
          /\ \A i \in DOMAIN pending : Head(pending).when <= pending[i].when
      BY ClockType, HeadFirst, ZenonT(60) DEF IInv, Shape, TypeOK
    <3>2. totalTicks' = totalTicks \/ totalTicks' = Head(pending).when
      BY <1>6, ZenonT(60) DEF IdleFires, IdleFiresMore
    <3>3. \A i \in DOMAIN pending : pending[i].when \in Nat
      BY HeadFirst, ZenonT(60) DEF IInv, Shape, TypeOK, Interrupts
    <3> QED BY <2>2, <3>1, <3>2, <3>3, SMTT(60) DEF AllFrom
  <2>4. AllFrom(pending', totalTicks')
    BY <2>1, <2>3, HandlerFrom, ZenonT(60) DEF IInv, TypeOK
  <2>5. ASSUME NEW t \in Threads, t \notin asleep', place'[t] # "done"
        PROVE  place'[t] = "P" /\ value' > 0
    <3>1. value' > 0 \/ (asleep' = asleep /\ value' = value)
      <4>1. value + 1 > 0
        BY SMTT(60) DEF IInv, TypeOK
      <4> QED BY <2>1, <4>1, ZenonT(60)
                 DEF Handler, HandleInterrupt, RequestDone, TimerExpired
    <3>2. CASE t \in asleep
      BY <1>1, <2>5, <3>1, <3>2, ZenonT(60) DEF Late, Seated
    <3>3. CASE t \notin asleep
      <4>1. t \in Ready(asleep)
        BY <1>1, <2>5, <3>3, ZenonT(60) DEF Ready
      <4>2. place[t] = "P" /\ value > 0
        BY <2>1, <4>1, ZenonT(60) DEF Late, Waiting
      <4> QED BY <1>1, <3>1, <4>2, ZenonT(60)
    <3> QED BY <3>2, <3>3, ZenonT(60)
  <2>6. Waiting'
    BY <2>1, <2>5, ZenonT(60) DEF Waiting, Ready
  <2>7. Ahead'
    BY <2>1, <2>4, ZenonT(60) DEF Ahead
  <2> QED BY <1>4, <2>6, <2>7, ZenonT(60) DEF Late
<1> QED BY <1>5, <1>6, ZenonT(60)

(* What a switch among the ready threads leaves.                           *)
LEMMA SwitchLate ==
  ASSUME NEW ready \in SUBSET Ready(asleep)', Switch(ready),
         ready = {} => Ready(asleep)' = {},
         \A t \in asleep' : place'[t] = "P",
         \A t \in Threads : place'[t] \in {"resume", "P", "done"}
  PROVE  /\ Seated' /\ Waiting' /\ mode' \in {"idle", "resume", "P"}
         /\ mode' # "idle" => cur' \in ready /\ mode' = place'[cur']
<1>1. CASE ready = {}
  <2>1. mode' = "idle"
    BY <1>1, ZenonT(60) DEF Switch
  <2> QED BY <1>1, <2>1, ZenonT(60) DEF Seated, Waiting, Running
<1>2. CASE ready # {}
  <2>1. PICK t \in ready : cur' = t /\ mode' = place'[t]
    BY <1>2, ZenonT(60) DEF Switch
  <2>2. t \in Threads /\ t \notin asleep' /\ place'[t] # "done"
    BY <2>1, ZenonT(60) DEF Ready
  <2>3. mode' \in {"resume", "P"}
    BY <2>1, <2>2, ZenonT(60)
  <2>4. Seated'
    BY <2>1, <2>2, ZenonT(60) DEF Seated, Running
  <2> QED BY <2>1, <2>3, <2>4, ZenonT(60) DEF Waiting
<1> QED BY <1>1, <1>2, ZenonT(60)

(* The thread that leaves the processor sleeps in P or is done.            *)
LEMMA LeaveLate ==
  ASSUME IInv, Late, P \/ Finish
  PROVE  Late'
<1>0. /\ cur \in Threads /\ asleep \in SUBSET Threads
      /\ place \in [Threads -> {"resume", "P", "done"}]
  BY ZenonT(60) DEF IInv, TypeOK
<1>1. CASE P /\ value > 0
  <2>1. mode = "P" /\ mode' = "tick" /\ UNCHANGED <<cur, asleep, place>>
    BY <1>1, ZenonT(60) DEF P, OneTick
  <2> QED BY <2>1, ZenonT(60) DEF Late, Seated, Waiting, Ahead, Running
<1>2. CASE (P /\ ~(value > 0)) \/ Finish
  <2>1. PICK where \in {"P", "done"}, ready \in SUBSET Threads :
          /\ place' = [place EXCEPT ![cur] = where] /\ Switch(ready)
          /\ asleep' = IF where = "P" THEN asleep \cup {cur} ELSE asleep
          /\ ready = Ready(asleep') \ {cur}
          /\ UNCHANGED <<totalTicks, pending, value>>
    <3>1. CASE P /\ ~(value > 0)
      <4>1. Ready(asleep') \in SUBSET Threads
            /\ Ready(asleep') = Ready(asleep') \ {cur}
        BY <3>1, ZenonT(60) DEF P, Ready
      <4> QED BY <3>1, <4>1, ZenonT(60) DEF P
    <3>2. CASE Finish
      <4>1. Ready(asleep') \ {cur} \in SUBSET Threads /\ asleep' = asleep
        BY <3>2, ZenonT(60) DEF Finish, Ready
      <4>2. "done" # "P"
        OBVIOUS
      <4> QED BY <3>2, <4>1, <4>2, ZenonT(60) DEF Finish
    <3> QED BY <1>2, <3>1, <3>2, ZenonT(60)
  <2>2. /\ place'[cur] = where
        /\ \A t \in Threads \ {cur} : place'[t] = place[t]
        /\ \A t \in Threads : place'[t] \in {"resume", "P", "done"}
    BY <1>0, <2>1, ZenonT(60)
  <2>3. cur \notin asleep
    BY <1>2, ZenonT(60) DEF Late, Seated, Running, P, Finish
  <2>4. \A t \in asleep' : place'[t] = "P"
    BY <1>0, <2>1, <2>2, <2>3, ZenonT(60) DEF Late, Seated
  <2>5. Ready(asleep)' = ready
    <3>1. cur \notin Ready(asleep)'
      BY <2>1, <2>2, ZenonT(60) DEF Ready
    <3>2. \A t \in Threads \ {cur} : t \in Ready(asleep)' <=> t \in ready
      BY <2>1, <2>2, ZenonT(60) DEF Ready
    <3>3. Ready(asleep)' \in SUBSET Threads
      BY ZenonT(60) DEF Ready
    <3> QED BY <2>1, <3>1, <3>2, <3>3, ZenonT(60)
  <2>6. /\ Seated' /\ Waiting' /\ mode' \in {"idle", "resume", "P"}
    BY <2>1, <2>2, <2>4, <2>5, SwitchLate, ZenonT(60)
  <2>7. AllFrom(pending, totalTicks + 1)
    BY <1>2, ZenonT(60) DEF P, Finish, Late, Ahead, LeftByIdle
  <2>8. AllFrom(pending, totalTicks)
    BY <2>7, AheadIsStrict, ZenonT(60) DEF IInv
  <2>9. Ahead'
    BY <2>1, <2>7, <2>8, ZenonT(60) DEF Ahead
  <2> QED BY <2>6, <2>9, ZenonT(60) DEF Late
<1> QED BY <1>1, <1>2, ZenonT(60)

(* OneTick ends when nothing is due.                                       *)
LEMMA TickEndsLate ==
  ASSUME IInv, Late, TickEnds
  PROVE  Late'
<1>0. /\ cur \in Threads /\ asleep \in SUBSET Threads
      /\ place \in [Threads -> {"resume", "P", "done"}]
      /\ totalTicks \in Nat /\ active \in BOOLEAN
  BY ZenonT(60) DEF IInv, TypeOK
<1>1. /\ mode = "tick" /\ pending' = PutBack(pending)
      /\ ~Due(pending, totalTicks, FALSE) /\ UNCHANGED <<asleep, totalTicks>>
  BY ZenonT(60) DEF TickEnds
<1>2. AllFrom(pending', totalTicks' + 1) /\ AllFrom(pending', totalTicks')
  <2>1. ~(Head(pending).when <= totalTicks)
    BY <1>0, <1>1, HeadFirst, ZenonT(60) DEF Due, IInv, Shape
  <2>2. Head(pending).when > totalTicks
    BY <1>0, <2>1, ClockType, SMTT(60) DEF IInv
  <2>3. AllFrom(pending, totalTicks + 1) /\ AllFrom(pending, totalTicks)
    BY <2>2, AheadIsStrict, ZenonT(60) DEF IInv
  <2>4. totalTicks + 1 \in Nat
    BY <1>0, SMTT(60)
  <2> QED BY <1>0, <1>1, <2>3, <2>4, PutBackFrom, ZenonT(60) DEF IInv, Shape
<1>3. cur \notin asleep /\ place[cur] # "done"
  BY <1>0, <1>1, ZenonT(60) DEF Late, Seated, Running
<1>4. CASE ~yieldOnReturn
  <2>1. mode' = "run" /\ UNCHANGED <<cur, place>>
    BY <1>4, ZenonT(60) DEF TickEnds
  <2>2. Seated' /\ Waiting'
    BY <1>1, <2>1, ZenonT(60) DEF Late, Seated, Waiting, Running
  <2> QED BY <1>2, <2>1, <2>2, ZenonT(60) DEF Late, Ahead
<1>5. CASE yieldOnReturn
  <2> DEFINE ready == IF Ready(asleep) = {cur} THEN {cur} ELSE Ready(asleep) \ {cur}
  <2>1. place' = [place EXCEPT ![cur] = "resume"] /\ Switch(ready)
    BY <1>5, ZenonT(60) DEF TickEnds
  <2>2. /\ place'[cur] = "resume"
        /\ \A t \in Threads \ {cur} : place'[t] = place[t]
        /\ \A t \in Threads : place'[t] \in {"resume", "P", "done"}
    BY <1>0, <2>1, ZenonT(60)
  <2>3. Ready(asleep)' = Ready(asleep) /\ cur \in Ready(asleep)
    <3>1. \A t \in Threads : place'[t] = "done" <=> place[t] = "done"
      BY <1>3, <2>2, ZenonT(60)
    <3> QED BY <1>0, <1>1, <1>3, <3>1, ZenonT(60) DEF Ready
  <2>4. \A t \in asleep' : place'[t] = "P"
    BY <1>0, <1>1, <1>3, <2>2, ZenonT(60) DEF Late, Seated
  <2>5. ready \in SUBSET Ready(asleep)' /\ ready # {}
    BY <2>3, ZenonT(60)
  <2> HIDE DEF ready
  <2>6. Seated' /\ Waiting' /\ mode' \in {"idle", "resume", "P"}
    BY <2>1, <2>2, <2>4, <2>5, SwitchLate, ZenonT(60)
  <2>7. Ahead'
    BY <1>2, ZenonT(60) DEF Ahead
  <2> QED BY <2>6, <2>7, ZenonT(60) DEF Late
<1> QED BY <1>4, <1>5, ZenonT(60)

(* Idle ends when nothing is due but, perhaps, the timer alone: then the   *)
(* thread that it dispatches was woken by the disk.                        *)
LEMMA IdleEndsLate ==
  ASSUME IInv, Late, IdleEnds
  PROVE  Late'
<1>0. /\ asleep \in SUBSET Threads /\ totalTicks \in Nat /\ active \in BOOLEAN
      /\ place \in [Threads -> {"resume", "P", "done"}]
  BY ZenonT(60) DEF IInv, TypeOK
<1>1. /\ mode = "due" /\ pending' = PutBack(pending)
      /\ ~Due(pending, totalTicks, TRUE)
      /\ UNCHANGED <<asleep, place, totalTicks, value>> /\ Switch(Ready(asleep))
  BY ZenonT(60) DEF IdleEnds
<1>2. Ready(asleep)' = Ready(asleep)
  BY <1>1, ZenonT(60) DEF Ready
<1>3. /\ Seated' /\ Waiting' /\ mode' \in {"idle", "resume", "P"}
      /\ mode' # "idle" => cur' \in Ready(asleep) /\ mode' = place'[cur']
  <2>1. \A t \in asleep' : place'[t] = "P"
    BY <1>1, ZenonT(60) DEF Late, Seated
  <2>2. \A t \in Threads : place'[t] \in {"resume", "P", "done"}
    BY <1>0, <1>1, ZenonT(60)
  <2>3. Ready(asleep) \in SUBSET Ready(asleep)'
    BY <1>2, ZenonT(60)
  <2> QED BY <1>1, <1>2, <2>1, <2>2, <2>3, SwitchLate, ZenonT(60)
<1>4. AllFrom(pending, totalTicks)
  BY <1>1, ZenonT(60) DEF Late, Ahead
<1>5. AllFrom(pending', totalTicks')
  BY <1>0, <1>1, <1>4, PutBackFrom, ZenonT(60) DEF IInv, Shape
<1>6. CASE Head(pending).when > totalTicks
  <2>1. AllFrom(pending, totalTicks + 1)
    BY <1>6, AheadIsStrict, ZenonT(60) DEF IInv
  <2>2. totalTicks + 1 \in Nat
    BY <1>0, SMTT(60)
  <2>3. AllFrom(pending', totalTicks' + 1)
    BY <1>0, <1>1, <2>1, <2>2, PutBackFrom, ZenonT(60) DEF IInv, Shape
  <2> QED BY <1>3, <1>5, <2>3, ZenonT(60) DEF Late, Ahead
<1>7. CASE ~(Head(pending).when > totalTicks)
  <2>1. Head(pending).when = totalTicks
    <3>1. Head(pending).when >= totalTicks
      BY <1>0, <1>4, HeadFrom, ZenonT(60) DEF IInv, Shape
    <3> QED BY <1>0, <1>7, <3>1, ClockType, SMTT(60) DEF IInv
  <2>2. TimerOnly(pending)
    <3>1. totalTicks <= totalTicks
      BY <1>0, SMTT(60)
    <3> QED BY <1>0, <1>1, <2>1, <3>1, HeadFirst, ZenonT(60) DEF Due, IInv, Shape
  <2>3. ~active /\ pending' = pending
    BY <1>0, <1>1, <1>4, <2>2, HeadFirst, PutBackFrom, ZenonT(60) DEF IInv, Shape
  <2>4. PICK tm \in Interrupts : tm.type = "TimerInt" /\ pending = <<tm>>
    BY <2>3, ZenonT(60) DEF IInv, Shape, ShapeOf
  <2>5. Head(pending) = tm
    BY <2>4, Tuples, ZenonT(60)
  <2>6. tm = [when |-> totalTicks, type |-> "TimerInt"]
    BY <2>1, <2>4, <2>5, ZenonT(60) DEF Interrupts
  <2>7. mode' # "idle" => mode' = "P" /\ value' > 0
    BY <1>1, <1>3, ZenonT(60) DEF Late, Waiting
  <2>8. mode' # "idle" => LeftByIdle'
    BY <1>1, <2>3, <2>4, <2>6, <2>7, ZenonT(60) DEF LeftByIdle
  <2>9. Ahead'
    BY <1>3, <1>5, <2>8, ZenonT(60) DEF Ahead
  <2> QED BY <1>3, <2>9, ZenonT(60) DEF Late
<1> QED BY <1>6, <1>7, ZenonT(60)

(* No thread sleeps at first, and the timer's first interrupt is to come.  *)
LEMMA InitLate ==
  SInit => Late
<1> SUFFICES ASSUME SInit PROVE Late
  BY ZenonT(60)
<1>1. Seated /\ Waiting
  BY ZenonT(60) DEF SInit, Seated, Waiting, Running
<1>2. AllFrom(pending, totalTicks + 1)
  <2>1. PICK d \in TimerDelays : pending = Schedule(<<>>, 0, d, "TimerInt")
    BY ZenonT(60) DEF SInit, TimerStarted
  <2> DEFINE tm == [when |-> 0 + d, type |-> "TimerInt"]
  <2>2. tm \in Interrupts /\ tm.when >= 0 + 1
    BY SynchDiskAssumption, SMTT(60) DEF Interrupts
  <2>3. pending = SortedInsert(<<>>, tm)
    BY <2>1, ZenonT(60) DEF Schedule
  <2> HIDE DEF tm
  <2>4. pending = <<tm>>
    BY <2>2, <2>3, InsertOne, ZenonT(60)
  <2>5. totalTicks = 0
    BY ZenonT(60) DEF SInit
  <2> QED BY <2>2, <2>4, <2>5, SMTT(60) DEF AllFrom
<1> QED BY <1>1, <1>2, ZenonT(60) DEF Late, Ahead, SInit

(* Every step preserves what is known of the interrupts that are due.      *)
LEMMA StepLate ==
  IInv /\ Late /\ [SNext]_svars => Late'
<1> SUFFICES ASSUME IInv, Late, [SNext]_svars PROVE Late'
  BY ZenonT(60)
<1>1. CASE Compute \/ Resume
  <2>1. mode \in {"run", "resume"} /\ mode' = "tick" /\ UNCHANGED <<cur, asleep, place>>
    BY <1>1, ZenonT(60) DEF Compute, Resume, OneTick
  <2> QED BY <2>1, ZenonT(60) DEF Late, Seated, Waiting, Ahead, Running
<1>2. CASE IdleHalts
  <2>1. mode' = "halted" /\ UNCHANGED <<cur, asleep, place>>
    BY <1>2, ZenonT(60) DEF IdleHalts
  <2> QED BY <2>1, ZenonT(60) DEF Late, Seated, Waiting, Ahead, Running
<1>3. CASE UNCHANGED svars
  BY <1>3, ZenonT(60)
     DEF svars, Late, Seated, Waiting, Ahead, Running, Ready, LeftByIdle, AllFrom
<1> QED BY <1>1, <1>2, <1>3, RequestLate, FiresLate, TickEndsLate, IdleEndsLate,
           LeaveLate, ZenonT(60)
           DEF SNext

(* The list of pending interrupts is in order and, when a thread runs,     *)
(* nothing that OneTick or Idle should have fired is left in it, but for   *)
(* the timer that Idle leaves behind when it falls due alone together with *)
(* the interrupt that ended Idle: for any number of threads that use the   *)
(* disk, any time slices and any timing of the disk.                       *)
THEOREM ClockCorrectness ==
  SSpec => []NoneOverdue
<1>1. IInv /\ Late => NoneOverdue
  <2> SUFFICES ASSUME IInv, Late PROVE NoneOverdue
    BY ZenonT(60)
  <2>1. \A i, j \in DOMAIN pending : i < j => pending[i].when <= pending[j].when
    BY HeadFirst, ZenonT(60) DEF IInv, TypeOK, Shape
  <2>2. ASSUME mode \in {"run", "P", "resume"}, ~LeftByIdle
        PROVE  \A i \in DOMAIN pending : pending[i].when > totalTicks
    BY <2>2, AheadIsStrict, ZenonT(60) DEF IInv, Late, Ahead
  <2> QED BY <2>1, <2>2, ZenonT(60) DEF NoneOverdue
<1> QED BY <1>1, InitIInv, StepIInv, InitLate, StepLate, PTL DEF SSpec

(* The disk's latency is the rotation's: a read comes from the track       *)
(* buffer only if its sector passes under the head between the last seek   *)
(* and the end of the read, any other request ends when the sector next    *)
(* goes by.  For a disk of any number of tracks and sectors and any times  *)
(* of seek and rotation.                                                   *)
THEOREM LatencyCorrectness ==
  SSpec => []LatencyIsRotation
<1>1. IInv => LatencyIsRotation
  BY LatencyRight, ZenonT(60) DEF IInv, LatencyIsRotation
<1> QED BY <1>1, InitIInv, StepIInv, PTL DEF SSpec

-----------------------------------------------------------------------------
(* One request at a time.                                                  *)

(* The thread that is dispatched is one of the ready ones, and goes on     *)
(* where it was.                                                           *)
LEMMA SwitchPlaces ==
  ASSUME NEW ready \in SUBSET Threads,
         \A t \in ready : place'[t] \in {"resume", "P"}, Switch(ready)
  PROVE  /\ \A t \in Threads : Running(t)' => t \in ready
         /\ \A t \in Threads : InP(t)' <=> place'[t] = "P"
         /\ mode' \in {"idle", "resume", "P"}
<1>1. CASE ready = {}
  <2>1. mode' = "idle"
    BY <1>1, ZenonT(60) DEF Switch
  <2> QED BY <2>1, ZenonT(60) DEF Running, InP
<1>2. CASE ready # {}
  <2>1. PICK t \in ready : cur' = t /\ mode' = place'[t]
    BY <1>2, ZenonT(60) DEF Switch
  <2> QED BY <2>1, ZenonT(60) DEF Running, InP
<1> QED BY <1>1, <1>2, ZenonT(60)

(* The thread that leaves the processor stays where it is put, and the     *)
(* others where they were.                                                 *)
LEMMA LeavePlaces ==
  ASSUME TypeOK, Placed, cur \notin asleep, NEW where \in {"resume", "P", "done"},
         place' = [place EXCEPT ![cur] = where],
         where = "P" <=> InP(cur),
         NEW ready \in SUBSET Threads, Switch(ready),
         asleep' = IF where = "P" THEN asleep \cup {cur} ELSE asleep,
         \A t \in ready : t \notin asleep' /\ place'[t] \in {"resume", "P"}
  PROVE  /\ \A t \in Threads : InP(t)' <=> InP(t)
         /\ Placed'
         /\ mode' \in {"idle", "resume", "P"}
<1>1. /\ \A t \in Threads : Running(t)' => t \in ready
      /\ \A t \in Threads : InP(t)' <=> place'[t] = "P"
      /\ mode' \in {"idle", "resume", "P"}
  BY SwitchPlaces, ZenonT(60)
<1>2. cur \in Threads /\ place'[cur] = where /\ \A t \in Threads \ {cur} : place'[t] = place[t]
  BY ZenonT(60) DEF TypeOK
<1>3. \A t \in Threads \ {cur} : InP(t) <=> place[t] = "P"
  BY ZenonT(60) DEF InP, Running
<1>4. \A t \in Threads : InP(t)' <=> InP(t)
  BY <1>1, <1>2, <1>3, ZenonT(60)
<1>5. \A t \in asleep' : t \in Threads /\ place'[t] = "P"
  BY <1>2, ZenonT(60) DEF Placed, TypeOK
<1>6. \A t \in Threads : InP(t)' => t \in DiskThreads
  BY <1>4, ZenonT(60) DEF Placed
<1>7. \A t \in asleep' : ~Running(t)'
  BY <1>1, <1>5, ZenonT(60)
<1>8. \A t \in Threads : Running(t)' => place'[t] # "done"
  BY <1>1, ZenonT(60)
<1> QED BY <1>1, <1>4, <1>5, <1>6, <1>7, <1>8, ZenonT(60) DEF Placed

(* A thread's request finds no other under way.                            *)
LEMMA RequestAlone ==
  ASSUME OneUser, IInv, OneRequest, NEW s \in Sectors, NEW writing \in BOOLEAN,
         Request(s, writing)
  PROVE  OneRequest'
<1>1. /\ mode = "run" /\ cur \in DiskThreads /\ cur \in Threads
      /\ UNCHANGED <<cur, asleep, place, value>>
  BY ZenonT(60) DEF Request, IInv, TypeOK
<1>2. ~InP(cur) /\ Running(cur)
  BY <1>1, ZenonT(60) DEF InP, Running
<1>3. ~active /\ ~(value > 0) /\ \A t \in Threads : ~InP(t)
  BY <1>1, <1>2, ZenonT(60) DEF OneUser, OneRequest, Placed, Counted
<1>4. mode' = "P" /\ active' = TRUE
  BY <1>3, ZenonT(60) DEF Request
<1>5. \A t \in Threads : (InP(t)' <=> t = cur) /\ (Running(t)' <=> Running(t))
  BY <1>1, <1>2, <1>3, <1>4, ZenonT(60) DEF InP, Running
<1>6. Placed'
  BY <1>1, <1>5, ZenonT(60) DEF OneRequest, Placed, IInv, TypeOK
<1>7. Counted'
  BY <1>1, <1>3, <1>4, <1>5, ZenonT(60) DEF OneRequest, Counted
<1> QED BY <1>4, <1>6, <1>7, ZenonT(60) DEF OneRequest, RequestsFinish

(* The handlers: the disk's wakes the thread whose request it is.          *)
LEMMA HandlerAlone ==
  ASSUME OneUser, IInv, OneRequest, NEW now, Handler(now),
         mode \in {"tick", "idle", "due"}, mode' \in {"tick", "due"},
         mode' = "tick" <=> mode = "tick", UNCHANGED <<cur, place>>
  PROVE  OneRequest'
<1>1. \A t \in Threads : (InP(t)' <=> InP(t)) /\ (Running(t)' <=> Running(t))
  BY ZenonT(60) DEF InP, Running
<1>2. CASE HandleInterrupt
  <2>1. active
    <3>1. Head(pending).type = "DiskInt" /\ "DiskInt" # "TimerInt"
      BY <1>2, ZenonT(60) DEF HandleInterrupt
    <3>2. ~active => TimerOnly(pending)
      BY HeadFirst, ZenonT(60) DEF IInv, TypeOK, Shape
    <3> QED BY <3>1, <3>2, ZenonT(60) DEF TimerOnly
  <2>2. asleep # {} /\ ~(value > 0) /\ value <= 1
    BY <2>1, ZenonT(60) DEF OneRequest, Counted
  <2>3. asleep \subseteq DiskThreads
    BY ZenonT(60) DEF OneRequest, Placed, InP, IInv, TypeOK
  <2>4. PICK t \in asleep : asleep' = asleep \ {t}
    BY <1>2, <2>2, ZenonT(60) DEF HandleInterrupt, RequestDone
  <2>5. asleep' = {}
    BY <2>3, <2>4, ZenonT(60) DEF OneUser
  <2>6. active' = FALSE /\ value' <= 1 /\ value' > 0
    <3>1. value' = value + 1 /\ active' = FALSE /\ value \in Nat
      BY <1>2, ZenonT(60) DEF HandleInterrupt, RequestDone, IInv, TypeOK
    <3> QED BY <2>2, <3>1, SMTT(60)
  <2>7. \E u \in Threads : InP(u)'
    BY <1>1, <2>1, ZenonT(60) DEF OneRequest, Counted
  <2>8. Placed'
    BY <1>1, <2>5, ZenonT(60) DEF OneRequest, Placed
  <2>9. Counted'
    BY <2>5, <2>6, <2>7, ZenonT(60) DEF Counted
  <2> QED BY <2>8, <2>9, ZenonT(60) DEF OneRequest, RequestsFinish
<1>3. CASE TimerExpired(now)
  <2>1. UNCHANGED <<asleep, value, active>>
    BY <1>3, ZenonT(60) DEF TimerExpired, diskVars
  <2>2. Placed'
    BY <1>1, <2>1, ZenonT(60) DEF OneRequest, Placed, IInv, TypeOK
  <2>3. Counted'
    BY <1>1, <2>1, ZenonT(60) DEF OneRequest, Counted
  <2> QED BY <2>2, <2>3, ZenonT(60) DEF OneRequest, RequestsFinish
<1> QED BY <1>2, <1>3, ZenonT(60) DEF Handler

(* A step that neither starts nor ends a request, nor stops Nachos.        *)
LEMMA OtherAlone ==
  ASSUME OneRequest, Placed', \A t \in Threads : InP(t)' <=> InP(t),
         UNCHANGED <<value, active>>, mode' \notin {"halted", "abort"},
         asleep' = asleep \/ (active /\ asleep' # {}),
         active /\ mode = "P" => asleep' # {}
  PROVE  OneRequest'
<1>1. Counted'
  BY ZenonT(60) DEF OneRequest, Counted
<1> QED BY <1>1, ZenonT(60) DEF OneRequest, RequestsFinish

(* P and Finish.                                                           *)
LEMMA LeaveAlone ==
  ASSUME OneUser, IInv, OneRequest, P \/ Finish
  PROVE  OneRequest'
<1>0. /\ cur \in Threads /\ Running(cur) /\ cur \notin asleep
      /\ place \in [Threads -> {"resume", "P", "done"}]
  BY ZenonT(60) DEF P, Finish, Running, IInv, TypeOK, OneRequest, Placed
<1>1. CASE P /\ value > 0
  <2>1. /\ mode = "P" /\ value' = value - 1 /\ mode' = "tick"
        /\ UNCHANGED <<cur, asleep, place, active>>
    BY <1>1, ZenonT(60) DEF P, OneTick, diskVars
  <2>2. InP(cur) /\ ~active
    BY <1>0, <1>1, <2>1, ZenonT(60) DEF InP, OneRequest, Counted
  <2>3. \A t \in Threads : InP(t) <=> t = cur
    BY <1>0, <2>2, ZenonT(60) DEF OneUser, OneRequest, Placed
  <2>4. \A t \in Threads : ~InP(t)' /\ (Running(t)' <=> Running(t))
    BY <2>1, <2>3, ZenonT(60) DEF InP, Running
  <2>5. value' <= 1 /\ ~(value' > 0)
    BY <1>1, <2>1, SMTT(60) DEF OneRequest, Counted, IInv, TypeOK
  <2>6. Placed'
    BY <2>1, <2>4, ZenonT(60) DEF OneRequest, Placed, IInv, TypeOK
  <2>7. Counted'
    BY <2>1, <2>2, <2>4, <2>5, ZenonT(60) DEF OneRequest, Counted
  <2> QED BY <2>1, <2>6, <2>7, ZenonT(60) DEF OneRequest, RequestsFinish
<1>2. CASE P /\ ~(value > 0)
  <2>1. /\ mode = "P" /\ asleep' = asleep \cup {cur}
        /\ place' = [place EXCEPT ![cur] = "P"]
        /\ Switch(Ready(asleep')) /\ UNCHANGED <<value, active>>
    BY <1>2, ZenonT(60) DEF P, diskVars
  <2>2. InP(cur) /\ active
    BY <1>0, <1>2, <2>1, ZenonT(60) DEF InP, OneRequest, Counted
  <2>3. /\ Ready(asleep') \in SUBSET Threads
        /\ \A t \in Ready(asleep') : t \notin asleep' /\ place'[t] \in {"resume", "P"}
    BY <1>0, <2>1, ZenonT(60) DEF Ready
  <2>4. /\ \A t \in Threads : InP(t)' <=> InP(t)
        /\ Placed'
        /\ mode' \in {"idle", "resume", "P"}
    BY <1>0, <2>1, <2>2, <2>3, LeavePlaces, ZenonT(60) DEF IInv, OneRequest
  <2> QED BY <2>1, <2>2, <2>4, OtherAlone, ZenonT(60)
<1>3. CASE Finish
  <2>1. /\ mode = "run" /\ asleep' = asleep
        /\ place' = [place EXCEPT ![cur] = "done"]
        /\ Switch(Ready(asleep) \ {cur}) /\ UNCHANGED <<value, active>>
    BY <1>3, ZenonT(60) DEF Finish, diskVars
  <2>2. ~InP(cur)
    BY <1>0, <2>1, ZenonT(60) DEF InP
  <2>3. /\ Ready(asleep) \ {cur} \in SUBSET Threads
        /\ \A t \in Ready(asleep) \ {cur} : t \notin asleep' /\ place'[t] \in {"resume", "P"}
    BY <1>0, <2>1, ZenonT(60) DEF Ready
  <2>4. /\ \A t \in Threads : InP(t)' <=> InP(t)
        /\ Placed'
        /\ mode' \in {"idle", "resume", "P"}
    BY <1>0, <2>1, <2>2, <2>3, LeavePlaces, ZenonT(60) DEF IInv, OneRequest
  <2> QED BY <2>1, <2>4, OtherAlone, ZenonT(60)
<1> QED BY <1>1, <1>2, <1>3, ZenonT(60)

(* The ends of OneTick and of Idle.                                        *)
LEMMA EndsAlone ==
  ASSUME IInv, OneRequest, TickEnds \/ IdleEnds
  PROVE  OneRequest'
<1>0. /\ cur \in Threads /\ asleep' = asleep /\ UNCHANGED <<value, active>>
      /\ place \in [Threads -> {"resume", "P", "done"}]
  BY ZenonT(60) DEF TickEnds, IdleEnds, diskVars, IInv, TypeOK
<1>1. CASE TickEnds /\ ~yieldOnReturn
  <2>1. mode = "tick" /\ mode' = "run" /\ UNCHANGED <<cur, place>>
    BY <1>1, ZenonT(60) DEF TickEnds
  <2>2. \A t \in Threads : (InP(t)' <=> InP(t)) /\ (Running(t)' <=> Running(t))
    BY <2>1, ZenonT(60) DEF InP, Running
  <2>3. Placed'
    BY <1>0, <2>1, <2>2, ZenonT(60) DEF OneRequest, Placed, IInv, TypeOK
  <2> QED BY <1>0, <2>1, <2>2, <2>3, OtherAlone, ZenonT(60)
<1>2. CASE TickEnds /\ yieldOnReturn
  <2> DEFINE ready == IF Ready(asleep) = {cur} THEN {cur} ELSE Ready(asleep) \ {cur}
  <2>1. mode = "tick" /\ place' = [place EXCEPT ![cur] = "resume"] /\ Switch(ready)
    BY <1>2, ZenonT(60) DEF TickEnds
  <2>2. ~InP(cur) /\ Running(cur) /\ cur \notin asleep
    BY <2>1, ZenonT(60) DEF InP, Running, OneRequest, Placed
  <2>3. place'[cur] = "resume" /\ \A t \in Threads \ {cur} : place'[t] = place[t]
    BY <1>0, <2>1, ZenonT(60)
  <2>4. \A t \in Ready(asleep) : t \in Threads /\ t \notin asleep /\ place[t] \in {"resume", "P"}
    BY <1>0, ZenonT(60) DEF Ready
  <2>5. /\ ready \in SUBSET Threads
        /\ \A t \in ready : t \notin asleep' /\ place'[t] \in {"resume", "P"}
    BY <1>0, <2>2, <2>3, <2>4, ZenonT(60)
  <2> HIDE DEF ready
  <2>6. /\ \A t \in Threads : InP(t)' <=> InP(t)
        /\ Placed'
        /\ mode' \in {"idle", "resume", "P"}
    BY <1>0, <2>1, <2>2, <2>5, LeavePlaces, ZenonT(60) DEF IInv, OneRequest
  <2> QED BY <1>0, <2>1, <2>6, OtherAlone, ZenonT(60)
<1>3. CASE IdleEnds
  <2>1. mode = "due" /\ place' = place /\ Switch(Ready(asleep))
    BY <1>3, ZenonT(60) DEF IdleEnds
  <2>2. /\ Ready(asleep) \in SUBSET Threads
        /\ \A t \in Ready(asleep) : t \notin asleep /\ place'[t] \in {"resume", "P"}
    BY <1>0, <2>1, ZenonT(60) DEF Ready
  <2>3. /\ \A t \in Threads : Running(t)' => t \in Ready(asleep)
        /\ \A t \in Threads : InP(t)' <=> place'[t] = "P"
        /\ mode' \in {"idle", "resume", "P"}
    BY <2>1, <2>2, SwitchPlaces, ZenonT(60)
  <2>4. \A t \in Threads : InP(t) <=> place[t] = "P"
    BY <2>1, ZenonT(60) DEF InP, Running
  <2>5. \A t \in Threads : InP(t)' <=> InP(t)
    BY <2>1, <2>3, <2>4, ZenonT(60)
  <2>6. Placed'
    BY <1>0, <2>1, <2>2, <2>3, <2>5, ZenonT(60)
       DEF OneRequest, Placed, IInv, TypeOK
  <2> QED BY <1>0, <2>1, <2>3, <2>5, <2>6, OtherAlone, ZenonT(60)
<1> QED BY <1>1, <1>2, <1>3, ZenonT(60)

(* Initially no request has been made.                                     *)
LEMMA InitAlone ==
  SInit => OneRequest
<1> SUFFICES ASSUME SInit PROVE OneRequest
  BY ZenonT(60)
<1>1. 0 <= 1 /\ ~(0 > 0)
  BY SMTT(60)
<1>2. \A t \in Threads : ~InP(t)
  BY ZenonT(60) DEF SInit, InP, Running
<1>3. Placed
  BY <1>2, ZenonT(60) DEF SInit, Placed
<1>4. Counted
  BY <1>1, <1>2, ZenonT(60) DEF SInit, Counted
<1> QED BY <1>3, <1>4, ZenonT(60) DEF OneRequest, RequestsFinish, SInit

(* Every step keeps to one request.                                        *)
LEMMA StepAlone ==
  ASSUME OneUser
  PROVE  IInv /\ OneRequest /\ [SNext]_svars => OneRequest'
<1> SUFFICES ASSUME IInv, OneRequest, [SNext]_svars PROVE OneRequest'
  BY ZenonT(60)
<1>1. CASE Compute \/ Resume
  <2>1. /\ mode \in {"run", "resume"} /\ mode' = "tick"
        /\ UNCHANGED <<cur, asleep, place, value, active>>
    BY <1>1, ZenonT(60) DEF Compute, Resume, OneTick, diskVars
  <2>2. \A t \in Threads : (InP(t)' <=> InP(t)) /\ (Running(t)' <=> Running(t))
    BY <2>1, ZenonT(60) DEF InP, Running
  <2>3. Placed'
    BY <2>1, <2>2, ZenonT(60) DEF OneRequest, Placed, IInv, TypeOK
  <2> QED BY <2>1, <2>2, <2>3, OtherAlone, ZenonT(60)
<1>2. CASE TickFires \/ IdleFires \/ IdleFiresMore
  <2>1. /\ mode \in {"tick", "idle", "due"} /\ mode' \in {"tick", "due"}
        /\ mode' = "tick" <=> mode = "tick"
        /\ UNCHANGED <<cur, place>>
        /\ Handler(totalTicks) \/ Handler(totalTicks')
    BY <1>2, ZenonT(60) DEF TickFires, IdleFires, IdleFiresMore
  <2> QED BY <2>1, HandlerAlone, ZenonT(60)
<1>3. CASE IdleHalts
  <2>1. /\ mode = "idle" /\ mode' = "halted"
        /\ UNCHANGED <<cur, asleep, place, value, active>>
        /\ pending = <<>> \/ TimerOnly(pending)
    BY <1>3, ZenonT(60) DEF IdleHalts, diskVars
  <2>2. ~active
    BY <2>1, HeadFirst, ZenonT(60) DEF IInv, TypeOK, Shape
  <2>3. asleep = {}
    BY <2>2, ZenonT(60) DEF OneRequest, Counted
  <2>4. \A t \in Threads : (InP(t)' <=> InP(t)) /\ (Running(t)' <=> Running(t))
    BY <2>1, ZenonT(60) DEF InP, Running
  <2>5. Placed'
    BY <2>1, <2>4, ZenonT(60) DEF OneRequest, Placed, IInv, TypeOK
  <2>6. Counted'
    BY <2>1, <2>2, <2>4, ZenonT(60) DEF OneRequest, Counted
  <2> QED BY <2>1, <2>2, <2>3, <2>5, <2>6, ZenonT(60)
             DEF OneRequest, RequestsFinish
<1>4. CASE UNCHANGED svars
  <2>1. UNCHANGED <<mode, cur, asleep, place, value, active>>
    BY <1>4, ZenonT(60) DEF svars, diskVars
  <2> QED BY <2>1, ZenonT(60)
             DEF OneRequest, Placed, Counted, RequestsFinish, InP, Running
<1> QED BY <1>1, <1>2, <1>3, <1>4, RequestAlone, LeaveAlone, EndsAlone,
           ZenonT(60)
           DEF SNext

(* Nachos never halts while a disk request is under way and never fails    *)
(* Disk's ASSERT, and a thread that waits for the disk is always woken     *)
(* before the machine stops: provided that one thread uses the disk, since *)
(* the Lock that should keep the others out is not implemented.            *)
THEOREM RequestCorrectness ==
  ASSUME OneUser
  PROVE  SSpec => []RequestsFinish
<1>1. OneRequest => RequestsFinish
  BY ZenonT(60) DEF OneRequest
<1> QED BY <1>1, InitIInv, StepIInv, InitAlone, StepAlone, PTL DEF SSpec

=============================================================================
