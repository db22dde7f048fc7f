------------------------------- MODULE BitMap -------------------------------
(***************************************************************************)
(* class BitMap.  A bitmap of numBits bits is the set of the bits that are *)
(* set; the packing into words is left out.                                *)
(***************************************************************************)
EXTENDS Integers, FiniteSets

Clean == {}

Mark(bm, which) == bm \cup {which}

Clear(bm, which) == bm \ {which}

Test(bm, which) == which \in bm

(* The bit BitMap::Find returns and then marks: the first one clear, or -1.*)
FindBit(bm, numBits) ==
  IF \E i \in 0..(numBits - 1) : i \notin bm
  THEN CHOOSE i \in 0..(numBits - 1) :
         i \notin bm /\ \A j \in 0..(i - 1) : j \in bm
  ELSE -1

(* The bits that n calls of BitMap::Find return, one after the other: the  *)
(* i-th is the clear bit with i - 1 clear bits before it.                  *)
ClearBefore(bm, which) == {j \in 0..(which - 1) : j \notin bm}

FindNth(bm, numBits, i) ==
  LET nth == {b \in 0..(numBits - 1) :
                b \notin bm /\ Cardinality(ClearBefore(bm, b)) = i - 1}
  IN  IF nth = {} THEN -1 ELSE CHOOSE b \in nth : TRUE

FindBits(bm, numBits, n) == [i \in 1..n |-> FindNth(bm, numBits, i)]

NumClear(bm, numBits) == Cardinality({i \in 0..(numBits - 1) : i \notin bm})

=============================================================================
