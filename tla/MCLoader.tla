------------------------------ MODULE MCLoader ------------------------------
(***************************************************************************)
(* Module Loader with the programs that the linker script of test/ makes:  *)
(* .text at 0, then .rdata, .data, .sbss and .bss, each right after the    *)
(* one before; .sdata, which the script does not name, stands behind .data.*)
(***************************************************************************)
EXTENDS Loader

CONSTANTS Sizes

(* FindBits is what calls of Find return one after the other.              *)
FoundBits(bm, numBits, n) ==
  FoldLeft(LAMBDA acc, i : LET f == FindBit(acc.bm, numBits)
                           IN  [bm |-> Mark(acc.bm, f), found |-> Append(acc.found, f)],
           [bm |-> bm, found |-> <<>>], [i \in 1..n |-> i]).found

ASSUME FindBitsAssumption ==
  \A bm \in SUBSET (0..5), n \in 0..6 : FindBits(bm, 6, n) = FoundBits(bm, 6, n)

Section(name, paddr, size) == [name |-> name, paddr |-> paddr, size |-> size]

SectionNames == <<"text", "rdata", "data", "sdata", "sbss", "bss">>

Total(s) == FoldLeft(LAMBDA a, b : a + b, 0, s)

MCPrograms ==
  {[i \in DOMAIN s |-> Section(SectionNames[i], Total(SubSeq(s, 1, i - 1)), s[i])] :
     s \in Sizes}

(* Sizes of the six sections: text that fills its last page and text that  *)
(* does not; no data, data that ends in the last text page, at its end and *)
(* pages after it; programs that coff2noff refuses, for each reason.       *)
MCSizes ==
  {<<4, 0, 0, 0, 0, 0>>, <<4, 0, 5, 0, 0, 0>>, <<5, 0, 2, 0, 0, 3>>,
   <<2, 2, 0, 0, 1, 0>>, <<2, 0, 7, 0, 0, 2>>, <<3, 6, 0, 0, 2, 0>>,
   <<2, 1, 1, 0, 0, 0>>, <<2, 0, 1, 0, 1, 1>>, <<2, 0, 1, 1, 0, 0>>}

=============================================================================
