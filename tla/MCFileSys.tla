----------------------------- MODULE MCFileSys -----------------------------
(* A disk of eleven sectors of two bytes, and two files, for TLC.  Only    *)
(* the names tell the files apart, so they are symmetric.                  *)
EXTENDS FileSys, TLC

CONSTANTS f1, f2

(* As long as a sector, so at offset 1 part of two; its bytes differ.      *)
MCTexts == {<<1, 2>>}

Symmetric == Permutations(FileNames)

=============================================================================
