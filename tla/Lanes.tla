------------------------------- MODULE Lanes -------------------------------
(***************************************************************************)
(* Words of two bytes of one bit each, addressed by byte.                  *)
(***************************************************************************)
EXTENDS Integers

Word == 0 .. 3

WordOf(addr) == addr - (addr % 2)

Byte(word, n) == (IF n = 0 THEN word ELSE word \div 2) % 2

\* The lanes an access of one byte or of a word touches.
Mask(wide, addr) == IF wide THEN {0, 1} ELSE {addr % 2}

\* A byte store takes its lane from the low byte of the data.
Merge(word, addr, mask, data) ==
  LET Kept(l) == IF l \in mask THEN Byte(data, l - (addr % 2)) ELSE Byte(word, l)
  IN Kept(0) + 2 * Kept(1)
=============================================================================
