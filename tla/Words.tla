------------------------------- MODULE Words -------------------------------
(***************************************************************************)
(* The 32-bit unsigned arithmetic of the accelerator (ieee.numeric_std,    *)
(* `unsigned(31 DOWNTO 0)`): addresses and byte counts move by two and     *)
(* wrap around.  The modulus is a constant so that small instances can be  *)
(* checked and every instance proved about.                                *)
(***************************************************************************)
EXTENDS Integers

CONSTANT WordMod  \* 2^32 in the hardware

\* 32-bit beats hold two 16-bit words, so the address space is made of them.
ASSUME WordAssumption == WordMod \in Nat /\ WordMod > 4 /\ WordMod % 4 = 0

Word == 0 .. WordMod - 1

\* `w + 2` and `w - 2` of an unsigned register.
Plus2(w)  == IF w + 2 < WordMod THEN w + 2 ELSE w + 2 - WordMod
Minus2(w) == IF w >= 2 THEN w - 2 ELSE w + WordMod - 2
=============================================================================
