------------------------------ MODULE I2cTypes ------------------------------
(* The bits and bytes of the I2C modules: bits are numbered as they are sent, *)
(* from 0, most significant first; lines and bits are 0 or 1.                 *)
EXTENDS Integers

CONSTANT DataBits  \* 8

ASSUME DataBitsAssumption == DataBits \in Nat \ {0}

Bit  == {0, 1}
Bits == 0 .. DataBits - 1
Byte == [Bits -> Bit]

\* What a line monitor tells apart on the bus, besides the two bits.
START  == 2
STOP   == 3
Glitch == 4
Symbols == Bit \cup {START, STOP, Glitch}
=============================================================================
