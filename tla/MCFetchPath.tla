---------------------------- MODULE MCFetchPath ----------------------------
(* Instances of FetchPath for TLC: bursts of four words (two beats), a FIFO *)
(* of ten words that is almost full at six: the exact fit of 496, 16, 512. *)
EXTENDS FetchPath

\* A one-burst image, and one longer than the FIFO that starts where the
\* first ends.
AlignedImages == {[address |-> 0, length |-> 8], [address |-> 8, length |-> 24]}

\* An image whose first word is the upper half of a beat.
UnalignedImages == {[address |-> 2, length |-> 16]}

\* An image of one and a half bursts.
PartialImages == {[address |-> 0, length |-> 12]}
=============================================================================
