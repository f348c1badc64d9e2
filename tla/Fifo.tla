-------------------------------- MODULE Fifo --------------------------------
(***************************************************************************)
(* src/hw/hdl/fifo.vhd: Altera's single-clock FIFO as this file configures *)
(* it.  Normal (not show-ahead) mode: a read request pops the head at the  *)
(* edge and q holds it afterwards.  Overflow and underflow checking are    *)
(* on: a push into a full FIFO and a pop from an empty one do nothing.     *)
(* Flags change at the edge that changes the contents (the vendor's extra  *)
(* cycle of latency on `empty` is not modelled).                           *)
(***************************************************************************)
EXTENDS Integers, Sequences

CONSTANTS lpm_numwords,      \* 512
          almost_full_value  \* 496

ASSUME FifoAssumption ==
  /\ lpm_numwords \in Nat /\ almost_full_value \in Nat
  /\ 0 < almost_full_value /\ almost_full_value <= lpm_numwords

VARIABLES words,  \* the contents, oldest first
          q       \* the output register

fifo_vars == <<words, q>>

FifoInit == words = <<>> /\ q = 0

Empty          == words = <<>>
Full           == Len(words) >= lpm_numwords
AlmostFullLate == Full
AlmostFull     == Len(words) >= almost_full_value

\* What is left of the contents once this edge's pop has been served.
Remaining(rdreq) == IF rdreq /\ ~Empty THEN Tail(words) ELSE words

FifoClock(wrreq, data, rdreq) ==
  /\ words' = IF wrreq /\ ~Full THEN Append(Remaining(rdreq), data)
                                ELSE Remaining(rdreq)
  /\ q' = IF rdreq /\ ~Empty THEN Head(words) ELSE q

\* aclr: the contents are gone; whether q is cleared depends on the device.
FifoReset == words' = <<>> /\ q' \in {q, 0}
=============================================================================
