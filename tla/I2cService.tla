----------------------------- MODULE I2cService -----------------------------
(***************************************************************************)
(* What the I2C master promises to its host: a command puts exactly its    *)
(* own symbols on the wire, one after the other, and nothing appears there *)
(* between commands; at the moment the host learns that a command is over, *)
(* all of its symbols are out.                                             *)
(***************************************************************************)
EXTENDS I2cTypes, Sequences

VARIABLES asked,  \* the last command: set of bits, data and acknowledge
          open,   \* its host does not know yet that it is over
          wire    \* the symbols since it was asked

\* The data and acknowledge bits that may follow a command's START.
Payloads(c) ==
  IF "write" \in c.cmd
  THEN {[b \in 1 .. DataBits + 1 |->
           IF b <= DataBits THEN c.data[b - 1] ELSE a] : a \in Bit}
  ELSE {p \in [1 .. DataBits + 1 -> Bit] : p[DataBits + 1] = c.ack}

Wires(c) ==
  {(IF "start" \in c.cmd THEN <<START>> ELSE <<>>) \o p
   \o (IF "stop" \in c.cmd THEN <<STOP>> ELSE <<>>) : p \in Payloads(c)}

Init == ~open /\ wire = <<>> /\ asked = [cmd |-> {}]

Ask == /\ ~open /\ wire = <<>> /\ open' = TRUE /\ UNCHANGED wire
       /\ asked'.cmd \cap {"read", "write"} # {}

\* The next symbol of the command.
Progress ==
  /\ open /\ UNCHANGED <<asked, open>>
  /\ \E w \in Wires(asked) :
       /\ Len(wire) < Len(w)
       /\ wire' = SubSeq(w, 1, Len(wire) + 1)

Learn == /\ open /\ wire \in Wires(asked)
         /\ open' = FALSE /\ UNCHANGED <<asked, wire>>

\* The host has its results.
Collect == /\ ~open /\ wire # <<>>
           /\ wire' = <<>> /\ asked' = [cmd |-> {}] /\ UNCHANGED open

Next == Ask \/ Progress \/ Learn \/ Collect

Spec == Init /\ [][Next]_<<asked, open, wire>>
=============================================================================
