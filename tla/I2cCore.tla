------------------------------ MODULE I2cCore ------------------------------
(***************************************************************************)
(* src/hw/quartus/ip/i2c/hdl/i2c_core.vhd: the state machine that puts one *)
(* byte, its acknowledge and the START and STOP around it on the bus.      *)
(*                                                                         *)
(* The combinational process is the operators up to Next state: its output *)
(* signals as functions of the state.  Most states last until a pulse of   *)
(* sclk.                                                                   *)
(***************************************************************************)
EXTENDS I2cTypes, I2cClkgen

VARIABLES \* inputs, driven by I2cInterface
          sda_in, scl_in, ack_in, data_in, cmd, cmd_done_ack,
          \* registers
          p_state, i_ctr, i_dout, i_ack_out,
          \* registered outputs
          sda_out, scl_out, data_out, ack_out, busy, cmd_done

core_vars == <<p_state, i_ctr, i_dout, i_ack_out,
               sda_out, scl_out, data_out, ack_out, busy, cmd_done>>

Command == SUBSET {"start", "stop", "read", "write"}

CoreState ==
  {"Reset", "Idle", "Done", "DoneAck", "Start_A", "Start_B", "Start_C",
   "Start_D", "Stop_A", "Stop_B", "Stop_C", "Rd_A", "Rd_B", "Rd_C", "Rd_D",
   "Rd_E", "Rd_F", "RdAck_A", "RdAck_B", "RdAck_C", "RdAck_D", "RdAck_E",
   "Wr_A", "Wr_B", "Wr_C", "Wr_D", "Wr_E", "WrAck_A", "WrAck_B", "WrAck_C",
   "WrAck_D"}

CoreTypeOK ==
  /\ p_state \in CoreState /\ i_ctr \in Bits
  /\ i_dout \in Byte /\ data_out \in Byte
  /\ {i_ack_out, ack_out, sda_out, scl_out} \subseteq Bit
  /\ busy \in BOOLEAN /\ cmd_done \in BOOLEAN

CoreInit ==
  /\ p_state = "Reset" /\ i_ctr = 0 /\ i_ack_out = 0
  /\ i_dout = [b \in Bits |-> 0] /\ data_out = i_dout
  /\ sda_out = 1 /\ scl_out = 1 /\ ack_out = 0
  /\ busy = FALSE /\ cmd_done = FALSE

-----------------------------------------------------------------------------
Waiting == {"Idle", "Done", "DoneAck"}

\* Without a transfer both lines hold what they were last seen at.
i_sda_out ==
  CASE p_state \in Waiting -> sda_in
    [] p_state \in {"Start_C", "Start_D", "Stop_A", "Stop_B"} -> 0
    [] p_state \in {"Wr_A", "Wr_B", "Wr_C", "Wr_D", "Wr_E"} -> data_in[i_ctr]
    [] p_state \in {"WrAck_A", "WrAck_B", "WrAck_C", "WrAck_D"} -> ack_in
    [] OTHER -> 1
i_scl_out ==
  CASE p_state \in Waiting \cup {"Start_A"} -> scl_in
    [] p_state \in {"Start_D", "Rd_A", "Rd_E", "Rd_F", "Wr_A", "Wr_D", "Wr_E",
                    "WrAck_A", "WrAck_D", "RdAck_A", "RdAck_E", "Stop_A"} -> 0
    [] OTHER -> 1

i_sclk_en  == p_state \notin Waiting \cup {"Reset", "Rd_C", "Rd_F", "Wr_E",
                                           "RdAck_C"}
i_busy     == p_state \notin {"Reset", "Idle"}
i_cmd_doneLong == p_state \in {"Done", "DoneAck", "Idle"}
i_cmd_done == p_state \in {"Done", "DoneAck"}
Commanded  == cmd \cap {"read", "write"} # {}
i_cmd_go   == Commanded /\ ~i_busy

\* The next state of those that have only one.
Successor ==
  [Reset |-> "Idle", Done |-> "DoneAck",
   Start_A |-> "Start_B", Start_B |-> "Start_C", Start_C |-> "Start_D",
   Rd_A |-> "Rd_B", Rd_B |-> "Rd_C", Rd_C |-> "Rd_D", Rd_D |-> "Rd_E",
   Rd_F |-> "Rd_A",
   Wr_A |-> "Wr_B", Wr_B |-> "Wr_C", Wr_C |-> "Wr_D", Wr_E |-> "Wr_A",
   RdAck_A |-> "RdAck_B", RdAck_B |-> "RdAck_C", RdAck_C |-> "RdAck_D",
   RdAck_D |-> "RdAck_E",
   WrAck_A |-> "WrAck_B", WrAck_B |-> "WrAck_C", WrAck_C |-> "WrAck_D",
   Stop_A |-> "Stop_B", Stop_B |-> "Stop_C", Stop_C |-> "Done"]

Transfer == IF "write" \in cmd THEN "Wr_A" ELSE "Rd_A"
LastBitEarly == i_ctr + 1 >= DataBits - 1
LastBit      == i_ctr = DataBits - 1
IfStop   == IF "stop" \in cmd THEN "Stop_A" ELSE "Done"

n_state ==
  CASE p_state = "Idle"    -> IF ~i_cmd_go THEN "Idle"
                              ELSE IF "start" \in cmd THEN "Start_A"
                              ELSE Transfer
    [] p_state = "Start_D" -> IF Commanded THEN Transfer ELSE "Start_D"
    [] p_state = "Rd_E"    -> IF LastBit THEN "WrAck_A" ELSE "Rd_F"
    [] p_state = "Wr_D"    -> IF LastBit THEN "RdAck_A" ELSE "Wr_E"
    [] p_state \in {"WrAck_D", "RdAck_E"} -> IfStop
    [] p_state = "DoneAck" -> IF cmd_done_ack THEN "Idle" ELSE "DoneAck"
    [] OTHER               -> Successor[p_state]

\* The bit a received bit is stored at.
ReceivedBitReversed == DataBits - 1 - i_ctr
ReceivedBit         == i_ctr

-----------------------------------------------------------------------------
\* One rising edge of clk with rst low.
CoreClock ==
  /\ p_state' = IF i_sclk_en => sclk THEN n_state ELSE p_state
  /\ i_ctr' = CASE p_state = "Idle"             -> 0
                [] p_state \in {"Rd_F", "Wr_E"} -> (i_ctr + 1) % DataBits
                [] OTHER                        -> i_ctr
  /\ i_dout' = IF p_state = "Rd_C" THEN [i_dout EXCEPT ![ReceivedBit] = sda_in]
                                   ELSE i_dout
  /\ i_ack_out' = IF p_state = "RdAck_C" THEN sda_in ELSE i_ack_out
  /\ sda_out' = i_sda_out /\ scl_out' = i_scl_out
  /\ data_out' = i_dout /\ ack_out' = i_ack_out
  /\ busy' = i_busy /\ cmd_done' = i_cmd_done
=============================================================================
