---------------------------- MODULE I2cInterface ----------------------------
(***************************************************************************)
(* src/hw/quartus/ip/i2c/hdl/i2c_interface.vhd: the Avalon slave in front  *)
(* of the core: data, control, status and divisor registers, the interrupt *)
(* and the handshake with the core, and the two lines' synchronisers.      *)
(***************************************************************************)
EXTENDS I2cCore

VARIABLES i_clkdiv_reg, i_int_en_reg, i_int_pe_reg, readdata, irq

interface_vars == <<sda_in, scl_in, ack_in, data_in, cmd, cmd_done_ack,
                    i_clkdiv_reg, i_int_en_reg, i_int_pe_reg, readdata, irq>>

\* TIP, BSY, IPE and LAR of the status register.
Status == [tip : BOOLEAN, busy : BOOLEAN, ipe : BOOLEAN, lar : Bit]
NoStatus == [tip |-> FALSE, busy |-> FALSE, ipe |-> FALSE, lar |-> 0]

InterfaceTypeOK ==
  /\ {sda_in, scl_in, ack_in} \subseteq Bit
  /\ data_in \in Byte /\ cmd \in Command
  /\ {cmd_done_ack, i_int_en_reg, i_int_pe_reg, irq} \subseteq BOOLEAN
  /\ i_clkdiv_reg \in Divisors
  /\ readdata \in [dr : Byte, sr : Status]

\* i_clkdiv_reg comes out of reset as 131.
InterfaceInit ==
  /\ sda_in = 1 /\ scl_in = 1 /\ ack_in = 0 /\ cmd = {} /\ data_in = i_dout
  /\ cmd_done_ack = FALSE /\ i_int_en_reg = FALSE /\ i_int_pe_reg = FALSE
  /\ i_clkdiv_reg \in Divisors
  /\ readdata = [dr |-> i_dout, sr |-> NoStatus] /\ irq = FALSE

-----------------------------------------------------------------------------
\* The lines: scl is driven both ways, sda is open drain.
scl == scl_out
sda(other) == IF sda_out = 1 THEN other ELSE 0

i_tip_reg == Commanded

\* A request selects the slave for as long as it lasts.
Selects(bus, reg) == bus.op # "none" /\ bus.reg = reg
Writes(bus, reg)  == bus.op = "write" /\ bus.reg = reg /\ ~i_tip_reg
ClearsIrqAnyCycle(bus) == ~i_tip_reg
ClearsIrq(bus)      == Selects(bus, "DR") /\ ~i_tip_reg
CommandDone == i_tip_reg /\ cmd_done

\* Reading DR or SR; what a read of CR or CD returns is not kept.
Reads(bus, reg) == bus.op \in {"read", "capture"} /\ bus.reg = reg
ReadMux(bus) ==
  [dr |-> IF Reads(bus, "DR") THEN data_out ELSE readdata.dr,
   sr |-> IF Reads(bus, "SR")
          THEN [tip |-> i_tip_reg, busy |-> busy, ipe |-> i_int_pe_reg, lar |-> ack_out]
          ELSE readdata.sr]

\* One rising edge; `bus` is the slave request, `other` the level of sda that
\* the other end of the bus allows.
InterfaceClock(bus, other) ==
  /\ sda_in' = sda(other) /\ scl_in' = scl
  /\ readdata' = ReadMux(bus)
  /\ irq' = (i_int_pe_reg /\ i_int_en_reg)
  /\ cmd_done_ack' = CommandDone
  /\ data_in' = IF Writes(bus, "DR") THEN bus.val ELSE data_in
  /\ i_clkdiv_reg' = IF Writes(bus, "CD") THEN bus.val ELSE i_clkdiv_reg
  /\ IF Writes(bus, "CR")
     THEN /\ cmd' = bus.val.cmd /\ ack_in' = bus.val.ack
          /\ i_int_en_reg' = bus.val.ien
     ELSE /\ cmd' = IF CommandDone THEN {} ELSE cmd
          /\ UNCHANGED <<ack_in, i_int_en_reg>>
  /\ i_int_pe_reg' = (CommandDone \/ (i_int_pe_reg /\ ~ClearsIrq(bus)))
=============================================================================
