----------------------------- MODULE I2cMaster -----------------------------
(***************************************************************************)
(* The I2C master (interface, core and clock generator) with a host on its *)
(* Avalon slave port and a target on its lines, all on one clock.          *)
(*                                                                         *)
(* The repository has no driver for it.  The host (external) is any        *)
(* program that follows the register description at the head of            *)
(* i2c_interface.vhd and the I2C-bus specification, at any pace: it asks   *)
(* for a transfer, waits until it reads TIP low or sees the interrupt,     *)
(* reads the data register, and only then goes on.                         *)
(***************************************************************************)
EXTENDS I2cInterface, I2cTarget

VARIABLES bus,    \* the slave request of this cycle
          asked,  \* the last command
          phase   \* of the host: ready, waiting, or collecting the data

host_vars == <<bus, asked, phase>>
vars == <<clkgen_vars, core_vars, interface_vars, target_vars, host_vars>>

NoAccess == [op |-> "none"]
BusWrite(r, v) == [op |-> "write", reg |-> r, val |-> v]
BusRead(r) == [op |-> "read", reg |-> r]

NothingAsked == [cmd |-> {}]
HostInit == bus = NoAccess /\ asked = NothingAsked /\ phase = "ready"

-----------------------------------------------------------------------------
\* What the bus specification lets a controller ask for, from what it has
\* sent and received: START before an address, STOP and START only when the
\* target has let go of SDA, data in the direction of the address.
Direction == data_in[DataBits - 1]
Legal(c) ==
  \/ /\ {"start", "write"} \subseteq c /\ "read" \notin c
     /\ t_dir # "tx"
     /\ Direction = 1 => "stop" \notin c
  \/ /\ "write" \in c /\ c \cap {"start", "read"} = {}
     /\ t_dir \in {"rx", "off"}
  \/ /\ "read" \in c /\ c \cap {"start", "write"} = {}
     /\ t_dir \in {"tx", "off"}
\* The last byte read is not acknowledged; in a write the bit means nothing.
LegalAck(c, a) == a = 1 \/ c \cap {"write", "stop"} = {}

Ready ==
  /\ bus = NoAccess /\ phase = "ready" /\ UNCHANGED phase
  /\ \/ \E b \in Byte : bus' = BusWrite("DR", b) /\ UNCHANGED asked
     \/ \E d \in Divisors : bus' = BusWrite("CD", d) /\ UNCHANGED asked
Ask ==
  /\ bus = NoAccess /\ phase = "ready" /\ phase' = "waiting"
  /\ \E c \in Command, a \in Bit, ien \in BOOLEAN :
       /\ Legal(c) /\ LegalAck(c, a)
       /\ bus' = BusWrite("CR", [cmd |-> c, ack |-> a, ien |-> ien])
       /\ asked' = [cmd |-> c, ack |-> a, ien |-> ien, data |-> data_in]
Poll ==
  /\ bus = NoAccess /\ phase = "waiting" /\ ~asked.ien
  /\ bus' = BusRead("SR") /\ UNCHANGED <<asked, phase>>
Interrupted ==
  /\ bus = NoAccess /\ phase = "waiting" /\ asked.ien /\ irq
  /\ phase' = "collecting"
  /\ bus' = BusRead("DR") /\ UNCHANGED asked
Collect ==
  /\ bus = NoAccess /\ phase = "collecting"
  /\ bus' = BusRead("DR") /\ UNCHANGED <<asked, phase>>
Issues == Ready \/ Ask \/ Poll \/ Interrupted \/ Collect

Waits == bus = NoAccess /\ UNCHANGED host_vars
Wrote == bus.op = "write" /\ bus' = NoAccess /\ UNCHANGED <<asked, phase>>
Holds == bus.op = "read" /\ bus' = [op |-> "capture", reg |-> bus.reg]
         /\ UNCHANGED <<asked, phase>>
Captures ==
  /\ bus.op = "capture" /\ bus' = NoAccess
  /\ phase' = IF bus.reg = "DR" THEN "ready"
              ELSE IF ~readdata.sr.tip THEN "collecting" ELSE phase
  /\ asked' = IF phase' = "ready" THEN NothingAsked ELSE asked

Sleeps == phase = "waiting" /\ asked.ien /\ ~irq /\ Waits

\* One edge; `act` is whether an idle host makes its next access.
HostClock(act) ==
  \/ ~act /\ Waits
  \/ act /\ (Issues \/ Sleeps)
  \/ Wrote \/ Holds \/ Captures

-----------------------------------------------------------------------------
SdaLine == sda(t_sda)
Collected == phase = "collecting" /\ phase' = "ready"

Tick(act) ==
  /\ HostClock(act)
  /\ InterfaceClock(bus, t_sda)
  /\ CoreClock
  /\ ClkgenClock(i_clkdiv_reg)
  /\ TargetClock(scl, SdaLine)
  /\ wire' = (IF Collected THEN <<>> ELSE wire) \o Symbol(scl, SdaLine)

Init == ClkgenInit /\ CoreInit /\ InterfaceInit /\ TargetInit /\ HostInit
Next == \E act \in BOOLEAN : Tick(act)
Spec == Init /\ [][Next]_vars

\* The clock runs and the host makes its accesses.
FairSpec == Spec /\ WF_vars(Tick(TRUE))

-----------------------------------------------------------------------------
I2cTypeOK ==
  /\ CoreTypeOK /\ InterfaceTypeOK /\ TargetTypeOK
  /\ sclk \in BOOLEAN /\ \E d \in Divisors : clk_ctr \in 0 .. d
  /\ bus.op \in {"none", "write", "read", "capture"}
  /\ phase \in {"ready", "waiting", "collecting"}

\* i2c_interface.vhd:310-322: the cmd_done that clears the command bits is that
\* of the command they hold, never what is left of the one before: the core
\* keeps cmd_done up for three cycles, and the first of them already takes
\* TIP down and lets the next command in.
DoneIsOfThisCommand == CommandDone => p_state = "DoneAck"

\* The host reads what the target put on the wire: the data register after a
\* read, LAR after a write that it polled for.
ResultsMatchWire ==
  [][Collected
     => /\ "read" \in asked.cmd =>
             \A b \in Bits : readdata.dr[b] = wire[b + 1]
        /\ "write" \in asked.cmd /\ ~asked.ien =>
             readdata.sr.lar =
               wire[DataBits + (IF "start" \in asked.cmd THEN 2 ELSE 1)]]_vars

\* The wire carries the symbols of the commands and nothing else, and the host
\* is told that a command is over, by TIP or by the interrupt, when it is: at
\* the edge at which it takes TIP low, or sees the interrupt, all of its
\* symbols are out.
Service == INSTANCE I2cService WITH open <- phase = "waiting"
WireService == Service!Spec

\* Every command ends.
CommandsEnd == phase = "waiting" ~> phase = "ready"
=============================================================================
