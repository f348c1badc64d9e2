-------------------------- MODULE I2cMaster_proofs --------------------------
(***************************************************************************)
(* For every byte width and every set of divisors: the end of a command is *)
(* never taken for the end of the next one.                                *)
(*                                                                         *)
(* The handshake at the end of a command takes five cycles, in which the   *)
(* core's cmd_done outlives the command by two.  EndInv follows it cycle   *)
(* by cycle: neither TIP nor the interrupt lets a host go on before the    *)
(* fifth.                                                                  *)
(***************************************************************************)
EXTENDS I2cMaster, TLAPS

\* The cycles of a command's end, from the core's and the interface's side.
AtRest   == /\ ~Commanded /\ p_state \in {"Reset", "Idle"}
            /\ ~cmd_done /\ ~cmd_done_ack
Running  == /\ Commanded /\ p_state \in CoreState \ {"DoneAck"}
            /\ ~cmd_done /\ ~cmd_done_ack
Finished == Commanded /\ p_state = "DoneAck" /\ cmd_done /\ ~cmd_done_ack
Acked    == ~Commanded /\ p_state = "DoneAck" /\ cmd_done /\ cmd_done_ack
Trailing == ~Commanded /\ p_state = "Idle" /\ cmd_done /\ ~cmd_done_ack

\* What the host is doing in the meantime, and what it can have seen.
Quiet == ~i_int_pe_reg /\ ~irq
Polls == bus.op = "none" \/ (bus.op \in {"read", "capture"} /\ bus.reg = "SR")
PollsTip == Polls /\ (bus.op = "capture" => readdata.sr.tip)
Chooses == bus.op = "none" \/ (bus.op = "write" /\ bus.reg \in {"DR", "CD"})
Commits == /\ bus.op = "write" /\ bus.reg = "CR"
           /\ bus.val.cmd \cap {"read", "write"} # {}
Fetches == \/ bus.op = "none"
           \/ bus.op = "read" /\ bus.reg = "DR"
           \/ bus.op = "capture" /\ bus.reg = "DR" /\ ~i_int_pe_reg

EndInv ==
  \/ phase = "ready" /\ AtRest /\ Quiet /\ Chooses
  \/ phase = "waiting" /\ AtRest /\ Quiet /\ Commits
  \/ phase = "waiting" /\ (Running \/ Finished) /\ Quiet /\ PollsTip
  \/ phase = "waiting" /\ Acked /\ ~irq /\ PollsTip
  \/ phase = "waiting" /\ (Trailing \/ AtRest) /\ Polls
  \/ phase = "collecting" /\ AtRest /\ Fetches

-----------------------------------------------------------------------------
\* The handshake's part of the core's state machine.
LEMMA CoreSteps ==
  ASSUME CoreClock, p_state \in CoreState
  PROVE  /\ p_state' \in CoreState
         /\ p_state' = "DoneAck" => p_state \in {"Done", "DoneAck"}
         /\ p_state = "Done" => p_state' = "DoneAck"
         /\ p_state = "DoneAck" /\ cmd_done_ack => p_state' = "Idle"
         /\ p_state = "DoneAck" /\ ~cmd_done_ack => p_state' = "DoneAck"
         /\ p_state \in {"Reset", "Idle"} /\ ~Commanded => p_state' = "Idle"
         /\ cmd_done' <=> p_state \in {"Done", "DoneAck"}
<1>1. /\ p_state' = IF i_sclk_en => sclk THEN n_state ELSE p_state
      /\ cmd_done' = i_cmd_done
  BY DEF CoreClock
<1>2. p_state \in {"Reset", "Idle", "Done", "DoneAck"} => p_state' = n_state
  BY <1>1 DEF i_sclk_en, Waiting
<1>3. CASE p_state = "Reset"
  BY <1>1, <1>2, <1>3 DEF n_state, Successor, CoreState, i_cmd_done
<1>4. CASE p_state = "Idle"
  BY <1>1, <1>2, <1>4 DEF n_state, Transfer, CoreState, i_cmd_done, i_cmd_go
<1>5. CASE p_state = "Done"
  BY <1>1, <1>2, <1>5 DEF n_state, Successor, CoreState, i_cmd_done
<1>6. CASE p_state = "DoneAck"
  BY <1>1, <1>2, <1>6 DEF n_state, CoreState, i_cmd_done
<1>7. CASE p_state \notin {"Reset", "Idle", "Done", "DoneAck"}
  <2>1. n_state \in CoreState \ {"DoneAck"}
    <3>1. CASE p_state \in {"Start_D", "Rd_E", "Wr_D", "WrAck_D", "RdAck_E"}
      BY <3>1 DEF n_state, Transfer, IfStop, CoreState
    <3>2. CASE p_state \notin {"Start_D", "Rd_E", "Wr_D", "WrAck_D", "RdAck_E"}
      <4>1. n_state = Successor[p_state]
        BY <3>2, <1>7 DEF n_state
      <4>2. Successor[p_state] \in CoreState \ {"DoneAck"}
        BY <3>2, <1>7 DEF Successor, CoreState
      <4> QED BY <4>1, <4>2
    <3> QED BY <3>1, <3>2
  <2> QED BY <2>1, <1>1, <1>7 DEF i_cmd_done
<1> QED BY <1>3, <1>4, <1>5, <1>6, <1>7

\* The interface's part, in terms of Commanded.
LEMMA InterfaceSteps ==
  ASSUME InterfaceClock(bus, t_sda)
  PROVE  /\ cmd_done_ack' <=> Commanded /\ cmd_done
         /\ irq' => i_int_pe_reg
         /\ i_int_pe_reg' =>
              \/ Commanded /\ cmd_done
              \/ i_int_pe_reg /\ ~(bus.op # "none" /\ bus.reg = "DR" /\ ~Commanded)
         /\ Commanded => (Commanded' <=> ~cmd_done)
         /\ ~Commanded =>
              (Commanded' <=> /\ bus.op = "write" /\ bus.reg = "CR"
                              /\ bus.val.cmd \cap {"read", "write"} # {})
         /\ bus.op = "read" /\ bus.reg = "SR" => (readdata'.sr.tip <=> Commanded)
<1>1. /\ cmd_done_ack' = CommandDone
      /\ irq' = (i_int_pe_reg /\ i_int_en_reg)
      /\ i_int_pe_reg' = (CommandDone \/ (i_int_pe_reg /\ ~ClearsIrq(bus)))
      /\ readdata' = ReadMux(bus)
      /\ Writes(bus, "CR") => cmd' = bus.val.cmd
      /\ ~Writes(bus, "CR") => cmd' = IF CommandDone THEN {} ELSE cmd
  BY DEF InterfaceClock
<1>2. /\ CommandDone <=> Commanded /\ cmd_done
      /\ ClearsIrq(bus) <=> bus.op # "none" /\ bus.reg = "DR" /\ ~Commanded
      /\ Writes(bus, "CR") <=> bus.op = "write" /\ bus.reg = "CR" /\ ~Commanded
  BY Zenon DEF CommandDone, i_tip_reg, ClearsIrq, Selects, Writes
<1>3. Commanded' = (cmd' \cap {"read", "write"} # {})
  BY DEF Commanded
<1>4. Commanded => (Commanded' <=> ~cmd_done)
  BY <1>1, <1>2, <1>3 DEF Commanded
<1>5. ~Commanded => (Commanded' <=> /\ bus.op = "write" /\ bus.reg = "CR"
                                    /\ bus.val.cmd \cap {"read", "write"} # {})
  BY <1>1, <1>2, <1>3 DEF Commanded
<1>6. bus.op = "read" /\ bus.reg = "SR" => (readdata'.sr.tip <=> Commanded)
  BY <1>1 DEF ReadMux, Reads, i_tip_reg
<1> QED BY <1>1, <1>2, <1>4, <1>5, <1>6, Zenon

\* The host's part, phase by phase.
LEMMA HostSteps ==
  ASSUME NEW act \in BOOLEAN, HostClock(act)
  PROVE  /\ phase = "ready" =>
              \/ phase' = "ready" /\ Chooses'
              \/ phase' = "waiting" /\ Commits'
              \/ bus.op \in {"read", "capture"}
         /\ phase = "waiting" =>
              \/ bus.op = "none" /\ phase' = "waiting" /\ bus'.op = "none"
              \/ bus.op = "none" /\ phase' = "waiting" /\ bus' = BusRead("SR")
              \/ bus.op = "none" /\ irq /\ phase' = "collecting" /\ bus' = BusRead("DR")
              \/ bus.op = "write" /\ phase' = "waiting" /\ bus'.op = "none"
              \/ bus.op = "read" /\ phase' = "waiting"
                 /\ bus'.op = "capture" /\ bus'.reg = bus.reg
              \/ bus.op = "capture" /\ bus'.op = "none" /\ bus.reg = "DR"
              \/ bus.op = "capture" /\ bus'.op = "none"
                 /\ phase' = IF readdata.sr.tip THEN "waiting" ELSE "collecting"
         /\ phase = "collecting" =>
              \/ bus.op = "none" /\ phase' = "collecting" /\ bus'.op = "none"
              \/ bus.op = "none" /\ phase' = "collecting" /\ bus' = BusRead("DR")
              \/ bus.op = "write"
              \/ bus.op = "read" /\ phase' = "collecting"
                 /\ bus'.op = "capture" /\ bus'.reg = bus.reg
              \/ bus.op = "capture" /\ bus.reg # "DR"
              \/ bus.op = "capture" /\ bus'.op = "none" /\ phase' = "ready"
<1> USE DEF NoAccess, BusWrite, BusRead, Chooses, Commits
<1>1. CASE Waits
  BY <1>1 DEF Waits, host_vars
<1>2. CASE Ready
  BY <1>2 DEF Ready
<1>3. CASE Ask
  <2>1. PICK c \in Command, a \in Bit, ien \in BOOLEAN :
          /\ Legal(c)
          /\ bus' = BusWrite("CR", [cmd |-> c, ack |-> a, ien |-> ien])
    BY <1>3 DEF Ask
  <2>2. c \cap {"read", "write"} # {}
    BY <2>1 DEF Legal
  <2> QED BY <2>1, <2>2, <1>3 DEF Ask
<1>4. CASE Poll
  BY <1>4 DEF Poll
<1>5. CASE Interrupted
  BY <1>5 DEF Interrupted
<1>6. CASE Collect
  BY <1>6 DEF Collect
<1>7. CASE Sleeps
  BY <1>7 DEF Sleeps, Waits, host_vars
<1>8. CASE Wrote
  BY <1>8 DEF Wrote
<1>9. CASE Holds
  BY <1>9 DEF Holds
<1>10. CASE Captures
  BY <1>10 DEF Captures
<1> QED BY <1>1, <1>2, <1>3, <1>4, <1>5, <1>6, <1>7, <1>8, <1>9, <1>10
    DEF HostClock, Issues

-----------------------------------------------------------------------------
LEMMA InitEnd == Init => EndInv
BY DEF Init, CoreInit, InterfaceInit, HostInit, NoAccess, EndInv, AtRest, Quiet,
       Chooses, Commanded

LEMMA TickEnd ==
  ASSUME EndInv, NEW act \in BOOLEAN, Tick(act)
  PROVE  EndInv'
<1>1. /\ HostClock(act) /\ InterfaceClock(bus, t_sda) /\ CoreClock
  BY DEF Tick
<1>2. CASE phase = "ready" /\ AtRest /\ Quiet /\ Chooses
  <2>1. AtRest'
    <3>1. p_state' = "Idle" /\ ~cmd_done' /\ ~cmd_done_ack' /\ ~Commanded'
      BY <1>1, <1>2, CoreSteps, InterfaceSteps DEF AtRest, Chooses, CoreState
    <3> QED BY <3>1 DEF AtRest
  <2>2. Quiet'
    BY <1>1, <1>2, InterfaceSteps DEF AtRest, Quiet
  <2>3. \/ phase' = "ready" /\ Chooses'
        \/ phase' = "waiting" /\ Commits'
    BY <1>1, <1>2, HostSteps DEF Chooses
  <2> QED BY <2>1, <2>2, <2>3 DEF EndInv
<1>3. CASE phase = "waiting" /\ AtRest /\ Quiet /\ Commits
  <2>1. Running'
    <3>1. /\ p_state' = "Idle" /\ ~cmd_done' /\ ~cmd_done_ack' /\ Commanded'
      BY <1>1, <1>3, CoreSteps, InterfaceSteps DEF AtRest, Commits, CoreState
    <3> QED BY <3>1 DEF Running, CoreState
  <2>2. Quiet'
    BY <1>1, <1>3, InterfaceSteps DEF AtRest, Quiet
  <2>3. phase' = "waiting" /\ bus'.op = "none"
    BY <1>1, <1>3, HostSteps DEF Commits
  <2>4. PollsTip'
    BY <2>3 DEF PollsTip, Polls
  <2> QED BY <2>1, <2>2, <2>3, <2>4 DEF EndInv
<1>4. ASSUME phase = "waiting", PollsTip, ~irq, Commanded \/ ~irq'
      PROVE  /\ phase' = "waiting" /\ Polls'
             /\ Commanded => PollsTip'
  <2>1. /\ phase' = "waiting"
        /\ \/ bus'.op = "none"
           \/ bus' = BusRead("SR")
           \/ bus.op = "read" /\ bus'.op = "capture" /\ bus'.reg = bus.reg
    BY <1>1, <1>4, HostSteps DEF PollsTip, Polls
  <2>2. bus.op = "read" => bus.reg = "SR"
    BY <1>4 DEF PollsTip, Polls
  <2>3. bus.op = "read" /\ Commanded => readdata'.sr.tip
    BY <1>1, <2>2, InterfaceSteps
  <2> QED BY <2>1, <2>2, <2>3 DEF PollsTip, Polls, BusRead
<1>5. CASE phase = "waiting" /\ Running /\ Quiet /\ PollsTip
  <2>1. /\ Commanded /\ ~cmd_done /\ ~cmd_done_ack /\ p_state \in CoreState
        /\ p_state # "DoneAck" /\ ~irq /\ ~i_int_pe_reg
    BY <1>5 DEF Running, Quiet
  <2>2. Commanded' /\ ~cmd_done_ack' /\ ~irq' /\ ~i_int_pe_reg'
    BY <2>1, <1>1, InterfaceSteps
  <2>3. phase' = "waiting" /\ PollsTip'
    BY <1>4, <1>5, <2>1
  <2>4. Running' \/ Finished'
    <3>1. CASE p_state = "Done"
      <4>1. p_state' = "DoneAck" /\ cmd_done'
        BY <1>1, <2>1, <3>1, CoreSteps
      <4> QED BY <4>1, <2>2 DEF Finished
    <3>2. CASE p_state # "Done"
      <4>1. p_state' \in CoreState \ {"DoneAck"} /\ ~cmd_done'
        BY <1>1, <2>1, <3>2, CoreSteps
      <4> QED BY <4>1, <2>2 DEF Running
    <3> QED BY <3>1, <3>2
  <2> QED BY <2>2, <2>3, <2>4 DEF EndInv, Quiet
<1>6. CASE phase = "waiting" /\ Finished /\ Quiet /\ PollsTip
  <2>1. /\ Commanded /\ cmd_done /\ ~cmd_done_ack /\ p_state = "DoneAck"
        /\ ~irq /\ ~i_int_pe_reg
    BY <1>6 DEF Finished, Quiet
  <2>2. ~Commanded' /\ cmd_done_ack' /\ ~irq'
    BY <2>1, <1>1, InterfaceSteps
  <2>3. p_state' = "DoneAck" /\ cmd_done'
    BY <2>1, <1>1, CoreSteps DEF CoreState
  <2>4. phase' = "waiting" /\ PollsTip'
    BY <1>4, <1>6, <2>1
  <2> QED BY <2>2, <2>3, <2>4 DEF EndInv, Acked
<1>7. CASE phase = "waiting" /\ Acked /\ ~irq /\ PollsTip
  <2>1. ~Commanded /\ cmd_done /\ cmd_done_ack /\ p_state = "DoneAck"
    BY <1>7 DEF Acked
  <2>2. bus.op \in {"none", "read", "capture"}
    BY <1>7 DEF PollsTip, Polls
  <2>3. ~Commanded' /\ ~cmd_done_ack'
    BY <2>1, <2>2, <1>1, InterfaceSteps
  <2>4. p_state' = "Idle" /\ cmd_done'
    BY <2>1, <1>1, CoreSteps DEF CoreState
  <2>5. phase' = "waiting" /\ Polls'
    <3>1. /\ phase' = "waiting"
          /\ \/ bus'.op = "none"
             \/ bus' = BusRead("SR")
             \/ bus.op = "read" /\ bus'.op = "capture" /\ bus'.reg = bus.reg
      BY <1>1, <1>7, HostSteps DEF PollsTip, Polls
    <3> QED BY <3>1, <1>7 DEF PollsTip, Polls, BusRead
  <2> QED BY <2>3, <2>4, <2>5 DEF EndInv, Trailing
<1>8. CASE phase = "waiting" /\ (Trailing \/ AtRest) /\ Polls
  <2>1. /\ ~Commanded /\ ~cmd_done_ack /\ p_state \in {"Reset", "Idle"}
        /\ bus.op \in {"none", "read", "capture"}
        /\ bus.op \in {"read", "capture"} => bus.reg = "SR"
    BY <1>8 DEF Trailing, AtRest, Polls
  <2>2. AtRest'
    <3>1. ~Commanded' /\ ~cmd_done_ack'
      BY <2>1, <1>1, InterfaceSteps
    <3>2. p_state' = "Idle" /\ ~cmd_done'
      BY <2>1, <1>1, CoreSteps DEF CoreState
    <3> QED BY <3>1, <3>2 DEF AtRest
  <2>3. \/ phase' = "waiting" /\ Polls'
        \/ phase' = "collecting" /\ Fetches'
    <3>1. \/ phase' = "waiting" /\ bus'.op = "none"
          \/ phase' = "waiting" /\ bus' = BusRead("SR")
          \/ phase' = "collecting" /\ bus' = BusRead("DR")
          \/ phase' = "waiting" /\ bus'.op = "capture" /\ bus'.reg = "SR"
          \/ phase' \in {"waiting", "collecting"} /\ bus'.op = "none"
      BY <1>1, <1>8, <2>1, HostSteps
    <3> QED BY <3>1 DEF Polls, Fetches, BusRead
  <2> QED BY <2>2, <2>3 DEF EndInv
<1>9. CASE phase = "collecting" /\ AtRest /\ Fetches
  <2>1. /\ ~Commanded /\ ~cmd_done /\ ~cmd_done_ack /\ p_state \in {"Reset", "Idle"}
        /\ bus.op \in {"none", "read", "capture"}
        /\ bus.op \in {"read", "capture"} => bus.reg = "DR"
        /\ bus.op = "capture" => ~i_int_pe_reg
    BY <1>9 DEF AtRest, Fetches
  <2>2. AtRest'
    <3>1. ~Commanded' /\ ~cmd_done_ack'
      BY <2>1, <1>1, InterfaceSteps
    <3>2. p_state' = "Idle" /\ ~cmd_done'
      BY <2>1, <1>1, CoreSteps DEF CoreState
    <3> QED BY <3>1, <3>2 DEF AtRest
  <2>3. \/ phase' = "collecting" /\ bus'.op = "none"
        \/ phase' = "collecting" /\ bus' = BusRead("DR")
        \/ /\ bus.op = "read" /\ phase' = "collecting"
           /\ bus'.op = "capture" /\ bus'.reg = "DR"
        \/ bus.op = "capture" /\ bus'.op = "none" /\ phase' = "ready"
    BY <1>1, <1>9, <2>1, HostSteps
  <2>4. bus.op = "read" => ~i_int_pe_reg'
    BY <2>1, <1>1, InterfaceSteps
  <2>5. bus.op = "capture" => ~i_int_pe_reg' /\ ~irq'
    BY <2>1, <1>1, InterfaceSteps
  <2> QED BY <2>2, <2>3, <2>4, <2>5 DEF EndInv, Fetches, Chooses, Quiet, BusRead
<1> QED BY <1>2, <1>3, <1>5, <1>6, <1>7, <1>8, <1>9 DEF EndInv

LEMMA EndAlways == Spec => []EndInv
<1>1. EndInv /\ [Next]_vars => EndInv'
  <2>1. CASE Next
    BY <2>1, TickEnd DEF Next
  <2>2. CASE UNCHANGED vars
    BY <2>2, Zenon
    DEF vars, core_vars, interface_vars, host_vars, EndInv, AtRest, Running, Finished,
        Acked, Trailing, Quiet, Polls, PollsTip, Chooses, Commits, Fetches, Commanded
  <2> QED BY <2>1, <2>2
<1> QED BY <1>1, InitEnd, PTL DEF Spec

\* i2c_interface.vhd:310-322: the cmd_done that ends a command is its own.
THEOREM NoFalseDone == Spec => []DoneIsOfThisCommand
<1>1. EndInv => DoneIsOfThisCommand
  <2> SUFFICES ASSUME EndInv, CommandDone PROVE p_state = "DoneAck"
    BY DEF DoneIsOfThisCommand
  <2>1. Commanded /\ cmd_done
    BY Zenon DEF CommandDone, i_tip_reg
  <2> QED BY <2>1, Zenon DEF EndInv, AtRest, Running, Finished, Acked, Trailing
<1> QED BY <1>1, EndAlways, PTL

-----------------------------------------------------------------------------
(* Types.                                                                  *)

Control == [cmd : Command, ack : Bit, ien : BOOLEAN]
HostSet ==
  {NoAccess} \cup [op : {"read", "capture"}, reg : {"DR", "SR"}]
  \cup [op : {"write"}, reg : {"DR"}, val : Byte]
  \cup [op : {"write"}, reg : {"CD"}, val : Divisors]
  \cup [op : {"write"}, reg : {"CR"}, val : Control]
TypeInv == I2cTypeOK /\ bus \in HostSet

LEMMA CoreTypeSteps ==
  ASSUME CoreTypeOK, InterfaceTypeOK, CoreClock PROVE CoreTypeOK'
<1>0. /\ p_state \in CoreState /\ i_ctr \in Bits /\ i_dout \in Byte
      /\ i_ack_out \in Bit /\ sda_in \in Bit /\ scl_in \in Bit
      /\ data_in \in Byte /\ ack_in \in Bit
  BY DEF CoreTypeOK, InterfaceTypeOK
<1>1. p_state' \in CoreState
  BY <1>0, CoreSteps
<1>2. i_ctr' \in Bits
  <2>1. /\ (i_ctr + 1) % DataBits \in Bits /\ 0 \in Bits
    BY <1>0, DataBitsAssumption DEF Bits
  <2> QED BY <1>0, <2>1 DEF CoreClock
<1>3. i_dout' \in Byte /\ data_out' \in Byte
  BY <1>0 DEF CoreClock, Byte
<1>4. i_sda_out \in Bit /\ i_scl_out \in Bit
  BY <1>0 DEF i_sda_out, i_scl_out, Bit, Byte
<1>5. i_busy \in BOOLEAN /\ i_cmd_done \in BOOLEAN
  BY DEF i_busy, i_cmd_done
<1>6. /\ i_ack_out' \in Bit /\ ack_out' \in Bit /\ sda_out' \in Bit
      /\ scl_out' \in Bit
  BY <1>0, <1>4 DEF CoreClock
<1>7. busy' \in BOOLEAN /\ cmd_done' \in BOOLEAN
  BY <1>5, Zenon DEF CoreClock
<1> QED BY <1>1, <1>2, <1>3, <1>6, <1>7 DEF CoreTypeOK

LEMMA InterfaceTypeSteps ==
  ASSUME CoreTypeOK, InterfaceTypeOK, bus \in HostSet, t_sda \in Bit,
         InterfaceClock(bus, t_sda)
  PROVE  InterfaceTypeOK'
<1>0. /\ cmd \in Command /\ ack_in \in Bit /\ data_in \in Byte
      /\ i_clkdiv_reg \in Divisors /\ readdata \in [dr : Byte, sr : Status]
      /\ i_int_en_reg \in BOOLEAN /\ i_int_pe_reg \in BOOLEAN
      /\ data_out \in Byte /\ ack_out \in Bit /\ scl_out \in Bit
      /\ busy \in BOOLEAN
  BY DEF CoreTypeOK, InterfaceTypeOK
<1>1. /\ Writes(bus, "DR") => bus.val \in Byte
      /\ Writes(bus, "CD") => bus.val \in Divisors
      /\ Writes(bus, "CR") => bus.val \in Control
  BY DEF Writes, HostSet, NoAccess
<1>2. sda_in' \in Bit /\ scl_in' \in Bit
  BY <1>0 DEF InterfaceClock, sda, scl, Bit
<1>3. /\ data_in' \in Byte /\ i_clkdiv_reg' \in Divisors
      /\ cmd' \in Command /\ ack_in' \in Bit
  BY <1>0, <1>1 DEF InterfaceClock, Control, Command
<1>4. i_int_en_reg' \in BOOLEAN
  <2>1. Writes(bus, "CR") => bus.val.ien \in BOOLEAN
    BY <1>1 DEF Control
  <2> QED BY <1>0, <2>1, Zenon DEF InterfaceClock
<1>5. /\ cmd_done_ack' \in BOOLEAN /\ irq' \in BOOLEAN /\ i_int_pe_reg' \in BOOLEAN
  BY Zenon DEF InterfaceClock, CommandDone
<1>6. readdata' \in [dr : Byte, sr : Status]
  <2>1. i_tip_reg \in BOOLEAN
    BY Zenon DEF i_tip_reg, Commanded
  <2>2. [tip |-> i_tip_reg, busy |-> busy, ipe |-> i_int_pe_reg, lar |-> ack_out]
        \in Status
    BY <1>0, <2>1, Zenon DEF Status
  <2>3. ReadMux(bus) \in [dr : Byte, sr : Status]
    BY <1>0, <2>2 DEF ReadMux
  <2> QED BY <2>3 DEF InterfaceClock
<1> QED BY <1>2, <1>3, <1>4, <1>5, <1>6 DEF InterfaceTypeOK

LEMMA TargetTypeSteps ==
  ASSUME TargetTypeOK, NEW c \in Bit, NEW d \in Bit, TargetClock(c, d)
  PROVE  /\ {t_sda', last_scl', last_sda'} \subseteq Bit /\ marked' \in BOOLEAN
         /\ t_dir' \in {"idle", "addressed", "rx", "tx", "off"}
         /\ t_bits' \in 0 .. DataBits
         /\ Symbol(c, d) \in Seq(Symbols)
<1>1. /\ t_bits' \in 0 .. DataBits /\ t_sda' \in Bit
      /\ t_dir' \in {"idle", "addressed", "rx", "tx", "off"}
  <2>1. CASE TakeBit
    BY <2>1, DataBitsAssumption DEF TakeBit, TargetTypeOK, Bit
  <2>2. CASE ~TakeBit
    BY <2>2, DataBitsAssumption DEF TargetClock, TargetTypeOK, Bit
  <2> QED BY <2>1, <2>2
<1>2. last_scl' \in Bit /\ last_sda' \in Bit
  BY DEF TargetClock
<1>3. marked' \in BOOLEAN
  BY Zenon DEF TargetClock
<1>4. Symbol(c, d) \in Seq(Symbols)
  <2>1. \A x \in Symbols : <<x>> \in Seq(Symbols)
    OBVIOUS
  <2>2. {START, STOP, Glitch, last_sda} \subseteq Symbols
    BY DEF Symbols, TargetTypeOK
  <2>3. <<>> \in Seq(Symbols)
    OBVIOUS
  <2> QED BY <2>1, <2>2, <2>3 DEF Symbol
<1> QED BY <1>1, <1>2, <1>3, <1>4

LEMMA HostTypeSteps ==
  ASSUME TypeInv, NEW act \in BOOLEAN, HostClock(act)
  PROVE  bus' \in HostSet /\ phase' \in {"ready", "waiting", "collecting"}
<1>0. phase \in {"ready", "waiting", "collecting"} /\ bus \in HostSet
  BY DEF TypeInv, I2cTypeOK
<1>r. \A r \in {"DR", "SR"} : BusRead(r) \in HostSet
  BY DEF BusRead, HostSet
<1>1. CASE Ready
  BY <1>0, <1>1 DEF Ready, BusWrite, HostSet
<1>2. CASE Ask
  <2>1. PICK c \in Command, a \in Bit, ien \in BOOLEAN :
          bus' = BusWrite("CR", [cmd |-> c, ack |-> a, ien |-> ien])
    BY <1>2 DEF Ask
  <2>2. [cmd |-> c, ack |-> a, ien |-> ien] \in Control
    BY DEF Control
  <2> QED BY <1>2, <2>1, <2>2 DEF Ask, BusWrite, HostSet
<1>3. CASE Poll \/ Interrupted \/ Collect
  BY <1>0, <1>r, <1>3 DEF Poll, Interrupted, Collect
<1>4. CASE Waits \/ Wrote
  BY <1>0, <1>4 DEF Waits, Wrote, host_vars, HostSet
<1>5. CASE Holds
  <2>1. bus.reg \in {"DR", "SR"}
    BY <1>0, <1>5 DEF Holds, HostSet, NoAccess
  <2> QED BY <1>0, <1>5, <2>1 DEF Holds, HostSet
<1>6. CASE Captures
  BY <1>0, <1>6 DEF Captures, HostSet
<1> QED BY <1>1, <1>2, <1>3, <1>4, <1>5, <1>6 DEF HostClock, Issues, Sleeps

LEMMA TypeInit == Init => TypeInv
<1> SUFFICES ASSUME Init PROVE TypeInv
  OBVIOUS
<1>0. i_dout \in Byte /\ 0 \in Bits /\ 0 \in 0 .. DataBits
  BY DataBitsAssumption DEF Init, CoreInit, Byte, Bits, Bit
<1>1. CoreTypeOK
  BY <1>0 DEF Init, CoreInit, CoreTypeOK, CoreState, Bit
<1>2. InterfaceTypeOK
  <2>1. readdata \in [dr : Byte, sr : Status]
    BY <1>0 DEF Init, InterfaceInit, NoStatus, Status, Bit
  <2> QED BY <1>0, <2>1 DEF Init, CoreInit, InterfaceInit, InterfaceTypeOK, Command, Bit
<1>3. TargetTypeOK
  BY <1>0 DEF Init, TargetInit, TargetTypeOK, Bit
<1>4. sclk \in BOOLEAN /\ \E d \in Divisors : clk_ctr \in 0 .. d
  BY DivisorsAssumption DEF Init, ClkgenInit, InterfaceInit
<1> QED BY <1>1, <1>2, <1>3, <1>4
        DEF Init, HostInit, TypeInv, I2cTypeOK, HostSet, NoAccess

LEMMA TypeTick ==
  ASSUME TypeInv, NEW act \in BOOLEAN, Tick(act) PROVE TypeInv'
<1>0. /\ CoreTypeOK /\ InterfaceTypeOK /\ TargetTypeOK /\ bus \in HostSet
      /\ t_sda \in Bit /\ wire \in Seq(Symbols) /\ i_clkdiv_reg \in Divisors
      /\ (\E d \in Divisors : clk_ctr \in 0 .. d)
  BY DEF TypeInv, I2cTypeOK, TargetTypeOK, InterfaceTypeOK
<1>1. CoreTypeOK' /\ InterfaceTypeOK'
  BY <1>0, CoreTypeSteps, InterfaceTypeSteps DEF Tick
<1>2. scl \in Bit /\ SdaLine \in Bit
  BY <1>0 DEF scl, SdaLine, sda, CoreTypeOK, Bit
<1>3. /\ {t_sda', last_scl', last_sda'} \subseteq Bit /\ marked' \in BOOLEAN
      /\ t_dir' \in {"idle", "addressed", "rx", "tx", "off"}
      /\ t_bits' \in 0 .. DataBits
      /\ Symbol(scl, SdaLine) \in Seq(Symbols)
  BY <1>0, <1>2, TargetTypeSteps DEF Tick
<1>4. wire' \in Seq(Symbols)
  <2>1. (IF Collected THEN <<>> ELSE wire) \in Seq(Symbols)
    BY <1>0
  <2>2. \A x, y \in Seq(Symbols) : x \o y \in Seq(Symbols)
    OBVIOUS
  <2> QED BY <1>3, <2>1, <2>2 DEF Tick
<1>5. sclk' \in BOOLEAN /\ \E d \in Divisors : clk_ctr' \in 0 .. d
  <2>1. sclk' \in BOOLEAN
    <3>1. (clk_ctr >= i_clkdiv_reg) \in BOOLEAN
      OBVIOUS
    <3> QED BY <3>1, Zenon DEF Tick, ClkgenClock
  <2>2. clk_ctr' \in 0 .. i_clkdiv_reg
    BY <1>0, DivisorsAssumption DEF Tick, ClkgenClock
  <2> QED BY <1>0, <2>1, <2>2
<1>6. bus' \in HostSet /\ phase' \in {"ready", "waiting", "collecting"}
  BY HostTypeSteps DEF Tick
<1>7. bus'.op \in {"none", "write", "read", "capture"}
  BY <1>6 DEF HostSet, NoAccess
<1> QED BY <1>1, <1>3, <1>4, <1>5, <1>6, <1>7 DEF TypeInv, I2cTypeOK, TargetTypeOK

LEMMA TypeAlways == Spec => []TypeInv
<1>1. TypeInv /\ [Next]_vars => TypeInv'
  <2>1. CASE Next
    BY <2>1, TypeTick DEF Next
  <2>2. CASE UNCHANGED vars
    BY <2>2 DEF vars, clkgen_vars, core_vars, interface_vars, target_vars, host_vars,
       TypeInv, I2cTypeOK, CoreTypeOK, InterfaceTypeOK, TargetTypeOK
  <2> QED BY <2>1, <2>2
<1> QED BY <1>1, TypeInit, PTL DEF Spec

\* Every register of the core, of the interface and of its host keeps its range
\* for every byte width and every set of divisors: the bit counter stays within
\* the byte (i2c_core.vhd:127-139) and the divider never counts past a divisor.
THEOREM I2cTypeCorrect == Spec => []I2cTypeOK
<1>1. TypeInv => I2cTypeOK
  BY DEF TypeInv
<1> QED BY <1>1, TypeAlways, PTL
=============================================================================
