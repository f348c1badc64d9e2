-------------------------------- MODULE Top --------------------------------
(***************************************************************************)
(* src/hw/hdl/top.vhd with the memory, the display and the Nios II program *)
(* around it: every component takes the same edge of the same clock, and   *)
(* the processor and the memory decide how long they make the others wait. *)
(***************************************************************************)
EXTENDS LT24, DMAController, AvalonMemory, Driver

CONSTANTS MaxRestarts, \* bound on the restarts of the processor alone
          MaxKeys      \* bound on the presses of KEY0, in runs without those

ASSUME BoundsAssumption == MaxRestarts \in Nat /\ MaxKeys \in Nat
ASSUME RoomAssumption == almost_full_value + N <= lpm_numwords

VARIABLES restarts, keys  \* how many so far: by the debugger, by KEY0

vars == <<cpu_vars, reg_vars, dma_vars, mem_vars, fifo_vars, lcd_vars,
          display_vars, restarts, keys>>

Init ==
  /\ CpuInit /\ RegInit /\ DmaInit /\ MemInit /\ FifoInit /\ LcdInit
  /\ DisplayInit /\ restarts = 0 /\ keys = 0

\* The flags whose strobe is low (top.vhd:168-170).
Strobed == (IF reset_flag_reset THEN {} ELSE {"Reset"})
           \cup (IF reset_flag_cmd THEN {} ELSE {"SendCommand"})
           \cup (IF reset_flag_lcdenable THEN {} ELSE {"LcdEnable"})

Tick(act, accept, deliver) ==
  /\ CpuClock(act)
  /\ RegClock(bus, Strobed)
  /\ MemClock(read, address, N, accept, deliver)
  /\ DmaClock("LcdEnable" \in Flags, ImageAddress, ImageLength, AlmostFull,
              ~accept, deliver)
  /\ FifoClock(deliver, m_addr, rdreq)
  /\ LcdClock
  /\ DisplayClock
  /\ UNCHANGED <<restarts, keys>>

ProgramStarts == call' = 1 /\ step' = 1 /\ flags' = {} /\ bus' = NoAccess

\* The Nios II is restarted (debugger, download) at any moment.  Its debug
\* reset goes to the memory port too, which may forget the words it owes
\* (soc_system.qsys:1184-1231); the accelerator is not reset.
CpuRestart ==
  /\ restarts < MaxRestarts /\ keys = 0 /\ restarts' = restarts + 1
  /\ ProgramStarts
  /\ m_left' \in {m_left, 0} /\ UNCHANGED m_addr
  /\ UNCHANGED <<reg_vars, dma_vars, fifo_vars, lcd_vars, display_vars, keys>>

\* KEY0 is pressed at any moment and held for many cycles: everything takes
\* its reset branch, and the program starts again (soc_system.qsys:1157-1186).
Key0 ==
  /\ keys < MaxKeys /\ restarts = 0 /\ keys' = keys + 1
  /\ ProgramStarts
  /\ RegReset /\ DmaReset /\ FifoReset /\ LcdNReset
  /\ m_left' = 0 /\ UNCHANGED m_addr
  /\ held' = Phase /\ UNCHANGED <<out, restarts>>

Next == \/ \E act, accept, deliver \in BOOLEAN : Tick(act, accept, deliver)
        \/ CpuRestart
        \/ Key0

Spec == Init /\ [][Next]_vars

\* The clock runs, the processor executes, the memory grants and answers.
Fairness ==
  /\ WF_vars(\E accept, deliver \in BOOLEAN : Tick(TRUE, accept, deliver))
  /\ WF_vars(\E act, deliver \in BOOLEAN : Tick(act, TRUE, deliver))
  /\ WF_vars(\E act, accept \in BOOLEAN : Tick(act, accept, TRUE))

FairSpec == Spec /\ Fairness

-----------------------------------------------------------------------------
TopTypeOK ==
  /\ CpuTypeOK /\ RegTypeOK /\ DmaTypeOK /\ LcdTypeOK
  /\ words \in Seq(Word) /\ q \in Word
  /\ m_addr \in Word /\ m_left \in 0 .. N
  /\ held \in 1 .. Phase /\ restarts \in 0 .. MaxRestarts
  /\ keys \in 0 .. MaxKeys

\* DMAController.vhd:74-80: no burst overruns the FIFO.
RoomForBurst == Len(words) + m_left <= lpm_numwords

\* What can be said after a fault is said of the first one.
OneFault == restarts + keys <= 1

\* One restart leaves room for the burst, and so does one press of KEY0, which
\* may let a burst loose by leaving read asserted: the start flag outlives KEY0
\* too, so the DMA controller soon requests a burst of its own and releases
\* read.  Not so if the flag is already clear, by the strobe of an image that an
\* earlier KEY0 let go on or by a restarted program's send_command: then read
\* stays up, and the memory answers bursts until the FIFO is overrun.
RoomAfterFault == OneFault => RoomForBurst

\* The addresses and lengths that the program configures.
Configures == {i \in 1 .. Len(Program) : Program[i].op = "configure_image"}
Configured == {<<Program[i].addr, Program[i].size>> : i \in Configures}

\* hello_world.c:116-119 writes an image's address and length half by half, and
\* DMAController.vhd:65-71 takes all four registers in the cycle it sees the
\* start flag, which outlives restarts and KEY0 and can be set again by a
\* set_flag that read it before it was cleared: an image that starts is still
\* one that the program configured, never a mixture of two.  (After a second
\* fault it may be: a program restarted in an image, with no command before its
\* configure_image, and then KEY0 in the middle of that.)
ImageIsWhole ==
  [][OneFault /\ dma_state = "Idle" /\ dma_state' # "Idle"
       => <<CurrentAddr', CurrentLen'>> \in Configured]_vars

\* LCDController.vhd:224-239: when PutPixel asks for a word there is one, so
\* the pixel it puts on the bus is never the previous one.
NoUnderflow == rdreq => ~Empty

\* RegisterFile.vhd:53-65: the strobes of one request are over before the
\* program makes the next one; a flag that is written is a flag that is up.
NoLostRequest ==
  [][bus.op = "write" /\ bus.reg = FLAGS /\ UNCHANGED <<restarts, keys>>
       => bus.val \subseteq Flags']_vars

\* The command, the parameter count and the parameters do not change under
\* the controller while it sends them.
Sending == lcd_state \in {"ReadCmd", "Send", "FetchParam"}
CommandRegisters == [r \in COMMAND_REG .. 6 + MaxParams |-> registers[r]]
StableWhileSending ==
  [][Sending => UNCHANGED CommandRegisters]_vars

\* LCDController.vhd:158-159, "the usual delay": WRX keeps each level for
\* five cycles, except when the reset procedure or KEY0 pulls it down.
PhasesLastFiveCycles ==
  [][WRX' # WRX => \/ held >= Phase
                   \/ lcd_state = "Reset"
                   \/ keys' # keys]_vars

\* No transfer reaches a display that is held in reset, and the data lines
\* do not move at a rising edge of WRX or while it is high.  KEY0 holds the
\* display in reset but keeps the flags: until the restarted program's own
\* reset_lcd has returned, what they ask for goes to a display in reset.
TransferIsClean ==
  [][WRX' => /\ RESX' \/ (keys > 0 /\ call = 1)
             /\ UNCHANGED <<D, D_CX>>]_vars

\* The accelerator and its driver implement LcdService.  At most a full FIFO
\* and the pixel being put are on their way when start_lcd returns.
Service == INSTANCE LcdService WITH Behind <- lpm_numwords + 1
DisplayService == Service!Spec

\* hello_world.c:30 and :70, "waits for its completion": what a call started
\* is over when it returns.
Returns(op) == call' # call /\ ~Returned /\ Program[call].op = op
ResetWaits == [][Returns("reset_lcd") => lcd_state' # "Reset"]_vars
StartWaits == [][Returns("start_lcd") => out' = Service!Stream(call)]_vars

\* main() returns, and the display gets all that the calls stand for.
MainReturns == <>Returned
AllDisplayed == <>(out = Service!Stream(Len(Program)))
=============================================================================
