------------------------------- MODULE Driver -------------------------------
(***************************************************************************)
(* src/sw/app/hello_world.c on the Nios II: a program is a sequence of     *)
(* calls, and a call is the sequence of bus accesses its C code makes.     *)
(* Between two accesses the processor takes any number of cycles, at least *)
(* one.  A write takes one cycle on the bus (writeWaitTime 0), a read two  *)
(* (readWaitTime 1, lcd_hw.tcl); a 32-bit write is split into its halves,  *)
(* low half first, by the interconnect.                                    *)
(*                                                                         *)
(* The read-backs printed by configure_image, the printf's and init_image, *)
(* which change nothing of the accelerator, are only time between accesses.*)
(***************************************************************************)
EXTENDS RegisterFile, Sequences

CONSTANT Program  \* the calls of main(), in order

\* What the C types and the 64 parameter registers admit.
IsCall(c) ==
  \/ c.op \in {"reset_lcd", "start_lcd"}
  \/ /\ c.op = "send_command" /\ c.cmd \in Half
     /\ c.params \in Seq(Half) /\ Len(c.params) <= MaxParams
     /\ Len(c.params) \in Half
  \/ c.op = "configure_image" /\ c.addr \in Word /\ c.size \in Word

ASSUME ProgramAssumption ==
  Len(Program) \in Nat /\ \A i \in 1 .. Len(Program) : IsCall(Program[i])

VARIABLES call,   \* the call in progress, an index of Program
          step,   \* its next access
          flags,  \* the C variable `flags`
          bus     \* the slave request of this cycle

cpu_vars == <<call, step, flags, bus>>

NoAccess == [op |-> "none"]
BusWrite(r, v) == [op |-> "write", reg |-> r, val |-> v]
BusRead == [op |-> "read", reg |-> FLAGS]

Write(r, v)  == [kind |-> "write", reg |-> r, val |-> v]
Read         == [kind |-> "read"]        \* flags = IORD(FLAGS)
WriteOr(b)   == [kind |-> "or", bit |-> b]  \* IOWR(FLAGS, flags | b)
PollLess(b)  == <<>>
Poll(b)      == <<[kind |-> "poll", bit |-> b]>>  \* read until b is clear

set_flag(b) == <<Read, WriteOr(b)>>
reset_lcd   == set_flag("Reset") \o Poll("Reset")
start_lcd   == set_flag("LcdEnable") \o Poll("LcdEnable")
send_command(cmd, params) ==
  <<Write(COMMAND_REG, cmd), Write(N_PARAMS, Len(params))>>
  \o [i \in 1 .. Len(params) |-> Write(PARAM(i - 1), params[i])]
  \o <<Write(FLAGS, {"SendCommand"})>> \o Poll("SendCommand")
configure_image(addr, size) ==
  <<Write(0, Low(addr)), Write(1, High(addr)),
    Write(2, Low(size)), Write(3, High(size))>>

Accesses(c) ==
  CASE c.op = "reset_lcd"       -> reset_lcd
    [] c.op = "send_command"    -> send_command(c.cmd, c.params)
    [] c.op = "configure_image" -> configure_image(c.addr, c.size)
    [] c.op = "start_lcd"       -> start_lcd

Returned == call > Len(Program)
Access == Accesses(Program[call])[step]

CpuTypeOK ==
  /\ call \in 1 .. Len(Program) + 1
  /\ ~Returned => step \in 1 .. Len(Accesses(Program[call]))
  /\ flags \in SUBSET FlagBit
  /\ bus.op \in {"none", "write", "read", "capture"}

CpuInit == call = 1 /\ step = 1 /\ flags = {} /\ bus = NoAccess

-----------------------------------------------------------------------------
\* The request an access puts on the bus.
Request(a) == CASE a.kind = "write" -> BusWrite(a.reg, a.val)
                [] a.kind = "or"    -> BusWrite(FLAGS, flags \cup {a.bit})
                [] OTHER            -> BusRead

Advance == IF step < Len(Accesses(Program[call]))
           THEN step' = step + 1 /\ UNCHANGED call
           ELSE step' = 1 /\ call' = call + 1

CpuWaits  == bus.op = "none" /\ UNCHANGED cpu_vars
CpuIssues == /\ bus.op = "none" /\ ~Returned
             /\ bus' = Request(Access)
             /\ UNCHANGED <<call, step, flags>>
CpuWrote  == /\ bus.op = "write"
             /\ bus' = NoAccess /\ Advance
             /\ UNCHANGED flags
CpuReads  == /\ bus.op = "read"
             /\ bus' = [bus EXCEPT !.op = "capture"]
             /\ UNCHANGED <<call, step, flags>>
CpuReadDone ==
  /\ bus.op = "capture"
  /\ flags' = readdata /\ bus' = NoAccess
  /\ IF Access.kind = "poll" /\ Access.bit \in readdata
     THEN UNCHANGED <<call, step>> ELSE Advance

\* One edge; `act` is whether an idle processor begins its next access.
CpuClock(act) ==
  \/ ~act /\ CpuWaits
  \/ act /\ Returned /\ CpuWaits
  \/ act /\ CpuIssues
  \/ CpuWrote \/ CpuReads \/ CpuReadDone
=============================================================================
