---------------------------- MODULE RegisterFile ----------------------------
(***************************************************************************)
(* src/hw/hdl/RegisterFile.vhd: the Avalon slave's register map, the flags *)
(* register with its three clearing strobes, and the words that the other  *)
(* components see.  Register numbers are those of the VHDL (the C program  *)
(* uses their byte offsets).  Flags is the set of the bits of register 4   *)
(* that are up; the other registers hold half words.                       *)
(***************************************************************************)
EXTENDS Words

CONSTANTS HalfMod,   \* 2^16
          MaxParams  \* 64

ASSUME HalfAssumption ==
  HalfMod \in Nat /\ WordMod = HalfMod * HalfMod /\ MaxParams \in Nat \ {0}

VARIABLES registers, Flags, readdata

reg_vars == <<registers, Flags, readdata>>

Half == 0 .. HalfMod - 1
FLAGS       == 4
COMMAND_REG == 5
N_PARAMS    == 6
PARAM(i)    == 7 + i  \* i from 0
RegIndex    == 0 .. 6 + MaxParams
FlagBit     == {"LcdEnable", "SendCommand", "Reset"}

Low(w)  == w % HalfMod
High(w) == w \div HalfMod

\* The outputs, RegisterFile.vhd:85-90.
ImageAddress == registers[1] * HalfMod + registers[0]
ImageLength  == registers[3] * HalfMod + registers[2]
CommandReg   == registers[COMMAND_REG]
NParamReg    == registers[N_PARAMS]
Params(k)    == registers[PARAM(k)]

RegTypeOK ==
  /\ registers \in [RegIndex \ {FLAGS} -> Half]
  /\ Flags \in SUBSET FlagBit /\ readdata \in SUBSET FlagBit

RegInit == /\ registers = [r \in RegIndex \ {FLAGS} |-> 0]
           /\ Flags = {} /\ readdata = {}

\* One edge.  `bus` is the slave's request: write the value `val` to register
\* `reg`, read, or neither.  Only the flags are ever read for a decision, so
\* readdata keeps the flags and forgets the other registers.  The strobes win
\* over a write of the same cycle, and leave the other bits to it.
NextFlags(bus, strobed) ==
  (IF bus.op = "write" /\ bus.reg = FLAGS THEN bus.val ELSE Flags) \ strobed

RegClock(bus, strobed) ==
  /\ registers' = IF bus.op = "write" /\ bus.reg \in DOMAIN registers
                  THEN [registers EXCEPT ![bus.reg] = bus.val]
                  ELSE registers
  /\ Flags' = NextFlags(bus, strobed)
  /\ readdata' = IF bus.op = "read" /\ bus.reg = FLAGS THEN Flags ELSE {}

\* nReset low: the branch clears a variable that the next edge overwrites
\* (lines 42-45); registers and flags keep their contents.
RegResetClears ==
  /\ registers' = [r \in DOMAIN registers |-> 0]
  /\ Flags' = {} /\ readdata' = {}
RegReset == UNCHANGED <<registers, Flags>> /\ readdata' = {}
=============================================================================
