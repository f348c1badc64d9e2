--------------------------- MODULE CmosGenerator ---------------------------
(***************************************************************************)
(* src/hw/quartus/ip/cmos_sensor_output_generator/hdl/                     *)
(* cmos_sensor_output_generator.vhd: a stand-in for a camera sensor.  It   *)
(* shows numbered pixels, line after line and frame after frame, with      *)
(* blanks between them whose lengths are registers, between a START and a  *)
(* STOP command.                                                           *)
(*                                                                         *)
(* A blank or a line has a state, and a counter and a configuration        *)
(* register of the same name; one counter more is for the lines.           *)
(***************************************************************************)
EXTENDS Integers

CONSTANTS CounterMod,  \* 2 ^ CONFIG_REG_WIDTH
          PixMod       \* 2 ^ PIX_DEPTH

ASSUME WidthAssumption == CounterMod \in Nat /\ CounterMod > 2 /\ PixMod \in Nat \ {0}

Registers == {"frame_width", "frame_height", "frame_frame_blank",
              "frame_line_blank", "line_line_blank", "line_frame_blank"}

\* cmos_sensor_output_generator_constants.vhd
Minimum(r) == IF r \in {"frame_line_blank", "line_frame_blank"} THEN 0 ELSE 1
STOP       == 0
START      == 1
STATUS_BUSY == 0
STATUS_IDLE == 1

VARIABLES \* inputs
          read, write, addr, wrdata,
          \* registers
          config, reg_start, reg_stop, rddata, reg_state, counter

port_vars == <<read, write, addr, wrdata>>
generator_vars == <<config, reg_start, reg_stop, rddata, reg_state, counter>>

Busy == {"FRAME_FRAME_BLANK", "FRAME_LINE_BLANK", "VALID", "LINE_LINE_BLANK",
         "LINE_FRAME_BLANK"}

GeneratorTypeOK ==
  /\ config \in [Registers -> 0 .. CounterMod - 1]
  /\ counter \in [Registers -> 0 .. CounterMod - 1]
  /\ reg_start \in BOOLEAN /\ reg_stop \in BOOLEAN
  /\ rddata \in Nat
  /\ reg_state \in Busy \cup {"IDLE"}

ResetConfig  == [r \in Registers |-> Minimum(r)]
ResetCounter == [r \in Registers |-> 0]
GeneratorInit ==
  /\ config = ResetConfig /\ counter = ResetCounter
  /\ reg_start = FALSE /\ reg_stop = FALSE /\ rddata = 0 /\ reg_state = "IDLE"
GeneratorReset ==
  /\ config' = ResetConfig /\ counter' = ResetCounter
  /\ reg_start' = FALSE /\ reg_stop' = FALSE /\ rddata' = 0 /\ reg_state' = "IDLE"

-----------------------------------------------------------------------------
\* Configuration is taken in IDLE only; a command is a pulse of one cycle,
\* START in IDLE and STOP out of it.
MM_WRITEAlways ==
  LET command == write /\ addr = "COMMAND"
  IN  /\ config' = IF write /\ addr \in Registers
                   THEN [config EXCEPT ![addr] = wrdata % CounterMod]
                   ELSE config
      /\ reg_start' = (command /\ wrdata % 2 = START /\ reg_state = "IDLE")
      /\ reg_stop'  = (command /\ wrdata % 2 = STOP /\ reg_state # "IDLE")
MM_WRITE ==
  LET command == write /\ addr = "COMMAND"
  IN  /\ config' = IF write /\ addr \in Registers /\ reg_state = "IDLE"
                   THEN [config EXCEPT ![addr] = wrdata % CounterMod]
                   ELSE config
      /\ reg_start' = (command /\ wrdata % 2 = START /\ reg_state = "IDLE")
      /\ reg_stop'  = (command /\ wrdata % 2 = STOP /\ reg_state # "IDLE")

MM_READ ==
  rddata' = CASE read /\ addr \in Registers -> config[addr]
              [] read /\ addr = "STATUS"    -> IF reg_state = "IDLE"
                                               THEN STATUS_IDLE ELSE STATUS_BUSY
              [] OTHER                      -> 0

-----------------------------------------------------------------------------
\* The counter that a state counts with.
Counter(state) ==
  CASE state = "FRAME_FRAME_BLANK" -> "frame_frame_blank"
    [] state = "FRAME_LINE_BLANK"  -> "frame_line_blank"
    [] state = "VALID"             -> "frame_width"
    [] state = "LINE_LINE_BLANK"   -> "line_line_blank"
    [] state = "LINE_FRAME_BLANK"  -> "line_frame_blank"

FrameStart == IF config["frame_line_blank"] > 0 THEN "FRAME_LINE_BLANK" ELSE "VALID"
FrameEnd == IF config["line_frame_blank"] > 0 THEN "LINE_FRAME_BLANK"
                                              ELSE "FRAME_FRAME_BLANK"
MoreLines   == counter["frame_height"] < config["frame_height"]
LastLineOff == counter["frame_height"] + 1 = config["frame_height"]
LastLine    == counter["frame_height"] = config["frame_height"]

\* The state after one that has counted up to its configuration.
Following ==
  CASE reg_state = "FRAME_FRAME_BLANK" -> FrameStart
    [] reg_state = "VALID"             -> IF MoreLines THEN "LINE_LINE_BLANK"
                                          ELSE IF LastLine THEN FrameEnd ELSE "VALID"
    [] reg_state = "LINE_FRAME_BLANK"  -> "FRAME_FRAME_BLANK"
    [] OTHER                           -> "VALID"

Counted == counter[Counter(reg_state)] = config[Counter(reg_state)]

next_reg_stateStopsLate ==
  IF reg_state = "IDLE" THEN (IF reg_start THEN FrameStart ELSE "IDLE")
  ELSE IF ~Counted THEN reg_state ELSE IF reg_stop THEN "IDLE" ELSE Following
next_reg_state ==
  IF reg_state = "IDLE" THEN (IF reg_start THEN FrameStart ELSE "IDLE")
  ELSE IF reg_stop THEN "IDLE" ELSE IF Counted THEN Following ELSE reg_state

\* `n + 1` of an unsigned register.
Plus1(n) == IF n + 1 < CounterMod THEN n + 1 ELSE 0

\* A busy state counts; the state that follows starts from 1, and so does the
\* count of lines in the first VALID of a frame.
CountsUnbounded == IF reg_state = "IDLE" THEN counter
                   ELSE [counter EXCEPT ![Counter(reg_state)] = @ + 1]
Counts == IF reg_state = "IDLE" THEN counter
          ELSE [counter EXCEPT ![Counter(reg_state)] = Plus1(@)]
LineKept == IF reg_state = "LINE_LINE_BLANK" THEN counter["frame_height"] ELSE 1
Line == IF reg_state = "LINE_LINE_BLANK"
        THEN Plus1(counter["frame_height"]) ELSE 1

next_counter ==
  IF next_reg_state \in {reg_state, "IDLE"} THEN Counts
  ELSE IF next_reg_state = "VALID"
  THEN [Counts EXCEPT !["frame_width"] = 1, !["frame_height"] = Line]
  ELSE [Counts EXCEPT ![Counter(next_reg_state)] = 1]

STATE_LOGIC == reg_state' = next_reg_state /\ counter' = next_counter

\* One rising edge of clk.
GeneratorClock == MM_WRITE /\ MM_READ /\ STATE_LOGIC

-----------------------------------------------------------------------------
frame_valid == reg_state \notin {"IDLE", "FRAME_FRAME_BLANK"}
line_valid  == reg_state = "VALID"
data == IF line_valid
        THEN ((counter["frame_height"] - 1) * config["frame_width"]
              + (counter["frame_width"] - 1)) % PixMod
        ELSE 0
=============================================================================
