----------------------------- MODULE CmosFrames -----------------------------
(***************************************************************************)
(* The CMOS sensor output generator and a host on its Avalon slave port.   *)
(*                                                                         *)
(* The host (external) does what tb_cmos_sensor_output_generator.vhd does: *)
(* it writes configurations that respect the minima, commands and reads    *)
(* (one register stands for all configuration registers that are read).    *)
(* Accesses may come in successive cycles, as writeWaitTime 0 in           *)
(* cmos_sensor_output_generator_hw.tcl permits, but the cycle after a      *)
(* command is left free: it is that of the pulse, in which another access  *)
(* meets a state that is about to change.  (The test bench leaves a cycle  *)
(* after every access.)  The host does not look at the status first: it    *)
(* may configure a running generator, start one that runs, or stop one     *)
(* that does not.                                                          *)
(***************************************************************************)
EXTENDS CmosGenerator

CONSTANT MaxConfig  \* bound on the values of the configuration registers

ASSUME MaxConfigAssumption == MaxConfig \in 1 .. CounterMod - 1

VARIABLE last  \* the last command, STOP after a reset

vars == <<port_vars, generator_vars, last>>

\* The cycle in which a command is written, the next one being left free.
Commanding == write /\ addr = "COMMAND"
Access(rd, wr, a, d) == read' = rd /\ write' = wr /\ addr' = a /\ wrdata' = d
NoAccess == Access(FALSE, FALSE, "frame_width", 0)

HostTypeOK ==
  /\ read \in BOOLEAN /\ write \in BOOLEAN /\ ~(read /\ write)
  /\ addr \in Registers \cup {"COMMAND", "STATUS"}
  /\ wrdata \in 0 .. MaxConfig
  /\ last \in {START, STOP}

-----------------------------------------------------------------------------
Rests == NoAccess /\ UNCHANGED last

Configures ==
  /\ ~Commanding /\ UNCHANGED last
  /\ \E r \in Registers : \E v \in Minimum(r) .. MaxConfig : Access(FALSE, TRUE, r, v)
Commands ==
  /\ ~Commanding
  /\ \E c \in {START, STOP} : Access(FALSE, TRUE, "COMMAND", c) /\ last' = c
Reads ==
  /\ ~Commanding /\ UNCHANGED last
  /\ \E r \in {"STATUS", "frame_width"} : Access(TRUE, FALSE, r, 0)

Clock == GeneratorClock /\ (Rests \/ Configures \/ Commands \/ Reads)

\* The asynchronous reset of the system, host included.
Reset == GeneratorReset /\ NoAccess /\ last' = STOP

Init == /\ GeneratorInit /\ last = STOP
        /\ read = FALSE /\ write = FALSE /\ addr = "frame_width" /\ wrdata = 0
Next == Clock \/ Reset
Spec == Init /\ [][Next]_vars

\* The clock runs.
FairSpec == Spec /\ WF_vars(Clock)

-----------------------------------------------------------------------------
CmosTypeOK == GeneratorTypeOK /\ HostTypeOK

\* cmos_sensor_output_generator.vhd:213-323: every comparison is for equality,
\* so a counter that is past its configuration runs until it wraps.  None ever
\* is, whatever was configured and whenever it was stopped and started, if only
\* the cycle after a START is left free: a configuration that arrived in it could
\* be less than the 1 from which the new state counts.
CountersInRange ==
  /\ reg_state # "IDLE" => counter[Counter(reg_state)] \in 1 .. config[Counter(reg_state)]
  /\ reg_state = "VALID" => counter["frame_height"] \in 1 .. config["frame_height"]
  /\ reg_state = "LINE_LINE_BLANK" =>
       counter["frame_height"] \in 1 .. config["frame_height"] - 1

\* tb_cmos_sensor_output_generator.vhd:119-129: a status that is read after a
\* command, a cycle apart, shows what the command asked for.
StatusTellsCommand ==
  [][read /\ addr = "STATUS" /\ Clock =>
       (rddata' = STATUS_BUSY <=> last = START)]_vars

\* Until it is stopped, the generator shows frame after frame.
FrameBegins == reg_state = FrameStart /\ counter[Counter(FrameStart)] = 1
               /\ (FrameStart = "VALID" => counter["frame_height"] = 1)
FramesRepeat == []<>(last = STOP \/ FrameBegins)

\* The cycle of the frame, from the state and the counters.
Done(r) == counter[r] - 1
Pitch   == config["frame_width"] + config["line_line_blank"]
LineAt  == config["frame_line_blank"] + Done("frame_height") * Pitch
LastEnd == config["frame_line_blank"] + (config["frame_height"] - 1) * Pitch
           + config["frame_width"]
Position ==
  CASE reg_state = "IDLE"              -> 0
    [] reg_state = "FRAME_LINE_BLANK"  -> Done("frame_line_blank")
    [] reg_state = "VALID"             -> LineAt + Done("frame_width")
    [] reg_state = "LINE_LINE_BLANK"   -> LineAt + config["frame_width"]
                                          + Done("line_line_blank")
    [] reg_state = "LINE_FRAME_BLANK"  -> LastEnd + Done("line_frame_blank")
    [] reg_state = "FRAME_FRAME_BLANK" -> LastEnd + config["line_frame_blank"]
                                          + Done("frame_frame_blank")

Service == INSTANCE FrameService WITH running <- reg_state # "IDLE",
                                      pos <- Position
ImplementsFrames == Service!Spec
=============================================================================
