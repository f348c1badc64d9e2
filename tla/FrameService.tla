---------------------------- MODULE FrameService ----------------------------
(***************************************************************************)
(* What the CMOS sensor output generator shows on its pixel port.  A frame *)
(* is a schedule of fixed length; while it runs, the generator goes        *)
(* through it cycle by cycle, over and over, and it can be stopped         *)
(* anywhere.  The schedule does not change while it runs.                  *)
(***************************************************************************)
EXTENDS Integers

CONSTANT PixMod

VARIABLES config, running,
          pos,   \* the cycle of the frame that is shown
          frame_valid, line_valid, data

service_vars == <<config, running, pos, frame_valid, line_valid, data>>

-----------------------------------------------------------------------------
\* The parts of a frame, in cycles.
Pitch(c)  == c["frame_width"] + c["line_line_blank"]
Line0(c)  == c["frame_line_blank"]
LastEnd(c) == Line0(c) + (c["frame_height"] - 1) * Pitch(c) + c["frame_width"]
FrameLow(c) == LastEnd(c) + c["line_frame_blank"]
Period(c) == FrameLow(c) + c["frame_frame_blank"]

\* Pixel col of line row is at cycle Line0 + row * Pitch + col.
ShowsPixel ==
  \E row \in 0 .. config["frame_height"] - 1, col \in 0 .. config["frame_width"] - 1 :
    /\ pos = Line0(config) + row * Pitch(config) + col
    /\ frame_valid /\ line_valid
    /\ data = (row * config["frame_width"] + col) % PixMod

BetweenLines ==
  \E row \in 0 .. config["frame_height"] - 2, k \in 0 .. config["line_line_blank"] - 1 :
    pos = Line0(config) + row * Pitch(config) + config["frame_width"] + k
ShowsBlank ==
  /\ \/ pos \in 0 .. Line0(config) - 1
     \/ BetweenLines
     \/ pos \in LastEnd(config) .. FrameLow(config) - 1
  /\ frame_valid /\ ~line_valid /\ data = 0

ShowsNothing == ~frame_valid /\ ~line_valid /\ data = 0

Shows ==
  IF running
  THEN \/ ShowsPixel
       \/ ShowsBlank
       \/ pos \in FrameLow(config) .. Period(config) - 1 /\ ShowsNothing
  ELSE pos = 0 /\ ShowsNothing

-----------------------------------------------------------------------------
Init == ~running /\ Shows

Configure == ~running /\ ~running'
Start == ~running /\ running' /\ pos' = 0 /\ UNCHANGED config
Step  == /\ running /\ running' /\ UNCHANGED config
         /\ pos' = IF pos + 1 = Period(config) THEN 0 ELSE pos + 1
Stop  == running /\ ~running'

Next == (Configure \/ Start \/ Step \/ Stop) /\ Shows'

Spec == Init /\ [][Next]_service_vars
=============================================================================
