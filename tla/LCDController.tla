--------------------------- MODULE LCDController ---------------------------
(***************************************************************************)
(* src/hw/hdl/LCDController.vhd: the state machine that drives the LT24.   *)
(* It sends a command and its parameters from the register file, or the    *)
(* write-memory command and then pixels from the FIFO, one 16-bit transfer *)
(* per rising edge of WRX, and it runs the display's reset procedure.      *)
(*                                                                         *)
(* One operator per state, each the whole branch of the clocked process.   *)
(* Inputs are the state of RegisterFile and Fifo, as top.vhd wires them.   *)
(* CSX is the constant '0' and is left out.                                *)
(***************************************************************************)
EXTENDS RegisterFile, Fifo

CONSTANTS WriteMemory,                 \* the command 0x2C
          RESX_High, RESX_Low, RESX_End \* 50000, 550000, 6550000 cycles

ASSUME CommandAssumption == WriteMemory \in Word
ASSUME ResetTimes ==
  /\ {RESX_High, RESX_Low, RESX_End} \subseteq Nat
  /\ 0 < RESX_High /\ RESX_High < RESX_Low /\ RESX_Low < RESX_End

VARIABLES lcd_state, reset_counter, k, cc4, BytesLeft,
          D, D_CX, WRX, RESX,  \* to the display
          rdreq,               \* to the FIFO
          reset_flag_reset, reset_flag_cmd  \* active low, to the flags

lcd_vars == <<lcd_state, reset_counter, k, cc4, BytesLeft, D, D_CX, WRX, RESX,
              rdreq, reset_flag_reset, reset_flag_cmd>>

LCDState == {"Idle", "Reset", "ReadCmd", "Send", "FetchParam", "ResetRegs",
             "IdleImageDisplay", "PutWriteCmd", "WritePixel", "PutPixel"}

LcdTypeOK ==
  /\ lcd_state \in LCDState
  /\ reset_counter \in 0 .. RESX_End + 1
  /\ k \in 0 .. 4 * MaxParams - 1 /\ cc4 \in 0 .. 4
  /\ BytesLeft \in Word
  /\ D \in Word /\ D_CX \in {0, 1}
  /\ {WRX, RESX, rdreq, reset_flag_reset, reset_flag_cmd} \subseteq BOOLEAN

LcdInit ==
  /\ lcd_state = "Idle" /\ reset_counter = 0 /\ k = 0 /\ cc4 = 0
  /\ BytesLeft = 0 /\ D = 0 /\ D_CX = 0
  /\ WRX = FALSE /\ RESX = FALSE /\ rdreq = FALSE
  /\ reset_flag_reset = TRUE /\ reset_flag_cmd = TRUE

-----------------------------------------------------------------------------
\* The asynchronous branch, lines 58-60: as soon as the reset flag is up after
\* an edge the state is Reset, whatever the edge chose.  When the flag falls
\* at the very edge that leaves Reset, the two changes race and the state
\* may be forced to Reset once more.
Forced(s) == IF "Reset" \in Flags' THEN {"Reset"}
             ELSE IF "Reset" \in Flags THEN {s, "Reset"} ELSE {s}
Goto(s) == lcd_state' \in Forced(s)

\* Stay `here` until cc4 has counted to 4, then go `there`.
DelayLong(here, there) ==
  IF cc4 < 5 THEN cc4' = cc4 + 1 /\ Goto(here) ELSE cc4' = 0 /\ Goto(there)
DelayShort(here, there) ==
  IF cc4 < 3 THEN cc4' = cc4 + 1 /\ Goto(here) ELSE cc4' = 0 /\ Goto(there)
Delay(here, there) ==
  IF cc4 < 4 THEN cc4' = cc4 + 1 /\ Goto(here) ELSE cc4' = 0 /\ Goto(there)

OneStrobeUp == reset_flag_reset' = TRUE /\ UNCHANGED reset_flag_cmd
StrobesUp   == reset_flag_reset' = TRUE /\ reset_flag_cmd' = TRUE

LcdIdle ==
  /\ lcd_state = "Idle"
  /\ WRX' = FALSE
  /\ StrobesUp
  /\ Goto(IF "SendCommand" \in Flags THEN "ReadCmd"
          ELSE IF "LcdEnable" \in Flags THEN "IdleImageDisplay" ELSE "Idle")
  /\ UNCHANGED <<reset_counter, k, cc4, BytesLeft, D, D_CX, RESX, rdreq>>

RESXLowToTheEnd == RESX_High <= reset_counter
RESXLow == RESX_High <= reset_counter /\ reset_counter < RESX_Low

LcdReset ==
  /\ lcd_state = "Reset"
  /\ WRX' = FALSE
  /\ RESX' = ~RESXLow
  /\ reset_flag_reset' = (reset_counter < RESX_End)
  /\ IF reset_counter <= RESX_End
     THEN reset_counter' = reset_counter + 1 /\ Goto("Reset")
     ELSE reset_counter' = 0 /\ Goto("Idle")
  /\ UNCHANGED <<k, cc4, BytesLeft, D, D_CX, rdreq, reset_flag_cmd>>

ReadCmd ==
  /\ lcd_state = "ReadCmd"
  /\ D_CX' = 0 /\ WRX' = FALSE /\ D' = CommandReg /\ k' = 0
  /\ Delay("ReadCmd", "Send")
  /\ UNCHANGED <<reset_counter, BytesLeft, RESX, rdreq, reset_flag_reset,
                 reset_flag_cmd>>

AllSentEarly == k + 1 >= NParamReg
AllSent      == k = NParamReg

Send ==
  /\ lcd_state = "Send"
  /\ WRX' = TRUE
  /\ IF AllSent
     THEN cc4' = 0 /\ reset_flag_cmd' = FALSE /\ Goto("ResetRegs")
     ELSE Delay("Send", "FetchParam") /\ UNCHANGED reset_flag_cmd
  /\ UNCHANGED <<reset_counter, k, BytesLeft, D, D_CX, RESX, rdreq,
                 reset_flag_reset>>

\* k has 8 bits, 256 = 4 * 64; the array of 64 parameters is selected by its
\* low 6 bits.
FetchParam ==
  /\ lcd_state = "FetchParam"
  /\ D_CX' = 1 /\ WRX' = FALSE
  /\ D' = IF cc4 < 4 THEN Params(k % MaxParams) ELSE D
  /\ k' = IF cc4 < 4 THEN k ELSE (k + 1) % (4 * MaxParams)
  /\ Delay("FetchParam", "Send")
  /\ UNCHANGED <<reset_counter, BytesLeft, RESX, rdreq, reset_flag_reset,
                 reset_flag_cmd>>

ResetRegs ==
  /\ lcd_state = "ResetRegs"
  /\ Delay("ResetRegs", "Idle")
  /\ UNCHANGED <<reset_counter, k, BytesLeft, D, D_CX, WRX, RESX, rdreq,
                 reset_flag_reset, reset_flag_cmd>>

IdleImageDisplay ==
  /\ lcd_state = "IdleImageDisplay"
  /\ WRX' = FALSE
  /\ BytesLeft' = ImageLength
  /\ Goto(IF "LcdEnable" \notin Flags THEN "Idle"
          ELSE IF ~Empty THEN "PutWriteCmd" ELSE "IdleImageDisplay")
  /\ UNCHANGED <<reset_counter, k, cc4, D, D_CX, RESX, rdreq,
                 reset_flag_reset, reset_flag_cmd>>

PutWriteCmd ==
  /\ lcd_state = "PutWriteCmd"
  /\ WRX' = FALSE /\ D_CX' = 0 /\ D' = WriteMemory
  /\ Delay("PutWriteCmd", "WritePixel")
  /\ UNCHANGED <<reset_counter, k, BytesLeft, RESX, rdreq, reset_flag_reset,
                 reset_flag_cmd>>

PixelReadyAlways == TRUE
PixelReady       == ~Empty

ImageSentLate == BytesLeft = Minus2(0)
ImageSent     == BytesLeft = 0

\* The delay restarts whenever the FIFO runs dry.
WritePixel ==
  /\ lcd_state = "WritePixel"
  /\ WRX' = TRUE
  /\ IF ImageSent
     THEN /\ rdreq' = FALSE
          /\ Delay("WritePixel", "IdleImageDisplay")
          /\ UNCHANGED BytesLeft
     ELSE /\ IF PixelReady THEN Delay("WritePixel", "PutPixel")
                           ELSE cc4' = 0 /\ Goto("WritePixel")
          /\ BytesLeft' = IF PixelReady /\ cc4 >= 4 THEN Minus2(BytesLeft)
                                                    ELSE BytesLeft
          /\ UNCHANGED rdreq
  /\ UNCHANGED <<reset_counter, k, D, D_CX, RESX, reset_flag_reset,
                 reset_flag_cmd>>

\* rdreq is up for one cycle; q holds the pixel two edges after it was raised.
PutPixel ==
  /\ lcd_state = "PutPixel"
  /\ D_CX' = 1 /\ WRX' = FALSE
  /\ rdreq' = (cc4 = 2)
  /\ D' = IF cc4 >= 4 THEN q ELSE D
  /\ Delay("PutPixel", "WritePixel")
  /\ UNCHANGED <<reset_counter, k, BytesLeft, RESX, reset_flag_reset,
                 reset_flag_cmd>>

\* One rising edge with nReset high; Flags' must be known before it.
LcdClock ==
  \/ LcdIdle \/ LcdReset \/ ReadCmd \/ Send \/ FetchParam \/ ResetRegs
  \/ IdleImageDisplay \/ PutWriteCmd \/ WritePixel \/ PutPixel

\* nReset low.  A raised reset flag goes first (line 59); when it is released
\* the state is Reset.  BytesLeft and rdreq keep their values.
LcdNReset ==
  /\ lcd_state' = IF "Reset" \in Flags THEN "Reset" ELSE "Idle"
  /\ reset_counter' = 0 /\ k' = 0 /\ cc4' = 0
  /\ D' = 0 /\ D_CX' = 0 /\ WRX' = FALSE /\ RESX' = FALSE
  /\ StrobesUp
  /\ UNCHANGED <<BytesLeft, rdreq>>
=============================================================================
