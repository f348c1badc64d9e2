--------------------------- MODULE DMAController ---------------------------
(***************************************************************************)
(* src/hw/hdl/DMAController.vhd: the Avalon master that fetches an image   *)
(* burst by burst and pushes every word it receives into the FIFO.         *)
(*                                                                         *)
(* One operator per state of the FSM, each the whole branch of the clocked *)
(* process.  Inputs of the entity are parameters; top.vhd's wiring is in   *)
(* the composing modules.  burstcount is the constant N and is left out;   *)
(* data and wrreq are readdata and readdatavalid, wired by the composers.  *)
(***************************************************************************)
EXTENDS Words

CONSTANT N  \* words per burst, "10000" in the code

ASSUME BurstAssumption == N \in Nat /\ N > 0

VARIABLES dma_state, CurrentAddr, CurrentLen, current_burst, read, address,
          reset_flag_lcdenable  \* active low: FALSE clears Flags(0)

dma_vars == <<dma_state, CurrentAddr, CurrentLen, current_burst, read,
              address, reset_flag_lcdenable>>

DMAState == {"Idle", "WaitFifo", "Request", "WaitData", "CheckData",
             "ResetFlag"}

DmaTypeOK ==
  /\ dma_state \in DMAState
  /\ CurrentAddr \in Word /\ CurrentLen \in Word /\ address \in Word
  /\ current_burst \in 1 .. N + 1
  /\ read \in BOOLEAN /\ reset_flag_lcdenable \in BOOLEAN

\* Power-up values, which are those of the nReset branch.
DmaInit ==
  /\ dma_state = "Idle"
  /\ CurrentAddr = 0 /\ CurrentLen = 0 /\ address = 0
  /\ current_burst = 1
  /\ read = FALSE
  /\ reset_flag_lcdenable = TRUE

\* Idle: the image registers are sampled every cycle, the start flag with them.
DmaIdle(lcd_enable, ImageAddress, ImageLength) ==
  /\ dma_state = "Idle"
  /\ reset_flag_lcdenable' = TRUE
  /\ CurrentAddr' = ImageAddress
  /\ CurrentLen' = ImageLength
  /\ dma_state' = IF lcd_enable /\ ImageLength # 0 THEN "WaitFifo" ELSE "Idle"
  /\ UNCHANGED <<current_burst, read, address>>

\* A burst is requested only when almost_full says that it fits.
MayRequestAlways(almost_full) == TRUE
MayRequest(almost_full) == ~almost_full

DmaWaitFifo(almost_full) ==
  /\ dma_state = "WaitFifo"
  /\ IF MayRequest(almost_full)
     THEN dma_state' = "Request" /\ read' = TRUE /\ address' = CurrentAddr
     ELSE UNCHANGED <<dma_state, read, address>>
  /\ UNCHANGED <<CurrentAddr, CurrentLen, current_burst, reset_flag_lcdenable>>

KeepCounting == UNCHANGED current_burst
StartCounting == current_burst' = 1

DmaRequest(waitRequest) ==
  /\ dma_state = "Request"
  /\ StartCounting
  /\ IF ~waitRequest
     THEN dma_state' = "WaitData" /\ read' = FALSE
     ELSE UNCHANGED <<dma_state, read>>
  /\ UNCHANGED <<CurrentAddr, CurrentLen, address, reset_flag_lcdenable>>

\* The counter that starts at 1 reads N while the last word is awaited.
BurstDoneEarly == current_burst + 1 = N
BurstDone      == current_burst = N

CountAddressOnly ==
  /\ CurrentAddr' = Plus2(CurrentAddr)
  /\ UNCHANGED CurrentLen
  /\ current_burst' = current_burst + 1
CountWord ==
  /\ CurrentAddr' = Plus2(CurrentAddr)
  /\ CurrentLen' = Minus2(CurrentLen)
  /\ current_burst' = current_burst + 1

\* WaitData is left when the counter read N before the edge, whether or not
\* this edge brings the word (the test is outside `IF readdatavalid`).
DmaWaitData(readdatavalid) ==
  /\ dma_state = "WaitData"
  /\ IF readdatavalid
     THEN CountWord
     ELSE UNCHANGED <<CurrentAddr, CurrentLen, current_burst>>
  /\ dma_state' = IF BurstDone THEN "CheckData" ELSE "WaitData"
  /\ UNCHANGED <<read, address, reset_flag_lcdenable>>

ImageDoneEarly == CurrentLen <= 2 * N
ImageDone      == CurrentLen = 0

DmaCheckData ==
  /\ dma_state = "CheckData"
  /\ IF ImageDone
     THEN dma_state' = "ResetFlag" /\ reset_flag_lcdenable' = FALSE
     ELSE dma_state' = "WaitFifo" /\ UNCHANGED reset_flag_lcdenable
  /\ UNCHANGED <<CurrentAddr, CurrentLen, current_burst, read, address>>

DmaResetFlag ==
  /\ dma_state = "ResetFlag"
  /\ dma_state' = "Idle"
  /\ UNCHANGED <<CurrentAddr, CurrentLen, current_burst, read, address,
                 reset_flag_lcdenable>>

\* One rising edge of clk with nReset high.
DmaClock(lcd_enable, adr, len, almost_full, waitRequest, readdatavalid) ==
  \/ DmaIdle(lcd_enable, adr, len)
  \/ DmaWaitFifo(almost_full)
  \/ DmaRequest(waitRequest)
  \/ DmaWaitData(readdatavalid)
  \/ DmaCheckData
  \/ DmaResetFlag

\* nReset low: read, address and burstcount keep their levels, because the
\* branch (lines 57-61) does not name them.
DmaReset ==
  /\ dma_state' = "Idle"
  /\ CurrentAddr' = 0 /\ CurrentLen' = 0 /\ current_burst' = 1
  /\ reset_flag_lcdenable' = TRUE
  /\ UNCHANGED <<read, address>>
=============================================================================
