----------------------------- MODULE FetchPath -----------------------------
(***************************************************************************)
(* The fetch side of top.vhd: DMA controller, memory and FIFO on one       *)
(* clock.  The register file and the LCD controller are an environment:    *)
(* software starts one of Images when the previous start flag is down, and *)
(* the LCD controller pops whenever it likes.  Top.tla puts the real       *)
(* components in their place.                                              *)
(***************************************************************************)
EXTENDS DMAController, Fifo, AvalonMemory

CONSTANT Images  \* the [address, length] pairs software may configure

ASSUME RoomAssumption == almost_full_value + N <= lpm_numwords
ASSUME ImagesAssumption ==
  \A im \in Images : /\ im.address \in Word /\ im.length \in Word
                     /\ im.length > 0

VARIABLES lcd_enable,                \* Flags(0)
          ImageAddress, ImageLength  \* registers 0..3

cfg_vars == <<lcd_enable, ImageAddress, ImageLength>>
vars == <<dma_vars, fifo_vars, mem_vars, cfg_vars>>

Init ==
  /\ DmaInit /\ FifoInit /\ MemInit
  /\ lcd_enable = FALSE /\ ImageAddress = 0 /\ ImageLength = 0

-----------------------------------------------------------------------------
\* top.vhd:159-204: readdatavalid is wrreq, and readdata is the FIFO's data.
Clock(accept, deliver, pop) ==
  /\ MemClock(read, address, N, accept, deliver)
  /\ DmaClock(lcd_enable, ImageAddress, ImageLength, AlmostFull, ~accept,
              deliver)
  /\ FifoClock(deliver, m_addr, pop)

\* The strobe of RegisterFile.vhd:62-65.
ClearFlag ==
  /\ lcd_enable' = (lcd_enable /\ reset_flag_lcdenable)
  /\ UNCHANGED <<ImageAddress, ImageLength>>

\* configure_image and start_lcd.  Software starts an image only after it has
\* read Flags(0) as clear, when the strobe is no longer held.
Start(im) ==
  /\ ~lcd_enable /\ reset_flag_lcdenable
  /\ lcd_enable' = TRUE
  /\ ImageAddress' = im.address /\ ImageLength' = im.length

Run(accept, deliver, pop) == Clock(accept, deliver, pop) /\ ClearFlag
Launch(accept, deliver, pop) ==
  Clock(accept, deliver, pop) /\ \E im \in Images : Start(im)

Next == \E accept, deliver, pop \in BOOLEAN :
          Run(accept, deliver, pop) \/ Launch(accept, deliver, pop)

Spec == Init /\ [][Next]_vars

\* The clock runs, the memory grants and answers, the LCD controller pops.
Fairness ==
  /\ WF_vars(Next)
  /\ WF_vars(\E deliver, pop \in BOOLEAN : Run(TRUE, deliver, pop))
  /\ WF_vars(\E accept, pop \in BOOLEAN : Run(accept, TRUE, pop))
  /\ WF_vars(\E accept, deliver \in BOOLEAN :
               ~Empty /\ Run(accept, deliver, TRUE))

FairSpec == Spec /\ Fairness

-----------------------------------------------------------------------------
(* Hypotheses that main() and the code's N = 16 satisfy: the image base    *)
(* HPS_0_BRIDGES_BASE is 4-byte aligned, a burst is a whole number of      *)
(* beats, and an image (320*240*2 bytes) a whole number of bursts.         *)
ImagesAligned == N % 2 = 0 /\ \A im \in Images : im.address % 4 = 0
ImagesWhole   == \A im \in Images : \E j \in Nat : im.length = (2 * N) * j

\* Every variable keeps its width: the burst counter never passes N + 1, no
\* more than N words are outstanding.
FetchTypeOK ==
  /\ DmaTypeOK
  /\ words \in Seq(Word) /\ q \in Word
  /\ m_addr \in Word /\ m_left \in 0 .. N
  /\ lcd_enable \in BOOLEAN /\ ImageAddress \in Word /\ ImageLength \in Word

\* DMAController.vhd:73 "enough space to fit an entire burst": the words in
\* the FIFO and the words still on their way always fit, so that the FIFO's
\* overflow checking never drops a pixel, even when a word comes after the
\* state machine has stopped waiting for it.
RoomForBurst == Len(words) + m_left <= lpm_numwords

\* Every word that is on its way is one the state machine still counts, at
\* the address it will count it at.
CountedWord ==
  m_left > 0 => /\ dma_state = "WaitData"
                /\ m_addr = CurrentAddr
                /\ m_left = N + 1 - current_burst

\* DMAController.vhd:95, "When we finish an entire burst we check if the
\* image is done in CheckData": nothing is outstanding in CheckData.
BurstFinished == dma_state = "CheckData" => m_left = 0

\* DMAController.vhd:45, "number of bytes left to read from memory": it is
\* never more than the image.
LengthIsWhatIsLeft == dma_state # "Idle" => CurrentLen <= ImageLength

\* start_lcd waits for Flags(0): every started image is fetched to its end.
ImageFetched == lcd_enable ~> ~lcd_enable

\* The fetch path implements FetchService: exactly the image, in order.
Fetching == dma_state # "Idle"
Service == INSTANCE FetchService WITH
  Capacity <- lpm_numwords,
  enabled  <- lcd_enable,
  next     <- IF ~lcd_enable THEN 0
              ELSE IF Fetching THEN CurrentAddr ELSE ImageAddress,
  left     <- IF ~lcd_enable THEN 0
              ELSE IF Fetching THEN CurrentLen ELSE ImageLength,
  queue    <- words
ImageService == Service!Spec
=============================================================================
