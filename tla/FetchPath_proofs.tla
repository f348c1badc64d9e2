-------------------------- MODULE FetchPath_proofs --------------------------
(***************************************************************************)
(* Proofs about FetchPath for every burst length, FIFO size, word width    *)
(* and set of images.                                                      *)
(*                                                                         *)
(* None of the invariants is inductive alone: the burst counter is bounded *)
(* because of the number of words outstanding, and that a burst fits is    *)
(* known two states before its first word arrives.  BurstInv and RoomInv   *)
(* carry what is needed; they hold for any image.  BeatInv, for aligned    *)
(* images only, adds that words come in pairs.                             *)
(***************************************************************************)
EXTENDS FetchPath, FetchParts_proofs

BurstInv ==
  /\ read <=> dma_state = "Request"
  /\ read => address = CurrentAddr
  /\ dma_state = "WaitData" => m_left = N + 1 - current_burst /\ m_left > 0
  /\ dma_state # "WaitData" => m_left <= 1

RoomInv ==
  /\ RoomForBurst
  /\ dma_state = "Request" => Len(words) + m_left + N <= lpm_numwords

IInv == FetchTypeOK /\ BurstInv /\ RoomInv

-----------------------------------------------------------------------------
\* The memory's step (MemoryStep of FetchParts_proofs) for the read port here.
LEMMA MemSteps ==
  ASSUME NEW accept \in BOOLEAN, NEW deliver \in BOOLEAN,
         FetchTypeOK, MemClock(read, address, N, accept, deliver)
  PROVE  /\ m_addr' \in Word /\ m_left' \in 0 .. N
         /\ accept => read /\ m_left = 0 /\ m_left' = N /\ m_addr' = address
         /\ deliver => ~accept /\ m_left > 0 /\ m_left' = m_left - 1
                       /\ m_addr' = Plus2(m_addr)
         /\ ~accept /\ ~deliver => m_left' = m_left /\ m_addr' = m_addr
BY MemoryStep, BurstAssumption DEF FetchTypeOK, DmaTypeOK

-----------------------------------------------------------------------------
LEMMA InitIInv == Init => IInv
<1> SUFFICES ASSUME Init PROVE IInv
  OBVIOUS
<1> USE WordAssumption, BurstAssumption, FifoAssumption
        DEF Init, DmaInit, FifoInit, MemInit
<1>0. 0 \in Word /\ 1 \in 1 .. N + 1 /\ 0 \in 0 .. N
  BY DEF Word
<1>1. DmaTypeOK
  BY <1>0, Zenon DEF DmaTypeOK, DMAState
<1>s. words \in Seq(Word)
  OBVIOUS
<1>2. FetchTypeOK
  BY <1>0, <1>1, <1>s, Zenon DEF FetchTypeOK
<1>3. BurstInv
  BY DEF BurstInv
<1>4. RoomInv
  BY DEF RoomInv, RoomForBurst
<1> QED BY <1>2, <1>3, <1>4 DEF IInv

\* One clock edge preserves the invariant, whatever software does.
LEMMA ClockIInv ==
  ASSUME IInv, NEW accept \in BOOLEAN, NEW deliver \in BOOLEAN,
         NEW pop \in BOOLEAN, Clock(accept, deliver, pop)
  PROVE  /\ DmaTypeOK' /\ BurstInv' /\ RoomInv'
         /\ words' \in Seq(Word) /\ q' \in Word
         /\ m_addr' \in Word /\ m_left' \in 0 .. N
<1> USE BurstAssumption DEF IInv
<1>0. MemClock(read, address, N, accept, deliver) /\ FifoClock(deliver, m_addr, pop)
  BY DEF Clock
<1>1. /\ words' \in Seq(Word) /\ q' \in Word
      /\ Len(words) \in Nat /\ Len(words') \in Nat
      /\ Len(words') <= Len(words) + 1
      /\ ~deliver => Len(words') <= Len(words)
  BY <1>0, FifoSteps DEF FetchTypeOK
<1>2. /\ m_addr' \in Word /\ m_left' \in 0 .. N
      /\ accept => read /\ m_left = 0 /\ m_left' = N
      /\ deliver => ~accept /\ m_left > 0 /\ m_left' = m_left - 1
      /\ ~accept /\ ~deliver => m_left' = m_left
  BY <1>0, MemSteps
<1>3. Len(words') + m_left' <= Len(words) + m_left + (IF accept THEN N ELSE 0)
  BY <1>1, <1>2 DEF FetchTypeOK
<1>b. ~accept => RoomForBurst'
  BY <1>1, <1>2, FifoAssumption DEF RoomInv, RoomForBurst, FetchTypeOK
<1>4. /\ lpm_numwords \in Nat /\ almost_full_value \in Nat
      /\ almost_full_value + N <= lpm_numwords
  BY FifoAssumption, RoomAssumption
<1>5. CASE DmaIdle(lcd_enable, ImageAddress, ImageLength)
  <2>1. ~accept
    BY <1>2, <1>5 DEF BurstInv, DmaIdle
  <2>2. DmaTypeOK'
    BY <1>5 DEF DmaIdle, DmaTypeOK, DMAState, FetchTypeOK
  <2>3. BurstInv'
    BY <1>5, <1>2, <2>1 DEF DmaIdle, BurstInv, FetchTypeOK, DmaTypeOK
  <2>4. RoomInv'
    BY <1>5, <1>b, <2>1 DEF DmaIdle, RoomInv
  <2> QED BY <1>1, <1>2, <2>2, <2>3, <2>4
<1>6. CASE DmaWaitFifo(AlmostFull)
  <2>1. ~accept
    BY <1>2, <1>6 DEF BurstInv, DmaWaitFifo
  <2>2. DmaTypeOK'
    BY <1>6 DEF DmaWaitFifo, DmaTypeOK, DMAState, FetchTypeOK
  <2>3. BurstInv'
    BY <1>6, <1>2, <2>1 DEF DmaWaitFifo, BurstInv, FetchTypeOK, DmaTypeOK
  <2>4. RoomForBurst'
    BY <1>b, <2>1
  <2>5. ASSUME dma_state' = "Request"
        PROVE  Len(words') + m_left' + N <= lpm_numwords
    <3>1. Len(words) + 1 <= almost_full_value
      BY <1>6, <1>1, <1>4, <2>5 DEF DmaWaitFifo, MayRequest, AlmostFull
    <3>2. m_left <= 1
      BY <1>6 DEF DmaWaitFifo, BurstInv
    <3> QED BY <3>1, <3>2, <1>1, <1>2, <1>3, <1>4, <2>1 DEF FetchTypeOK
  <2> QED BY <1>1, <1>2, <2>2, <2>3, <2>4, <2>5 DEF RoomInv
<1>7. CASE DmaRequest(~accept)
  <2>0. /\ dma_state = "Request" /\ current_burst' = 1
        /\ accept => dma_state' = "WaitData" /\ read' = FALSE
        /\ ~accept => dma_state' = dma_state /\ read' = read
        /\ CurrentAddr' = CurrentAddr /\ CurrentLen' = CurrentLen
        /\ address' = address /\ reset_flag_lcdenable' = reset_flag_lcdenable
    BY <1>7 DEF DmaRequest, StartCounting
  <2>t. 1 \in 1 .. N + 1
    OBVIOUS
  <2>1. DmaTypeOK'
    BY <2>0, <2>t, Zenon DEF DmaTypeOK, DMAState, FetchTypeOK
  <2>r. (read' <=> dma_state' = "Request") /\ (read' => address' = CurrentAddr')
    <3>1. CASE accept
      BY <2>0, <3>1, Zenon DEF BurstInv
    <3>2. CASE ~accept
      BY <2>0, <3>2 DEF BurstInv, FetchTypeOK, DmaTypeOK
    <3> QED BY <3>1, <3>2
  <2>m. m_left <= 1
    BY <2>0 DEF BurstInv
  <2>w. /\ dma_state' = "WaitData" => m_left' = N + 1 - current_burst' /\ m_left' > 0
        /\ dma_state' # "WaitData" => m_left' <= 1
    <3>1. CASE accept
      BY <2>0, <1>2, <3>1
    <3>2. CASE ~accept
      BY <2>0, <2>m, <1>2, <3>2 DEF FetchTypeOK
    <3> QED BY <3>1, <3>2
  <2>2. BurstInv'
    BY <2>r, <2>w DEF BurstInv
  <2>3. RoomInv'
    BY <1>7, <1>1, <1>2, <1>3, <1>4 DEF DmaRequest, StartCounting, RoomInv, RoomForBurst, FetchTypeOK
  <2> QED BY <1>1, <1>2, <2>1, <2>2, <2>3
<1>8. CASE DmaWaitData(deliver)
  <2>0. dma_state = "WaitData" /\ m_left = N + 1 - current_burst /\ m_left > 0
    BY <1>8 DEF DmaWaitData, BurstInv
  <2>1. ~accept
    BY <1>2, <2>0 DEF BurstInv
  <2>2. DmaTypeOK'
    BY <1>8, <2>0, WordSteps
    DEF DmaWaitData, CountWord, BurstDone, DmaTypeOK, DMAState, FetchTypeOK
  <2>3. BurstInv'
    BY <1>8, <1>2, <2>0, <2>1
    DEF DmaWaitData, CountWord, BurstDone, BurstInv, FetchTypeOK, DmaTypeOK
  <2>4. RoomInv'
    BY <1>8, <1>b, <2>1 DEF DmaWaitData, RoomInv
  <2> QED BY <1>1, <1>2, <2>2, <2>3, <2>4
<1>9. CASE DmaCheckData
  <2>1. ~accept
    BY <1>2, <1>9 DEF BurstInv, DmaCheckData
  <2>2. DmaTypeOK'
    BY <1>9 DEF DmaCheckData, DmaTypeOK, DMAState, FetchTypeOK
  <2>3. BurstInv'
    BY <1>9, <1>2, <2>1 DEF DmaCheckData, BurstInv, FetchTypeOK, DmaTypeOK
  <2>4. RoomInv'
    BY <1>9, <1>b, <2>1 DEF DmaCheckData, RoomInv
  <2> QED BY <1>1, <1>2, <2>2, <2>3, <2>4
<1>10. CASE DmaResetFlag
  <2>1. ~accept
    BY <1>2, <1>10 DEF BurstInv, DmaResetFlag
  <2>2. DmaTypeOK'
    BY <1>10 DEF DmaResetFlag, DmaTypeOK, DMAState, FetchTypeOK
  <2>3. BurstInv'
    BY <1>10, <1>2, <2>1 DEF DmaResetFlag, BurstInv, FetchTypeOK, DmaTypeOK
  <2>4. RoomInv'
    BY <1>10, <1>b, <2>1 DEF DmaResetFlag, RoomInv
  <2> QED BY <1>1, <1>2, <2>2, <2>3, <2>4
<1> QED BY <1>5, <1>6, <1>7, <1>8, <1>9, <1>10 DEF Clock, DmaClock

LEMMA NextIInv == IInv /\ [Next]_vars => IInv'
<1> SUFFICES ASSUME IInv, [Next]_vars PROVE IInv'
  OBVIOUS
<1>1. ASSUME NEW accept \in BOOLEAN, NEW deliver \in BOOLEAN,
             NEW pop \in BOOLEAN, Clock(accept, deliver, pop),
             ClearFlag \/ \E im \in Images : Start(im)
      PROVE  IInv'
  <2>1. lcd_enable' \in BOOLEAN /\ ImageAddress' \in Word /\ ImageLength' \in Word
    BY <1>1, ImagesAssumption DEF ClearFlag, Start, IInv, FetchTypeOK
  <2> QED BY <1>1, <2>1, ClockIInv DEF IInv, FetchTypeOK
<1>2. CASE UNCHANGED vars
  BY <1>2 DEF IInv, FetchTypeOK, DmaTypeOK, BurstInv, RoomInv, RoomForBurst,
              vars, dma_vars, fifo_vars, mem_vars, cfg_vars
<1> QED BY <1>1, <1>2 DEF Next, Run, Launch

LEMMA Invariance == Spec => []IInv
BY InitIInv, NextIInv, PTL DEF Spec

\* Every register of the fetch path keeps its width and range: the burst
\* counter never passes N + 1 and no more than a burst is outstanding.
THEOREM FetchTypeCorrect == Spec => []FetchTypeOK
<1>1. IInv => FetchTypeOK
  BY DEF IInv
<1> QED BY <1>1, Invariance, PTL

\* The almost_full threshold leaves room for every word on its way, aligned
\* image or not: the FIFO never drops a pixel (DMAController.vhd:72-79).
THEOREM BurstsAlwaysFit == Spec => []RoomForBurst
<1>1. IInv => RoomForBurst
  BY DEF IInv, RoomInv
<1> QED BY <1>1, Invariance, PTL
=============================================================================
