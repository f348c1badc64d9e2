------------------------ MODULE FetchService_proofs ------------------------
(***************************************************************************)
(* For 4-byte aligned images made of whole bursts, every burst is counted  *)
(* to its end and the fetch path implements FetchService.                  *)
(*                                                                         *)
(* The counter of WaitData misses a word that comes one cycle late.  That  *)
(* the last word of a burst is never late is an argument about addresses:  *)
(* while a burst is outstanding, the next word's address and the number of *)
(* words left agree modulo a beat (BeatInv), so the last word is always    *)
(* the second half of a beat, which follows the first at once.             *)
(***************************************************************************)
EXTENDS FetchPath_proofs

BeatInv ==
  /\ lcd_enable => \E im \in Images : /\ ImageAddress = im.address
                                      /\ ImageLength = im.length
  /\ dma_state # "WaitData" => m_left = 0
  /\ dma_state \in {"WaitFifo", "Request", "CheckData"} => CurrentAddr % 4 = 0
  /\ dma_state = "WaitData" => /\ m_addr = CurrentAddr
                               /\ (m_addr + 2 * m_left) % 4 = 0

\* The start flag and its strobe move with the state machine.
FlagInv ==
  /\ dma_state # "Idle" => lcd_enable
  /\ dma_state = "ResetFlag" => ~reset_flag_lcdenable
  /\ dma_state \notin {"Idle", "ResetFlag"} => reset_flag_lcdenable
  /\ dma_state = "Idle" /\ lcd_enable => reset_flag_lcdenable

\* The bytes left are those of the words outstanding and of whole bursts.
LengthInv ==
  /\ dma_state \in {"WaitFifo", "Request"} =>
       \E j \in Nat : j > 0 /\ CurrentLen = (2 * N) * j
  /\ dma_state = "WaitData" =>
       \E j \in Nat : CurrentLen = 2 * m_left + (2 * N) * j
  /\ dma_state = "CheckData" => \E j \in Nat : CurrentLen = (2 * N) * j
  /\ dma_state = "ResetFlag" => CurrentLen = 0

AInv == IInv /\ BeatInv

-----------------------------------------------------------------------------
\* Stepping over a word keeps the place within a beat, wrap-around included.
LEMMA Plus2Beat ==
  ASSUME NEW a \in Word, NEW n \in Nat, n > 0, (a + 2 * n) % 4 = 0
  PROVE  (Plus2(a) + 2 * (n - 1)) % 4 = 0
BY WordAssumption DEF Word, Plus2

LEMMA InitBeat == Init => BeatInv
BY DEF Init, DmaInit, FifoInit, MemInit, BeatInv

LEMMA CfgBeat ==
  ASSUME BeatInv, ClearFlag \/ \E im \in Images : Start(im)
  PROVE  lcd_enable' => \E im \in Images : /\ ImageAddress' = im.address
                                           /\ ImageLength' = im.length
<1>1. CASE ClearFlag
  BY <1>1 DEF ClearFlag, BeatInv
<1>2. CASE \E im \in Images : Start(im)
  BY <1>2 DEF Start
<1> QED BY <1>1, <1>2

LEMMA ClockBeat ==
  ASSUME ImagesAligned, AInv,
         NEW accept \in BOOLEAN, NEW deliver \in BOOLEAN, NEW pop \in BOOLEAN,
         Clock(accept, deliver, pop),
         ClearFlag \/ \E im \in Images : Start(im)
  PROVE  BeatInv'
<1> USE BurstAssumption
<1>0. /\ MemClock(read, address, N, accept, deliver)
      /\ FetchTypeOK /\ BurstInv
  BY DEF Clock, AInv, IInv
<1>1. /\ accept => read /\ m_left = 0 /\ m_left' = N /\ m_addr' = address
      /\ deliver => ~accept /\ m_left > 0 /\ m_left' = m_left - 1
                    /\ m_addr' = Plus2(m_addr)
      /\ ~accept /\ ~deliver => m_left' = m_left /\ m_addr' = m_addr
  BY <1>0, MemSteps
<1>2. SecondHalf(N) => deliver
  BY <1>0 DEF MemClock
<1>3. /\ CurrentAddr \in Int /\ m_addr \in Word /\ m_left \in 0 .. N
      /\ N % 2 = 0 /\ N \in Nat /\ N > 1
      /\ current_burst \in Int
  BY <1>0 DEF FetchTypeOK, DmaTypeOK, Word, ImagesAligned
<1>4. lcd_enable' => \E im \in Images : /\ ImageAddress' = im.address
                                        /\ ImageLength' = im.length
  BY CfgBeat DEF AInv
<1>5. ASSUME dma_state \notin {"Request", "WaitData"}
      PROVE  m_left = 0 /\ m_left' = 0
  BY <1>0, <1>1, <1>5 DEF AInv, BeatInv, BurstInv
<1>6. CASE DmaIdle(lcd_enable, ImageAddress, ImageLength)
  <2>1. /\ dma_state = "Idle" /\ dma_state' \in {"Idle", "WaitFifo"}
        /\ dma_state' = "WaitFifo" => lcd_enable
        /\ CurrentAddr' = ImageAddress
    BY <1>6 DEF DmaIdle
  <2>2. lcd_enable => ImageAddress % 4 = 0
    BY DEF AInv, BeatInv, ImagesAligned
  <2> QED BY <2>1, <2>2, <1>4, <1>5 DEF BeatInv
<1>7. CASE DmaWaitFifo(AlmostFull)
  <2>1. /\ dma_state = "WaitFifo" /\ dma_state' \in {"WaitFifo", "Request"}
        /\ CurrentAddr' = CurrentAddr
    BY <1>7 DEF DmaWaitFifo
  <2> QED BY <2>1, <1>4, <1>5 DEF AInv, BeatInv
<1>8. CASE DmaRequest(~accept)
  <2>1. /\ dma_state = "Request" /\ CurrentAddr' = CurrentAddr
        /\ accept => dma_state' = "WaitData"
        /\ ~accept => dma_state' = "Request"
    BY <1>8 DEF DmaRequest, StartCounting
  <2>2. m_left = 0 /\ CurrentAddr % 4 = 0 /\ address = CurrentAddr
    BY <2>1, <1>0 DEF AInv, BeatInv, BurstInv
  <2>3. CASE accept
    <3>1. (CurrentAddr + 2 * N) % 4 = 0
      BY <2>2, <1>3
    <3> QED BY <2>1, <2>2, <2>3, <3>1, <1>1, <1>4 DEF BeatInv
  <2>4. CASE ~accept
    BY <2>1, <2>2, <2>4, <1>1, <1>3, <1>4 DEF BeatInv
  <2> QED BY <2>3, <2>4
<1>9. CASE DmaWaitData(deliver)
  <2>1. /\ dma_state = "WaitData"
        /\ dma_state' = IF current_burst = N THEN "CheckData" ELSE "WaitData"
        /\ deliver => CurrentAddr' = Plus2(CurrentAddr)
        /\ ~deliver => CurrentAddr' = CurrentAddr
    BY <1>9 DEF DmaWaitData, CountWord, BurstDone
  <2>2. /\ m_addr = CurrentAddr /\ (m_addr + 2 * m_left) % 4 = 0
        /\ m_left = N + 1 - current_burst /\ m_left > 0 /\ ~accept
    BY <2>1, <1>0, <1>1 DEF AInv, BeatInv, BurstInv
  <2>3. CASE deliver
    <3>1. (Plus2(m_addr) + 2 * m_left') % 4 = 0 /\ Plus2(m_addr) \in Int
      <4>1. m_left \in Nat /\ m_left' = m_left - 1
        BY <2>3, <1>1, <1>3
      <4>2. (Plus2(m_addr) + 2 * (m_left - 1)) % 4 = 0
        BY <4>1, <2>2, <1>3, Plus2Beat
      <4>3. Plus2(m_addr) \in Int
        BY <1>3, WordSteps DEF Word
      <4> QED BY <4>1, <4>2, <4>3
    <3>2. current_burst = N => m_left' = 0
      BY <2>2, <2>3, <1>1, <1>3
    <3>3. m_left' = 0 => Plus2(m_addr) % 4 = 0
      BY <3>1
    <3> QED BY <2>1, <2>2, <2>3, <3>1, <3>2, <3>3, <1>1, <1>4 DEF BeatInv
  <2>4. CASE ~deliver
    <3>1. current_burst # N
      <4> SUFFICES ASSUME current_burst = N PROVE FALSE
        OBVIOUS
      <4>1. m_left = 1 /\ m_addr % 4 = 2
        BY <2>2, <1>3 DEF Word
      <4> QED BY <4>1, <1>2, <1>3, <2>4 DEF SecondHalf
    <3> QED BY <2>1, <2>2, <2>4, <3>1, <1>1, <1>4 DEF BeatInv
  <2> QED BY <2>3, <2>4
<1>10. CASE DmaCheckData
  <2>1. /\ dma_state = "CheckData" /\ dma_state' \in {"WaitFifo", "ResetFlag"}
        /\ CurrentAddr' = CurrentAddr
    BY <1>10 DEF DmaCheckData
  <2> QED BY <2>1, <1>4, <1>5 DEF AInv, BeatInv
<1>11. CASE DmaResetFlag
  <2>1. dma_state = "ResetFlag" /\ dma_state' = "Idle"
    BY <1>11 DEF DmaResetFlag
  <2> QED BY <2>1, <1>4, <1>5 DEF BeatInv
<1> QED BY <1>6, <1>7, <1>8, <1>9, <1>10, <1>11 DEF Clock, DmaClock

LEMMA NextBeat == ASSUME ImagesAligned PROVE AInv /\ [Next]_vars => BeatInv'
<1> SUFFICES ASSUME AInv, [Next]_vars PROVE BeatInv'
  OBVIOUS
<1>1. CASE Next
  BY <1>1, ClockBeat DEF Next, Run, Launch
<1>2. CASE UNCHANGED vars
  BY <1>2 DEF AInv, BeatInv, vars, dma_vars, mem_vars, cfg_vars
<1> QED BY <1>1, <1>2

LEMMA BeatInvariance == ASSUME ImagesAligned PROVE Spec => []AInv
<1>1. Init => AInv
  BY InitIInv, InitBeat DEF AInv
<1>2. AInv /\ [Next]_vars => AInv'
  BY NextIInv, NextBeat DEF AInv
<1> QED BY <1>1, <1>2, PTL DEF Spec

\* For aligned images every word on its way is counted at its own address:
\* a burst is over when CheckData looks (DMAController.vhd:88-98).
THEOREM EveryWordCounted == ASSUME ImagesAligned PROVE Spec => []CountedWord
<1>1. AInv => CountedWord
  BY DEF AInv, IInv, FetchTypeOK, BurstInv, BeatInv, CountedWord
<1> QED BY <1>1, BeatInvariance, PTL
-----------------------------------------------------------------------------
LEMMA InitService == Init => FlagInv /\ LengthInv
BY DEF Init, DmaInit, FlagInv, LengthInv

LEMMA ClockFlag ==
  ASSUME AInv, FlagInv,
         NEW accept \in BOOLEAN, NEW deliver \in BOOLEAN, NEW pop \in BOOLEAN,
         Clock(accept, deliver, pop),
         ClearFlag \/ \E im \in Images : Start(im)
  PROVE  FlagInv'
<1>1. /\ lcd_enable \in BOOLEAN /\ reset_flag_lcdenable \in BOOLEAN
      /\ dma_state \in DMAState
  BY DEF AInv, IInv, FetchTypeOK, DmaTypeOK
<1>2. /\ lcd_enable /\ reset_flag_lcdenable => lcd_enable'
      /\ lcd_enable /\ ~reset_flag_lcdenable => ~lcd_enable'
      /\ lcd_enable' => reset_flag_lcdenable
  BY <1>1 DEF ClearFlag, Start
<1>3. CASE DmaIdle(lcd_enable, ImageAddress, ImageLength)
  <2>1. /\ dma_state = "Idle" /\ reset_flag_lcdenable' = TRUE
        /\ dma_state' \in {"Idle", "WaitFifo"}
        /\ dma_state' = "WaitFifo" => lcd_enable
    BY <1>3 DEF DmaIdle
  <2> QED BY <2>1, <1>1, <1>2 DEF FlagInv
<1>4. CASE DmaResetFlag
  <2>1. /\ dma_state = "ResetFlag" /\ dma_state' = "Idle"
        /\ reset_flag_lcdenable' = reset_flag_lcdenable
    BY <1>4 DEF DmaResetFlag
  <2> QED BY <2>1, <1>1, <1>2 DEF FlagInv
<1>5. CASE DmaCheckData
  <2>1. /\ dma_state = "CheckData"
        /\ \/ dma_state' = "ResetFlag" /\ reset_flag_lcdenable' = FALSE
           \/ dma_state' = "WaitFifo" /\ reset_flag_lcdenable' = reset_flag_lcdenable
    BY <1>5 DEF DmaCheckData
  <2> QED BY <2>1, <1>1, <1>2 DEF FlagInv
<1>6. ASSUME dma_state \in {"WaitFifo", "Request", "WaitData"},
             dma_state' \in {"WaitFifo", "Request", "WaitData", "CheckData"},
             reset_flag_lcdenable' = reset_flag_lcdenable
      PROVE  FlagInv'
  BY <1>1, <1>2, <1>6 DEF FlagInv
<1>7. CASE \/ DmaWaitFifo(AlmostFull) \/ DmaRequest(~accept)
          \/ DmaWaitData(deliver)
  BY <1>6, <1>7 DEF DmaWaitFifo, DmaRequest, DmaWaitData
<1> QED BY <1>3, <1>4, <1>5, <1>7 DEF Clock, DmaClock

LEMMA ClockLength ==
  ASSUME ImagesWhole, AInv, AInv', FlagInv, LengthInv,
         NEW accept \in BOOLEAN, NEW deliver \in BOOLEAN, NEW pop \in BOOLEAN,
         Clock(accept, deliver, pop)
  PROVE  LengthInv'
<1> USE BurstAssumption
<1>0. /\ FetchTypeOK /\ BurstInv
      /\ MemClock(read, address, N, accept, deliver)
  BY DEF Clock, AInv, IInv
<1>1. /\ accept => read /\ m_left = 0 /\ m_left' = N
      /\ deliver => ~accept /\ m_left > 0 /\ m_left' = m_left - 1
      /\ ~accept /\ ~deliver => m_left' = m_left
  BY <1>0, MemSteps
<1>2. CurrentLen \in Nat /\ m_left \in 0 .. N /\ current_burst \in Int
  BY <1>0 DEF FetchTypeOK, DmaTypeOK, Word
<1>3. CASE DmaIdle(lcd_enable, ImageAddress, ImageLength)
  <2>1. /\ dma_state' \in {"Idle", "WaitFifo"} /\ CurrentLen' = ImageLength
        /\ dma_state' = "WaitFifo" => lcd_enable /\ ImageLength # 0
    BY <1>3 DEF DmaIdle
  <2>2. lcd_enable => \E j \in Nat : ImageLength = (2 * N) * j
    BY DEF AInv, BeatInv, ImagesWhole
  <2>3. ASSUME lcd_enable, ImageLength # 0
        PROVE  \E j \in Nat : j > 0 /\ ImageLength = (2 * N) * j
    <3>1. PICK j \in Nat : ImageLength = (2 * N) * j
      BY <2>2, <2>3
    <3>2. j # 0
      BY <3>1, <2>3
    <3> QED BY <3>1, <3>2
  <2> QED BY <2>1, <2>3 DEF LengthInv
<1>4. CASE DmaWaitFifo(AlmostFull)
  BY <1>4 DEF DmaWaitFifo, LengthInv
<1>5. CASE DmaRequest(~accept)
  <2>1. /\ dma_state = "Request" /\ CurrentLen' = CurrentLen
        /\ accept => dma_state' = "WaitData"
        /\ ~accept => dma_state' = "Request"
    BY <1>5 DEF DmaRequest, StartCounting
  <2>2. PICK j \in Nat : j > 0 /\ CurrentLen = (2 * N) * j
    BY <2>1 DEF LengthInv
  <2>3. j - 1 \in Nat /\ (2 * N) * j = 2 * N + (2 * N) * (j - 1)
    BY <2>2
  <2>4. CASE accept
    BY <2>1, <2>2, <2>3, <2>4, <1>1 DEF LengthInv
  <2>5. CASE ~accept
    BY <2>1, <2>2, <2>5 DEF LengthInv
  <2> QED BY <2>4, <2>5
<1>6. CASE DmaWaitData(deliver)
  <2>1. /\ dma_state = "WaitData"
        /\ dma_state' = IF current_burst = N THEN "CheckData" ELSE "WaitData"
        /\ deliver => CurrentLen' = Minus2(CurrentLen)
        /\ ~deliver => CurrentLen' = CurrentLen
    BY <1>6 DEF DmaWaitData, CountWord, BurstDone
  <2>2. PICK j \in Nat : CurrentLen = 2 * m_left + (2 * N) * j
    BY <2>1 DEF LengthInv
  <2>3. (2 * N) * j \in Nat
    OBVIOUS
  <2>4. m_left > 0 /\ ~accept /\ m_left = N + 1 - current_burst
    BY <2>1, <1>0, <1>1 DEF BurstInv
  <2>5. CurrentLen' = 2 * m_left' + (2 * N) * j
    BY <2>1, <2>2, <2>3, <2>4, <1>1, <1>2 DEF Minus2
  <2>6. dma_state' = "CheckData" => m_left' = 0
    <3>1. BeatInv'
      BY DEF AInv
    <3> QED BY <3>1 DEF BeatInv
  <2> QED BY <2>1, <2>3, <2>5, <2>6 DEF LengthInv
<1>7. CASE DmaCheckData
  <2>1. /\ dma_state = "CheckData" /\ CurrentLen' = CurrentLen
        /\ \/ CurrentLen = 0 /\ dma_state' = "ResetFlag"
           \/ CurrentLen # 0 /\ dma_state' = "WaitFifo"
    BY <1>7 DEF DmaCheckData, ImageDone
  <2>2. PICK j \in Nat : CurrentLen = (2 * N) * j
    BY <2>1 DEF LengthInv
  <2>3. CurrentLen # 0 => j > 0
    BY <2>2
  <2> QED BY <2>1, <2>2, <2>3 DEF LengthInv
<1>8. CASE DmaResetFlag
  BY <1>8 DEF DmaResetFlag, LengthInv
<1> QED BY <1>3, <1>4, <1>5, <1>6, <1>7, <1>8 DEF Clock, DmaClock

-----------------------------------------------------------------------------
SInv == AInv /\ FlagInv /\ LengthInv

LEMMA ServiceInvariance ==
  ASSUME ImagesAligned, ImagesWhole PROVE Spec => []SInv
<1>1. Init => SInv
  BY InitIInv, InitBeat, InitService DEF SInv, AInv
<1>2. SInv /\ [Next]_vars => SInv'
  <2> SUFFICES ASSUME SInv, [Next]_vars PROVE SInv'
    OBVIOUS
  <2>1. AInv'
    BY NextIInv, NextBeat DEF SInv, AInv
  <2>2. CASE Next
    <3>1. FlagInv'
      BY <2>2, ClockFlag DEF SInv, Next, Run, Launch
    <3>2. LengthInv'
      BY <2>1, <2>2, ClockLength DEF SInv, Next, Run, Launch
    <3> QED BY <2>1, <3>1, <3>2 DEF SInv
  <2>3. CASE UNCHANGED vars
    BY <2>1, <2>3 DEF SInv, FlagInv, LengthInv, vars, dma_vars, mem_vars, cfg_vars
  <2> QED BY <2>2, <2>3
<1> QED BY <1>1, <1>2, PTL DEF Spec

\* The state functions that stand for `next` and `left` of FetchService.
ToFetch == IF ~lcd_enable THEN 0
           ELSE IF Fetching THEN CurrentAddr ELSE ImageAddress
Missing == IF ~lcd_enable THEN 0
           ELSE IF Fetching THEN CurrentLen ELSE ImageLength

\* The queue moves as FetchService allows: what is pushed is the next word.
LEMMA QueueMoves ==
  ASSUME SInv, RoomForBurst', NEW accept \in BOOLEAN, NEW deliver \in BOOLEAN,
         NEW pop \in BOOLEAN, Clock(accept, deliver, pop)
  PROVE  /\ deliver => Missing > 0 /\ dma_state = "WaitData"
         /\ words' = IF deliver THEN Append(Remaining(pop), ToFetch)
                               ELSE Remaining(pop)
         /\ Len(words') <= lpm_numwords
<1>0. /\ FetchTypeOK /\ RoomForBurst /\ BeatInv /\ FlagInv /\ LengthInv
      /\ MemClock(read, address, N, accept, deliver)
      /\ FifoClock(deliver, m_addr, pop)
  BY DEF SInv, AInv, IInv, RoomInv, Clock
<1>1. m_left \in Nat /\ m_left' \in Nat /\ Len(words) \in Nat /\ Len(words') \in Nat
  <2>1. words' \in Seq(Word) /\ m_left' \in 0 .. N
    BY <1>0, FifoSteps, MemSteps DEF FetchTypeOK
  <2> QED BY <1>0, <2>1, BurstAssumption DEF FetchTypeOK
<1>2. Len(words') <= lpm_numwords
  BY <1>1, FifoAssumption DEF RoomForBurst
<1>3. ASSUME deliver
      PROVE  Missing > 0 /\ ToFetch = m_addr /\ ~Full /\ dma_state = "WaitData"
  <2>1. m_left > 0
    BY <1>0, <1>3 DEF MemClock
  <2>2. dma_state = "WaitData" /\ m_addr = CurrentAddr /\ lcd_enable
    BY <1>0, <2>1 DEF BeatInv, FlagInv
  <2>3. PICK j \in Nat : CurrentLen = 2 * m_left + (2 * N) * j
    BY <1>0, <2>2 DEF LengthInv
  <2>4. (2 * N) * j \in Nat
    BY BurstAssumption
  <2>5. CurrentLen > 0
    BY <1>1, <2>1, <2>3, <2>4
  <2>6. ~Full
    BY <1>0, <1>1, <2>1, FifoAssumption DEF RoomForBurst, Full
  <2> QED BY <2>2, <2>5, <2>6 DEF Missing, ToFetch, Fetching
<1>4. words' = IF deliver THEN Append(Remaining(pop), ToFetch)
                          ELSE Remaining(pop)
  BY <1>0, <1>3 DEF FifoClock
<1> QED BY <1>2, <1>3, <1>4

\* The flag and the counters move as FetchService allows.
LEMMA CountersMove ==
  ASSUME SInv, NEW accept \in BOOLEAN, NEW deliver \in BOOLEAN,
         NEW pop \in BOOLEAN, Clock(accept, deliver, pop),
         deliver => dma_state = "WaitData",
         ClearFlag \/ \E im \in Images : Start(im)
  PROVE  \/ /\ ~deliver /\ lcd_enable = FALSE /\ lcd_enable' = TRUE
            /\ \E im \in Images : ToFetch' = im.address /\ Missing' = im.length
         \/ /\ lcd_enable' = lcd_enable
            /\ ToFetch' = IF deliver THEN Plus2(ToFetch) ELSE ToFetch
            /\ Missing' = IF deliver THEN Minus2(Missing) ELSE Missing
         \/ /\ ~deliver /\ lcd_enable = TRUE /\ Missing = 0
            /\ lcd_enable' = FALSE /\ ToFetch' = 0 /\ Missing' = 0
<1>0. /\ FlagInv /\ LengthInv /\ lcd_enable \in BOOLEAN /\ dma_state \in DMAState
      /\ reset_flag_lcdenable \in BOOLEAN
  BY DEF SInv, AInv, IInv, FetchTypeOK, DmaTypeOK
<1>1. DmaClock(lcd_enable, ImageAddress, ImageLength, AlmostFull, ~accept, deliver)
  BY DEF Clock
<1>2. CASE \E im \in Images : Start(im)
  <2>1. /\ lcd_enable = FALSE /\ lcd_enable' = TRUE /\ dma_state = "Idle"
        /\ ~deliver
        /\ \E im \in Images : ImageAddress' = im.address /\ ImageLength' = im.length
    BY <1>0, <1>2 DEF Start, FlagInv
  <2>2. dma_state' = "Idle"
    BY <1>1, <2>1 DEF DmaClock, DmaIdle, DmaWaitFifo, DmaRequest, DmaWaitData,
                      DmaCheckData, DmaResetFlag
  <2> QED BY <2>1, <2>2 DEF ToFetch, Missing, Fetching
<1>3. CASE ClearFlag
  <2>0. /\ lcd_enable' = (lcd_enable /\ reset_flag_lcdenable)
        /\ ImageAddress' = ImageAddress /\ ImageLength' = ImageLength
    BY <1>3 DEF ClearFlag
  <2>1. CASE ~lcd_enable
    <3>1. lcd_enable = FALSE /\ lcd_enable' = FALSE /\ ~deliver
      BY <1>0, <2>0, <2>1 DEF FlagInv
    <3> QED BY <3>1 DEF ToFetch, Missing
  <2>2. CASE lcd_enable /\ ~reset_flag_lcdenable
    <3>1. /\ lcd_enable = TRUE /\ lcd_enable' = FALSE
          /\ dma_state = "ResetFlag" /\ CurrentLen = 0 /\ ~deliver
      BY <1>0, <2>0, <2>2 DEF FlagInv, LengthInv
    <3> QED BY <3>1 DEF ToFetch, Missing, Fetching
  <2>3. CASE lcd_enable /\ reset_flag_lcdenable
    <3>0. lcd_enable = TRUE /\ lcd_enable' = TRUE /\ dma_state # "ResetFlag"
      BY <1>0, <2>0, <2>3 DEF FlagInv
    <3>1. CASE DmaIdle(lcd_enable, ImageAddress, ImageLength)
      <4>1. /\ dma_state = "Idle" /\ CurrentAddr' = ImageAddress
            /\ CurrentLen' = ImageLength /\ ~deliver
        BY <3>1 DEF DmaIdle
      <4> QED BY <4>1, <3>0, <2>0 DEF ToFetch, Missing, Fetching
    <3>2. CASE DmaWaitData(deliver)
      <4>1. /\ dma_state = "WaitData" /\ dma_state' # "Idle"
            /\ CurrentAddr' = IF deliver THEN Plus2(CurrentAddr) ELSE CurrentAddr
            /\ CurrentLen' = IF deliver THEN Minus2(CurrentLen) ELSE CurrentLen
        BY <3>2 DEF DmaWaitData, CountWord
      <4> QED BY <4>1, <3>0 DEF ToFetch, Missing, Fetching
    <3>3. CASE \/ DmaWaitFifo(AlmostFull) \/ DmaRequest(~accept) \/ DmaCheckData
      <4>1. /\ dma_state # "Idle" /\ dma_state' # "Idle" /\ ~deliver
            /\ CurrentAddr' = CurrentAddr /\ CurrentLen' = CurrentLen
        BY <3>3 DEF DmaWaitFifo, DmaRequest, DmaCheckData
      <4> QED BY <4>1, <3>0 DEF ToFetch, Missing, Fetching
    <3> QED BY <1>1, <3>0, <3>1, <3>2, <3>3 DEF DmaClock, DmaResetFlag
  <2> QED BY <1>0, <2>1, <2>2, <2>3
<1> QED BY <1>2, <1>3

\* Every edge of the clock is a step, or a stuttering step, of FetchService.
LEMMA StepImplementsService == SInv /\ SInv' /\ [Next]_vars
                               => [Service!Next]_(Service!service_vars)
<1> SUFFICES ASSUME SInv, SInv', [Next]_vars
             PROVE  [Service!Next]_(Service!service_vars)
  OBVIOUS
<1>0. RoomForBurst'
  BY DEF SInv, AInv, IInv, RoomInv
<1>1. ASSUME NEW accept \in BOOLEAN, NEW deliver \in BOOLEAN,
             NEW pop \in BOOLEAN, Clock(accept, deliver, pop),
             ClearFlag \/ \E im \in Images : Start(im)
      PROVE  Service!Next
  <2>1. Service!Move(deliver, pop) /\ (deliver => dma_state = "WaitData")
    BY <1>0, <1>1, QueueMoves
    DEF Service!Move, Remaining, Empty, ToFetch, Missing
  <2>2. \/ ~deliver /\ Service!Begin
        \/ Service!Fetch(deliver)
        \/ ~deliver /\ Service!Finish
    BY <1>1, <2>1, CountersMove
    DEF Service!Begin, Service!Fetch, Service!Finish, Service!Plus2,
        Service!Minus2, Plus2, Minus2, ToFetch, Missing
  <2> QED BY <2>1, <2>2 DEF Service!Next
<1>2. CASE UNCHANGED vars
  BY <1>2 DEF vars, dma_vars, fifo_vars, cfg_vars, Service!service_vars, Fetching
<1> QED BY <1>1, <1>2 DEF Next, Run, Launch

\* DMA, memory and FIFO implement FetchService: between the raising and the
\* clearing of lcd_enable exactly the words of the image enter the FIFO, in
\* order, for every aligned image made of whole bursts.
THEOREM FetchImplementsService ==
  ASSUME ImagesAligned, ImagesWhole PROVE Spec => ImageService
<1>1. Init => Service!Init
  BY DEF Init, DmaInit, FifoInit, MemInit, Service!Init
<1>2. SInv /\ SInv' /\ [Next]_vars => [Service!Next]_(Service!service_vars)
  BY StepImplementsService
<1> QED BY <1>1, <1>2, ServiceInvariance, PTL DEF Spec, ImageService, Service!Spec
=============================================================================
