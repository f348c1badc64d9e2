----------------------------- MODULE Top_proofs -----------------------------
(***************************************************************************)
(* Proofs about Top, for every program, every size and any number of       *)
(* restarts and presses of KEY0: the type invariant, the priority of the   *)
(* reset flag, the room in the FIFO until KEY0 is pressed, the length of   *)
(* the phases of WRX, and a word for every request of the LCD controller.  *)
(* The inductive invariants are TopInv (types, the processor's bus, the    *)
(* words outstanding, the room), PhaseInv (how long the LCD controller has *)
(* held the lines, against its delay counter) and UnderflowInv (who can    *)
(* raise the reset flag, and the word that PutPixel has seen).             *)
(***************************************************************************)
EXTENDS Top, FetchParts_proofs

\* The two 16-bit registers of an address or a length make one 32-bit word.
LEMMA Halves ==
  /\ HalfMod \in Nat /\ HalfMod > 0 /\ Half \subseteq Word
  /\ \A hi, lo \in Half : hi * HalfMod + lo \in Word
<1>1. HalfMod \in Nat /\ HalfMod > 0 /\ WordMod = HalfMod * HalfMod
  <2>1. WordMod > 4 /\ HalfMod \in Nat /\ WordMod = HalfMod * HalfMod
    BY WordAssumption, HalfAssumption
  <2>2. HalfMod # 0
    BY <2>1
  <2> QED BY <2>1, <2>2
<1>2. HalfMod <= WordMod
  BY <1>1
<1>3. ASSUME NEW hi \in Half, NEW lo \in Half
      PROVE  hi * HalfMod + lo \in Word
  <2>1. hi \in Nat /\ lo \in Nat /\ HalfMod - 1 - hi \in Nat /\ lo < HalfMod
    BY <1>1 DEF Half
  <2>2. (HalfMod - 1 - hi) * HalfMod >= 0
    BY <2>1, <1>1
  <2>3. (HalfMod - 1 - hi) * HalfMod = WordMod - HalfMod - hi * HalfMod
    BY <2>1, <1>1
  <2>4. hi * HalfMod \in Nat
    BY <2>1, <1>1
  <2> QED BY <1>1, <2>1, <2>2, <2>3, <2>4 DEF Word
<1> QED BY <1>1, <1>2, <1>3 DEF Half, Word

LEMMA HalvesOfWord ==
  ASSUME NEW w \in Word PROVE Low(w) \in Half /\ High(w) \in Half
<1>1. HalfMod \in Nat /\ HalfMod > 0 /\ w \in Nat /\ w < HalfMod * HalfMod
  BY Halves, HalfAssumption DEF Word
<1>2. w % HalfMod \in 0 .. HalfMod - 1
  BY <1>1
<1>3. w \div HalfMod \in 0 .. HalfMod - 1
  BY <1>1
<1> QED BY <1>2, <1>3 DEF Low, High, Half

-----------------------------------------------------------------------------
(* The program's accesses.                                                 *)

AccessSet(bits) ==
  [kind : {"write"}, reg : RegIndex \ {FLAGS}, val : Half]
  \cup [kind : {"write"}, reg : {FLAGS}, val : SUBSET bits]
  \cup [kind : {"read"}] \cup [kind : {"or", "poll"}, bit : bits]

LEMMA FlagAccesses ==
  ASSUME NEW bits, NEW b \in bits
  PROVE  /\ set_flag(b) \in Seq(AccessSet(bits)) /\ Len(set_flag(b)) = 2
         /\ Poll(b) \in Seq(AccessSet(bits)) /\ Len(Poll(b)) = 1
<1>1. Read \in AccessSet(bits) /\ WriteOr(b) \in AccessSet(bits)
      /\ [kind |-> "poll", bit |-> b] \in AccessSet(bits)
  BY DEF AccessSet, Read, WriteOr
<1> QED BY <1>1 DEF set_flag, Poll

LEMMA RegisterAccesses ==
  ASSUME NEW bits
  PROVE  /\ \A r \in RegIndex \ {FLAGS}, v \in Half : Write(r, v) \in AccessSet(bits)
         /\ \A v \in SUBSET bits : Write(FLAGS, v) \in AccessSet(bits)
         /\ {0, 1, 2, 3, COMMAND_REG, N_PARAMS} \subseteq RegIndex \ {FLAGS}
         /\ \A i \in 1 .. MaxParams : PARAM(i - 1) \in RegIndex \ {FLAGS}
BY HalfAssumption
   DEF AccessSet, Write, RegIndex, FLAGS, COMMAND_REG, N_PARAMS, PARAM

LEMMA Concatenation ==
  ASSUME NEW S, NEW s \in Seq(S), NEW t \in Seq(S)
  PROVE  s \o t \in Seq(S) /\ Len(s \o t) = Len(s) + Len(t)
OBVIOUS

LEMMA WaitingCall ==
  ASSUME NEW bits, NEW b \in bits
  PROVE  /\ set_flag(b) \o Poll(b) \in Seq(AccessSet(bits))
         /\ Len(set_flag(b) \o Poll(b)) > 0
<1>1. ASSUME NEW s \in Seq(AccessSet(bits)), NEW t \in Seq(AccessSet(bits)), Len(s) = 2
      PROVE  s \o t \in Seq(AccessSet(bits)) /\ Len(s \o t) > 0
  <2>1. s \o t \in Seq(AccessSet(bits)) /\ Len(s \o t) = Len(s) + Len(t)
    BY Concatenation
  <2>2. Len(t) \in Nat
    OBVIOUS
  <2> QED BY <2>1, <2>2, <1>1
<1> QED BY <1>1, FlagAccesses

LEMMA SendCommandTyped ==
  ASSUME NEW bits, "SendCommand" \in bits,
         NEW cmd \in Half, NEW params \in Seq(Half), Len(params) \in Half,
         Len(params) <= MaxParams
  PROVE  /\ send_command(cmd, params) \in Seq(AccessSet(bits))
         /\ Len(send_command(cmd, params)) > 0
<1> DEFINE head == <<Write(COMMAND_REG, cmd), Write(N_PARAMS, Len(params))>>
           body == [i \in 1 .. Len(params) |-> Write(PARAM(i - 1), params[i])]
           go   == <<Write(FLAGS, {"SendCommand"})>>
           wait == Poll("SendCommand")
<1>1. head \in Seq(AccessSet(bits)) /\ Len(head) = 2
  BY RegisterAccesses
<1>2. body \in Seq(AccessSet(bits))
  <2>1. \A i \in 1 .. Len(params) : Write(PARAM(i - 1), params[i]) \in AccessSet(bits)
    BY RegisterAccesses, HalfAssumption
  <2> QED BY <2>1
<1>3. go \in Seq(AccessSet(bits))
  BY RegisterAccesses
<1>4. wait \in Seq(AccessSet(bits)) /\ Len(wait) = 1
  BY FlagAccesses
<1> HIDE DEF head, body, go, wait
<1>5. head \o body \in Seq(AccessSet(bits))
  BY <1>1, <1>2, Concatenation
<1>6. (head \o body) \o go \in Seq(AccessSet(bits))
  BY <1>3, <1>5, Concatenation
<1>7. LET s == (head \o body) \o go
      IN  s \o wait \in Seq(AccessSet(bits)) /\ Len(s \o wait) > 0
  <2>1. ASSUME NEW s \in Seq(AccessSet(bits))
        PROVE  s \o wait \in Seq(AccessSet(bits)) /\ Len(s \o wait) > 0
    <3>1. s \o wait \in Seq(AccessSet(bits)) /\ Len(s \o wait) = Len(s) + 1
      BY <1>4, Concatenation
    <3> QED BY <3>1
  <2> QED BY <2>1, <1>6
<1> QED BY <1>7 DEF send_command, head, body, go, wait

\* Every call of the program is at least one access, and each is well typed;
\* only reset_lcd names the reset flag.
LEMMA CallsTyped ==
  ASSUME NEW bits, {"LcdEnable", "SendCommand"} \subseteq bits,
         NEW i \in 1 .. Len(Program),
         Program[i].op = "reset_lcd" => "Reset" \in bits
  PROVE  /\ Accesses(Program[i]) \in Seq(AccessSet(bits))
         /\ Len(Accesses(Program[i])) > 0
<1>0. IsCall(Program[i])
  BY ProgramAssumption
<1>1. CASE Program[i].op = "reset_lcd"
  <2>1. Accesses(Program[i]) = set_flag("Reset") \o Poll("Reset")
    BY <1>1 DEF Accesses, reset_lcd
  <2> QED BY <1>1, <2>1, WaitingCall
<1>2. CASE Program[i].op = "start_lcd"
  <2>1. Accesses(Program[i]) = set_flag("LcdEnable") \o Poll("LcdEnable")
    BY <1>2 DEF Accesses, start_lcd
  <2> QED BY <2>1, WaitingCall
<1>3. CASE Program[i].op = "send_command"
  BY <1>0, <1>3, SendCommandTyped DEF IsCall, Accesses
<1>4. CASE Program[i].op = "configure_image"
  <2>1. /\ Low(Program[i].addr) \in Half /\ High(Program[i].addr) \in Half
        /\ Low(Program[i].size) \in Half /\ High(Program[i].size) \in Half
    BY <1>0, <1>4, HalvesOfWord DEF IsCall
  <2>2. configure_image(Program[i].addr, Program[i].size) \in Seq(AccessSet(bits))
        /\ Len(configure_image(Program[i].addr, Program[i].size)) > 0
    <3>1. ASSUME NEW S, NEW a \in S, NEW b \in S, NEW c \in S, NEW d \in S
          PROVE  <<a, b, c, d>> \in Seq(S) /\ Len(<<a, b, c, d>>) > 0
      OBVIOUS
    <3>2. \A r \in {0, 1, 2, 3}, v \in Half : Write(r, v) \in AccessSet(bits)
      BY RegisterAccesses
    <3>3. /\ Write(0, Low(Program[i].addr)) \in AccessSet(bits)
          /\ Write(1, High(Program[i].addr)) \in AccessSet(bits)
          /\ Write(2, Low(Program[i].size)) \in AccessSet(bits)
          /\ Write(3, High(Program[i].size)) \in AccessSet(bits)
      BY <2>1, <3>2
    <3> HIDE DEF Write
    <3> QED BY <3>1, <3>3 DEF configure_image
  <2>3. Accesses(Program[i]) = configure_image(Program[i].addr, Program[i].size)
    BY <1>4 DEF Accesses
  <2> QED BY <2>2, <2>3, Zenon
<1> QED BY <1>0, <1>1, <1>2, <1>3, <1>4 DEF IsCall

LEMMA ProgramTyped ==
  ASSUME NEW i \in 1 .. Len(Program)
  PROVE  /\ Accesses(Program[i]) \in Seq(AccessSet(FlagBit))
         /\ Len(Accesses(Program[i])) > 0
BY CallsTyped DEF FlagBit

-----------------------------------------------------------------------------
(* The processor and the register file.                                    *)

BusSet(bits) ==
  {NoAccess}
  \cup [op : {"write"}, reg : RegIndex \ {FLAGS}, val : Half]
  \cup [op : {"write"}, reg : {FLAGS}, val : SUBSET bits]
  \cup [op : {"read", "capture"}, reg : {FLAGS}]

CpuInv ==
  /\ CpuTypeOK /\ bus \in BusSet(FlagBit)
  /\ bus.op # "none" => ~Returned

LEMMA Requests ==
  ASSUME NEW bits, NEW a \in AccessSet(bits), flags \in SUBSET bits
  PROVE  Request(a) \in BusSet(bits)
BY DEF AccessSet, Request, BusWrite, BusRead, BusSet

LEMMA Progress ==
  ASSUME CpuTypeOK, ~Returned, Advance
  PROVE  /\ call' \in 1 .. Len(Program) + 1
         /\ ~Returned' => step' \in 1 .. Len(Accesses(Program[call']))
<1>1. /\ call \in 1 .. Len(Program) /\ Len(Program) \in Nat
      /\ step \in 1 .. Len(Accesses(Program[call]))
      /\ Len(Accesses(Program[call])) \in Nat
  BY ProgramAssumption, ProgramTyped DEF CpuTypeOK, Returned
<1>2. CASE step < Len(Accesses(Program[call]))
  BY <1>1, <1>2 DEF Advance
<1>3. CASE ~(step < Len(Accesses(Program[call])))
  <2>1. step' = 1 /\ call' = call + 1
    BY <1>3 DEF Advance
  <2>2. ASSUME ~Returned' PROVE step' \in 1 .. Len(Accesses(Program[call']))
    <3>1. call' \in 1 .. Len(Program)
      BY <1>1, <2>1, <2>2 DEF Returned
    <3>2. /\ Len(Accesses(Program[call'])) \in Nat
          /\ Len(Accesses(Program[call'])) > 0
      BY <3>1, ProgramTyped
    <3> QED BY <2>1, <3>2
  <2> QED BY <1>1, <2>1, <2>2
<1> QED BY <1>2, <1>3

\* One edge of the processor.
LEMMA CpuSteps ==
  ASSUME CpuInv, readdata \in SUBSET FlagBit,
         NEW act \in BOOLEAN, CpuClock(act)
  PROVE  CpuInv'
<1> USE DEF CpuInv
<1>1. CASE CpuWaits
  BY <1>1 DEF CpuWaits, cpu_vars, CpuTypeOK, Returned
<1>2. CASE CpuIssues
  <2>1. call \in 1 .. Len(Program)
    BY <1>2, ProgramAssumption DEF CpuIssues, CpuTypeOK, Returned
  <2>2. Access \in AccessSet(FlagBit)
    BY <1>2, <2>1, ProgramTyped DEF CpuIssues, CpuTypeOK, Access
  <2>3. bus' \in BusSet(FlagBit)
    BY <1>2, <2>2, Requests DEF CpuIssues, CpuTypeOK
  <2>4. bus'.op \in {"none", "write", "read", "capture"}
    BY <2>3 DEF BusSet, NoAccess
  <2> QED BY <1>2, <2>3, <2>4 DEF CpuIssues, CpuTypeOK, Returned
<1>3. CASE CpuWrote
  <2>1. ~Returned
    BY <1>3 DEF CpuWrote
  <2> QED BY <1>3, <2>1, Progress DEF CpuWrote, CpuTypeOK, BusSet, NoAccess
<1>4. CASE CpuReads
  <2>1. bus \in [op : {"read", "capture"}, reg : {FLAGS}]
    BY <1>4 DEF CpuReads, BusSet, NoAccess
  <2>2. bus' \in BusSet(FlagBit) /\ bus'.op = "capture"
    BY <1>4, <2>1 DEF CpuReads, BusSet
  <2>3. ~Returned
    BY <1>4 DEF CpuReads
  <2> QED BY <1>4, <2>2, <2>3 DEF CpuReads, CpuTypeOK, Returned
<1>5. CASE CpuReadDone
  <2>1. ~Returned
    BY <1>5 DEF CpuReadDone
  <2>2. bus' \in BusSet(FlagBit) /\ bus'.op = "none" /\ flags' \in SUBSET FlagBit
    BY <1>5 DEF CpuReadDone, BusSet, NoAccess
  <2>3. CASE UNCHANGED <<call, step>>
    BY <2>1, <2>2, <2>3 DEF CpuTypeOK, Returned
  <2>4. CASE Advance
    BY <2>1, <2>2, <2>4, Progress DEF CpuTypeOK
  <2> QED BY <1>5, <2>3, <2>4 DEF CpuReadDone
<1> QED BY <1>1, <1>2, <1>3, <1>4, <1>5 DEF CpuClock

\* One edge of the register file.
LEMMA RegSteps ==
  ASSUME RegTypeOK, bus \in BusSet(FlagBit), NEW strobed, RegClock(bus, strobed)
  PROVE  RegTypeOK'
<1>1. CASE bus.op = "write" /\ bus.reg = FLAGS
  BY <1>1 DEF RegClock, NextFlags, RegTypeOK, BusSet, NoAccess
<1>2. CASE bus.op = "write" /\ bus.reg # FLAGS
  BY <1>2 DEF RegClock, NextFlags, RegTypeOK, BusSet, NoAccess
<1>3. CASE bus.op # "write"
  BY <1>3 DEF RegClock, NextFlags, RegTypeOK, BusSet, NoAccess
<1> QED BY <1>1, <1>2, <1>3

\* What the other components read of it.
LEMMA RegisterOutputs ==
  ASSUME RegTypeOK
  PROVE  /\ ImageAddress \in Word /\ ImageLength \in Word
         /\ CommandReg \in Word
         /\ \A i \in Nat : Params(i % MaxParams) \in Word
<1>1. \A r \in RegIndex \ {FLAGS} : registers[r] \in Half
  BY DEF RegTypeOK
<1>2. \A i \in Nat : i % MaxParams \in 0 .. MaxParams - 1
  BY HalfAssumption
<1>3. \A i \in Nat : PARAM(i % MaxParams) \in RegIndex \ {FLAGS}
  BY <1>2, HalfAssumption DEF PARAM, RegIndex, FLAGS
<1> QED BY <1>1, <1>3, Halves, RegisterAccesses
        DEF ImageAddress, ImageLength, CommandReg, Params

-----------------------------------------------------------------------------
(* The LCD controller.                                                     *)

LcdBits == {WRX, RESX, rdreq, reset_flag_reset, reset_flag_cmd}

LEMMA GotoTyped ==
  ASSUME NEW s \in LCDState, Goto(s) PROVE lcd_state' \in LCDState
BY DEF Goto, Forced, LCDState

LEMMA DelayTyped ==
  ASSUME NEW here \in LCDState, NEW there \in LCDState, cc4 \in 0 .. 4,
         Delay(here, there)
  PROVE  lcd_state' \in LCDState /\ cc4' \in 0 .. 4
BY GotoTyped DEF Delay

\* The lines and the strobes stay lines, whatever the state.
LEMMA LcdBitSteps ==
  ASSUME LcdTypeOK, LcdClock PROVE LcdBits' \subseteq BOOLEAN
<1> SUFFICES /\ WRX' \in BOOLEAN /\ RESX' \in BOOLEAN /\ rdreq' \in BOOLEAN
             /\ reset_flag_reset' \in BOOLEAN /\ reset_flag_cmd' \in BOOLEAN
  BY Zenon DEF LcdBits
<1>0. /\ WRX \in BOOLEAN /\ RESX \in BOOLEAN /\ rdreq \in BOOLEAN
      /\ reset_flag_reset \in BOOLEAN /\ reset_flag_cmd \in BOOLEAN
  BY DEF LcdTypeOK
<1>b. /\ (~RESXLow) \in BOOLEAN /\ (reset_counter < RESX_End) \in BOOLEAN
      /\ (cc4 = 2) \in BOOLEAN /\ TRUE \in BOOLEAN /\ FALSE \in BOOLEAN
  BY DEF RESXLow
<1>1. CASE LcdIdle
  BY <1>0, <1>1, Zenon DEF LcdIdle, StrobesUp
<1>2. CASE LcdReset
  BY <1>0, <1>b, <1>2, Zenon DEF LcdReset
<1>3. CASE ReadCmd
  BY <1>0, <1>3, Zenon DEF ReadCmd
<1>4. CASE Send
  BY <1>0, <1>4, Zenon DEF Send
<1>5. CASE FetchParam
  BY <1>0, <1>5, Zenon DEF FetchParam
<1>6. CASE ResetRegs
  BY <1>0, <1>6, Zenon DEF ResetRegs
<1>7. CASE IdleImageDisplay
  BY <1>0, <1>7, Zenon DEF IdleImageDisplay
<1>8. CASE PutWriteCmd
  BY <1>0, <1>8, Zenon DEF PutWriteCmd
<1>9. CASE WritePixel
  BY <1>0, <1>9, Zenon DEF WritePixel
<1>10. CASE PutPixel
  BY <1>0, <1>b, <1>10, Zenon DEF PutPixel
<1> QED BY <1>1, <1>2, <1>3, <1>4, <1>5, <1>6, <1>7, <1>8, <1>9, <1>10
        DEF LcdClock

\* One edge of the LCD controller.
LEMMA LcdSteps ==
  ASSUME LcdTypeOK, RegTypeOK, q \in Word, LcdClock
  PROVE  LcdTypeOK'
<1>0. /\ lcd_state \in LCDState /\ reset_counter \in 0 .. RESX_End + 1
      /\ k \in 0 .. 4 * MaxParams - 1 /\ cc4 \in 0 .. 4
      /\ BytesLeft \in Word /\ D \in Word /\ D_CX \in {0, 1}
  BY DEF LcdTypeOK
<1>n. RESX_End \in Nat /\ MaxParams \in Nat /\ MaxParams > 0 /\ WriteMemory \in Word
  BY ResetTimes, HalfAssumption, CommandAssumption
<1>r. ImageLength \in Word /\ CommandReg \in Word
      /\ (\A i \in Nat : Params(i % MaxParams) \in Word)
  BY RegisterOutputs
<1> DEFINE Goal == /\ lcd_state' \in LCDState /\ reset_counter' \in 0 .. RESX_End + 1
                   /\ k' \in 0 .. 4 * MaxParams - 1 /\ cc4' \in 0 .. 4
                   /\ BytesLeft' \in Word /\ D' \in Word /\ D_CX' \in {0, 1}
<1> SUFFICES Goal
  BY LcdBitSteps DEF LcdTypeOK, LcdBits
<1>s. {"Idle", "Reset", "ReadCmd", "Send", "FetchParam", "ResetRegs",
       "IdleImageDisplay", "PutWriteCmd", "WritePixel", "PutPixel"} \subseteq LCDState
  BY DEF LCDState
<1>1. CASE LcdIdle
  BY <1>0, <1>1, <1>s, GotoTyped DEF LcdIdle
<1>2. CASE LcdReset
  BY <1>0, <1>n, <1>2, <1>s, GotoTyped DEF LcdReset
<1>3. CASE ReadCmd
  BY <1>0, <1>n, <1>r, <1>3, <1>s, DelayTyped DEF ReadCmd
<1>4. CASE Send
  BY <1>0, <1>4, <1>s, DelayTyped, GotoTyped DEF Send
<1>5. CASE FetchParam
  <2>1. k \in Nat /\ (k + 1) % (4 * MaxParams) \in 0 .. 4 * MaxParams - 1
    BY <1>0, <1>n
  <2> QED BY <1>0, <1>r, <1>5, <1>s, <2>1, DelayTyped DEF FetchParam
<1>6. CASE ResetRegs
  BY <1>0, <1>6, <1>s, DelayTyped DEF ResetRegs
<1>7. CASE IdleImageDisplay
  BY <1>0, <1>r, <1>7, <1>s, GotoTyped DEF IdleImageDisplay
<1>8. CASE PutWriteCmd
  BY <1>0, <1>n, <1>8, <1>s, DelayTyped DEF PutWriteCmd
<1>9. CASE WritePixel
  BY <1>0, <1>9, <1>s, WordSteps, DelayTyped, GotoTyped DEF WritePixel
<1>10. CASE PutPixel
  BY <1>0, <1>10, <1>s, DelayTyped DEF PutPixel
<1> QED BY <1>1, <1>2, <1>3, <1>4, <1>5, <1>6, <1>7, <1>8, <1>9, <1>10
        DEF LcdClock

-----------------------------------------------------------------------------
(* The fetch side, with a memory that may forget and a read that KEY0 may  *)
(* leave asserted.                                                         *)

\* While a burst is awaited no other is requested, and what is owed of it is
\* at most what the DMA controller still counts.
OwedInv ==
  dma_state = "WaitData" => /\ ~read /\ current_burst <= N
                            /\ m_left <= N + 1 - current_burst

\* Until KEY0, read follows the state, at most one word comes after its burst
\* was given up, and a requested burst has its room.
RoomInv ==
  keys = 0 => /\ read <=> dma_state = "Request"
              /\ dma_state # "WaitData" => m_left <= 1
              /\ Len(words) + m_left <= lpm_numwords
              /\ dma_state = "Request" => Len(words) + m_left + N <= lpm_numwords

LEMMA DmaSteps ==
  ASSUME DmaTypeOK, OwedInv, m_addr \in Word, m_left \in 0 .. N,
         NEW adr \in Word, NEW len \in Word, NEW lcd_enable \in BOOLEAN,
         NEW accept \in BOOLEAN, NEW deliver \in BOOLEAN,
         MemClock(read, address, N, accept, deliver),
         DmaClock(lcd_enable, adr, len, AlmostFull, ~accept, deliver)
  PROVE  DmaTypeOK' /\ OwedInv'
<1> USE BurstAssumption
<1>1. /\ accept => m_left = 0 /\ m_left' = N
      /\ deliver => ~accept /\ m_left > 0 /\ m_left' = m_left - 1
      /\ ~accept /\ ~deliver => m_left' = m_left
      /\ accept => read
  BY MemoryStep DEF DmaTypeOK
<1>2. CASE DmaIdle(lcd_enable, adr, len)
  BY <1>2 DEF DmaIdle, DmaTypeOK, DMAState, OwedInv
<1>3. CASE DmaWaitFifo(AlmostFull)
  BY <1>3 DEF DmaWaitFifo, DmaTypeOK, DMAState, OwedInv
<1>4. CASE DmaRequest(~accept)
  <2>0. /\ dma_state = "Request" /\ current_burst' = 1
        /\ accept => dma_state' = "WaitData" /\ read' = FALSE
        /\ ~accept => dma_state' = dma_state /\ read' = read
        /\ CurrentAddr' = CurrentAddr /\ CurrentLen' = CurrentLen
        /\ address' = address /\ reset_flag_lcdenable' = reset_flag_lcdenable
    BY <1>4 DEF DmaRequest, StartCounting
  <2>1. 1 \in 1 .. N + 1
    OBVIOUS
  <2>2. DmaTypeOK'
    BY <2>0, <2>1, Zenon DEF DmaTypeOK, DMAState
  <2>3. CASE accept
    BY <2>0, <2>2, <2>3, <1>1 DEF OwedInv
  <2>4. CASE ~accept
    BY <2>0, <2>2, <2>4 DEF OwedInv
  <2> QED BY <2>3, <2>4
<1>5. CASE DmaWaitData(deliver)
  BY <1>1, <1>5, WordSteps
  DEF DmaWaitData, CountWord, BurstDone, DmaTypeOK, DMAState, OwedInv
<1>6. CASE DmaCheckData
  BY <1>6 DEF DmaCheckData, DmaTypeOK, DMAState, OwedInv
<1>7. CASE DmaResetFlag
  BY <1>7 DEF DmaResetFlag, DmaTypeOK, DMAState, OwedInv
<1> QED BY <1>2, <1>3, <1>4, <1>5, <1>6, <1>7 DEF DmaClock

LEMMA RoomSteps ==
  ASSUME DmaTypeOK, OwedInv, RoomInv, keys' = keys,
         words \in Seq(Word), q \in Word, m_addr \in Word, m_left \in 0 .. N,
         NEW adr \in Word, NEW len \in Word, NEW lcd_enable \in BOOLEAN,
         NEW accept \in BOOLEAN, NEW deliver \in BOOLEAN, NEW pop \in BOOLEAN,
         MemClock(read, address, N, accept, deliver),
         DmaClock(lcd_enable, adr, len, AlmostFull, ~accept, deliver),
         FifoClock(deliver, m_addr, pop)
  PROVE  RoomInv'
<1> SUFFICES ASSUME keys = 0 PROVE RoomInv'
  BY DEF RoomInv
<1> USE BurstAssumption
<1>1. /\ accept => read /\ m_left = 0 /\ m_left' = N
      /\ deliver => ~accept /\ m_left > 0 /\ m_left' = m_left - 1
      /\ ~accept /\ ~deliver => m_left' = m_left
      /\ m_left' \in 0 .. N
  BY MemoryStep DEF DmaTypeOK
<1>2. /\ Len(words) \in Nat /\ Len(words') \in Nat
      /\ Len(words') <= Len(words) + 1
      /\ ~deliver => Len(words') <= Len(words)
  BY FifoSteps
<1>3. /\ lpm_numwords \in Nat /\ almost_full_value \in Nat
      /\ almost_full_value + N <= lpm_numwords
  BY FifoAssumption, RoomAssumption
<1>4. /\ read <=> dma_state = "Request"
      /\ dma_state # "WaitData" => m_left <= 1
      /\ Len(words) + m_left <= lpm_numwords
      /\ dma_state = "Request" => Len(words) + m_left + N <= lpm_numwords
  BY DEF RoomInv
<1>5. ~accept => Len(words') + m_left' <= Len(words) + m_left
  BY <1>1, <1>2
<1>6. CASE DmaIdle(lcd_enable, adr, len)
  <2>1. ~accept /\ ~read' /\ m_left <= 1 /\ dma_state' \in {"Idle", "WaitFifo"}
    BY <1>1, <1>4, <1>6 DEF DmaIdle
  <2> QED BY <2>1, <1>1, <1>2, <1>3, <1>4, <1>5 DEF RoomInv
<1>7. CASE DmaWaitFifo(AlmostFull)
  <2>1. ~accept /\ m_left <= 1
    BY <1>1, <1>4, <1>7 DEF DmaWaitFifo
  <2>2. ASSUME dma_state' = "Request"
        PROVE  Len(words) + 1 <= almost_full_value
    BY <1>7, <1>2, <1>3, <2>2 DEF DmaWaitFifo, MayRequest, AlmostFull
  <2>3. dma_state' = "Request" => Len(words') + m_left' + N <= lpm_numwords
    BY <2>1, <2>2, <1>1, <1>2, <1>3, <1>5
  <2>4. (read' <=> dma_state' = "Request") /\ dma_state' # "WaitData"
    BY <1>7, <1>4 DEF DmaWaitFifo
  <2> QED BY <2>1, <2>3, <2>4, <1>1, <1>2, <1>3, <1>4, <1>5 DEF RoomInv
<1>8. CASE DmaRequest(~accept)
  <2>0. /\ dma_state = "Request"
        /\ accept => dma_state' = "WaitData" /\ read' = FALSE
        /\ ~accept => dma_state' = dma_state /\ read' = read
    BY <1>8 DEF DmaRequest
  <2>1. CASE accept
    <3>1. ~deliver
      BY <2>1, <1>1
    <3>2. Len(words') + m_left' <= lpm_numwords
      BY <2>0, <2>1, <3>1, <1>1, <1>2, <1>3, <1>4
    <3> QED BY <2>0, <2>1, <3>2 DEF RoomInv
  <2>2. CASE ~accept
    BY <2>0, <2>2, <1>1, <1>2, <1>3, <1>4, <1>5 DEF RoomInv
  <2> QED BY <2>1, <2>2
<1>9. CASE DmaWaitData(deliver)
  <2>0. /\ dma_state = "WaitData" /\ read' = read /\ ~read /\ ~accept
        /\ current_burst \in Nat /\ m_left <= N + 1 - current_burst
        /\ dma_state' \in {"WaitData", "CheckData"}
        /\ dma_state' # "WaitData" => current_burst = N
    BY <1>9, <1>1, <1>4 DEF DmaWaitData, BurstDone, OwedInv, DmaTypeOK
  <2>1. dma_state' # "WaitData" => m_left' <= 1
    BY <2>0, <1>1
  <2>3. ~(dma_state' = "Request") /\ ~read'
    BY <2>0
  <2>2. Len(words') + m_left' <= lpm_numwords
    BY <2>0, <1>1, <1>2, <1>3, <1>4, <1>5
  <2> QED BY <2>1, <2>2, <2>3 DEF RoomInv
<1>10. CASE DmaCheckData
  BY <1>1, <1>2, <1>3, <1>4, <1>5, <1>10 DEF DmaCheckData, RoomInv
<1>11. CASE DmaResetFlag
  BY <1>1, <1>2, <1>3, <1>4, <1>5, <1>11 DEF DmaResetFlag, RoomInv
<1> QED BY <1>6, <1>7, <1>8, <1>9, <1>10, <1>11 DEF DmaClock

-----------------------------------------------------------------------------
(* Top.                                                                    *)

\* LCDController.vhd:58-60: a reset flag that is up after an edge has forced the
\* state to Reset.
ResetWins == "Reset" \in Flags => lcd_state = "Reset"

TopInv ==
  /\ TopTypeOK /\ CpuInv /\ OwedInv /\ RoomInv /\ ResetWins

LEMMA TopInit == Init => TopInv
<1> SUFFICES ASSUME Init PROVE TopInv
  OBVIOUS
<1> USE WordAssumption, BurstAssumption, FifoAssumption, HalfAssumption,
        ResetTimes, ProgramAssumption, BoundsAssumption
        DEF Init, CpuInit, RegInit, DmaInit, MemInit, FifoInit,
            LcdInit, DisplayInit
<1>0. 0 \in Word /\ 0 \in Half /\ 1 \in 1 .. N + 1 /\ 0 \in 0 .. N
  BY Halves DEF Word, Half
<1>1. CpuInv
  <2>1. 1 \in 1 .. Len(Program) => Len(Accesses(Program[1])) > 0
                                   /\ Len(Accesses(Program[1])) \in Nat
    BY ProgramTyped
  <2> QED BY <2>1 DEF CpuInv, CpuTypeOK, BusSet, NoAccess, Returned
<1>2. RegTypeOK
  BY <1>0 DEF RegTypeOK
<1>3. DmaTypeOK
  BY <1>0, Zenon DEF DmaTypeOK, DMAState
<1>4. LcdTypeOK
  <2>1. LcdBits \subseteq BOOLEAN
    BY Zenon DEF LcdBits
  <2>2. /\ lcd_state \in LCDState /\ reset_counter \in 0 .. RESX_End + 1
        /\ k \in 0 .. 4 * MaxParams - 1 /\ cc4 \in 0 .. 4
        /\ BytesLeft \in Word /\ D \in Word /\ D_CX \in {0, 1}
    BY <1>0 DEF LCDState
  <2> QED BY <2>1, <2>2 DEF LcdTypeOK, LcdBits
<1>5. /\ words \in Seq(Word) /\ q \in Word /\ m_addr \in Word
      /\ m_left \in 0 .. N /\ held \in 1 .. Phase
      /\ restarts \in 0 .. MaxRestarts /\ keys \in 0 .. MaxKeys
  BY <1>0 DEF Phase
<1>6. TopTypeOK
  BY <1>1, <1>2, <1>3, <1>4, <1>5 DEF TopTypeOK, CpuInv
<1>7. OwedInv /\ ResetWins
  BY DEF OwedInv, ResetWins
<1>8. RoomInv
  BY DEF RoomInv
<1> QED BY <1>1, <1>6, <1>7, <1>8 DEF TopInv

\* Every edge leaves the controller in Reset if it leaves the flag up.
LEMMA ResetSteps ==
  ASSUME LcdClock PROVE ResetWins'
<1>1. \E s : Goto(s)
  BY DEF LcdClock, LcdIdle, LcdReset, ReadCmd, Send, FetchParam, ResetRegs,
         IdleImageDisplay, PutWriteCmd, WritePixel, PutPixel, Delay
<1> QED BY <1>1 DEF Goto, Forced, ResetWins

LEMMA TickSteps ==
  ASSUME TopInv, NEW act \in BOOLEAN, NEW accept \in BOOLEAN,
         NEW deliver \in BOOLEAN, Tick(act, accept, deliver)
  PROVE  TopInv'
<1> USE DEF TopInv, TopTypeOK
<1>1. CpuInv'
  BY CpuSteps DEF Tick, RegTypeOK
<1>2. RegTypeOK'
  BY RegSteps DEF Tick, CpuInv
<1>3. /\ m_addr' \in Word /\ m_left' \in 0 .. N
  BY MemoryStep, BurstAssumption DEF Tick, DmaTypeOK
<1>4. DmaTypeOK' /\ OwedInv'
  <2>1. ("LcdEnable" \in Flags) \in BOOLEAN
    OBVIOUS
  <2> QED BY <2>1, DmaSteps, RegisterOutputs DEF Tick
<1>5. LcdTypeOK'
  BY LcdSteps DEF Tick
<1>6. rdreq \in BOOLEAN /\ deliver \in BOOLEAN
  BY DEF LcdTypeOK
<1>7. words' \in Seq(Word) /\ q' \in Word
  BY <1>6, FifoSteps DEF Tick
<1>8. RoomInv'
  <2>1. ("LcdEnable" \in Flags) \in BOOLEAN
    OBVIOUS
  <2>2. ImageAddress \in Word /\ ImageLength \in Word
    BY RegisterOutputs
  <2>3. /\ MemClock(read, address, N, accept, deliver) /\ keys' = keys
        /\ DmaClock("LcdEnable" \in Flags, ImageAddress, ImageLength, AlmostFull,
                    ~accept, deliver)
        /\ FifoClock(deliver, m_addr, rdreq)
    BY DEF Tick
  <2> QED BY <1>6, <2>1, <2>2, <2>3, RoomSteps, ZenonT(30)
<1>9. ResetWins'
  BY ResetSteps DEF Tick
<1>10. held' \in 1 .. Phase
  BY DEF Tick, DisplayClock, Phase
<1>11. restarts' \in 0 .. MaxRestarts /\ keys' \in 0 .. MaxKeys
  BY DEF Tick
<1>12. CpuTypeOK'
  BY <1>1 DEF CpuInv
<1> QED BY <1>1, <1>2, <1>3, <1>4, <1>5, <1>7, <1>8, <1>9, <1>10, <1>11, <1>12

\* The program's start, whoever causes it.
LEMMA StartSteps ==
  ASSUME ProgramStarts PROVE CpuInv'
<1>1. 1 \in 1 .. Len(Program) => Len(Accesses(Program[1])) > 0
                                 /\ Len(Accesses(Program[1])) \in Nat
  BY ProgramTyped
<1> QED BY <1>1, ProgramAssumption
        DEF ProgramStarts, CpuInv, CpuTypeOK, BusSet, NoAccess, Returned

LEMMA CpuRestartSteps == TopInv /\ CpuRestart => TopInv'
<1> SUFFICES ASSUME TopInv, CpuRestart PROVE TopInv'
  OBVIOUS
<1> USE DEF TopInv, TopTypeOK, CpuRestart
<1>1. CpuInv'
  BY StartSteps
<1>2. UNCHANGED <<reg_vars, dma_vars, fifo_vars, lcd_vars, display_vars, keys>>
  OBVIOUS
<1>3. RegTypeOK' /\ DmaTypeOK' /\ LcdTypeOK' /\ ResetWins'
  BY <1>2 DEF reg_vars, dma_vars, lcd_vars, RegTypeOK, DmaTypeOK, LcdTypeOK,
              ResetWins
<1>4. /\ m_left' \in 0 .. N /\ m_left' <= m_left /\ m_addr' \in Word
      /\ words' = words /\ q' = q /\ held' = held
  BY <1>2, BurstAssumption DEF fifo_vars, display_vars
<1>5. OwedInv'
  BY <1>2, <1>4, BurstAssumption DEF dma_vars, OwedInv, DmaTypeOK
<1>6. RoomInv'
  <2>1. Len(words) \in Nat /\ lpm_numwords \in Nat /\ N \in Nat
    BY FifoAssumption, BurstAssumption
  <2>2. /\ m_left \in Nat /\ m_left' \in Nat /\ m_left' <= m_left
        /\ words' = words /\ dma_state' = dma_state /\ read' = read
        /\ keys' = keys
    BY <1>2, <1>4, BurstAssumption DEF dma_vars
  <2> QED BY <2>1, <2>2 DEF RoomInv
<1>7. restarts' \in 0 .. MaxRestarts /\ keys' \in 0 .. MaxKeys
  BY <1>2, BoundsAssumption
<1> QED BY <1>1, <1>3, <1>4, <1>5, <1>6, <1>7 DEF CpuInv

LEMMA Key0Steps == TopInv /\ Key0 => TopInv'
<1> SUFFICES ASSUME TopInv, Key0 PROVE TopInv'
  OBVIOUS
<1> USE DEF TopInv, TopTypeOK, Key0
<1>0. 0 \in Word /\ 1 \in 1 .. N + 1 /\ 0 \in 0 .. N
  BY WordAssumption, BurstAssumption DEF Word
<1>1. CpuInv'
  BY StartSteps
<1>2. RegTypeOK'
  BY DEF RegReset, RegTypeOK
<1>3. DmaTypeOK'
  BY <1>0, Zenon DEF DmaReset, DmaTypeOK, DMAState
<1>4. LcdTypeOK'
  <2>1. LcdBits' \subseteq BOOLEAN
    <3>1. rdreq' \in BOOLEAN /\ WRX' = FALSE /\ RESX' = FALSE
          /\ reset_flag_reset' = TRUE /\ reset_flag_cmd' = TRUE
      BY DEF LcdNReset, LcdTypeOK, StrobesUp
    <3> QED BY <3>1, Zenon DEF LcdBits
  <2>2. /\ lcd_state' \in LCDState /\ reset_counter' \in 0 .. RESX_End + 1
        /\ k' \in 0 .. 4 * MaxParams - 1 /\ cc4' \in 0 .. 4
        /\ BytesLeft' \in Word /\ D' \in Word /\ D_CX' \in {0, 1}
    BY <1>0, ResetTimes, HalfAssumption DEF LcdNReset, LcdTypeOK, LCDState
  <2> QED BY <2>1, <2>2 DEF LcdTypeOK, LcdBits
<1>5. /\ words' \in Seq(Word) /\ q' \in Word
      /\ m_left' \in 0 .. N /\ m_addr' \in Word /\ held' \in 1 .. Phase
  BY <1>0 DEF FifoReset, Phase
<1>6. /\ restarts' \in 0 .. MaxRestarts /\ keys' \in 0 .. MaxKeys /\ keys' # 0
  BY BoundsAssumption
<1>7. OwedInv' /\ RoomInv'
  BY <1>6 DEF DmaReset, OwedInv, RoomInv
<1>8. ResetWins'
  BY DEF RegReset, LcdNReset, ResetWins
<1> QED BY <1>1, <1>2, <1>3, <1>4, <1>5, <1>6, <1>7, <1>8 DEF CpuInv

LEMMA TopNext == TopInv /\ [Next]_vars => TopInv'
<1> SUFFICES ASSUME TopInv, [Next]_vars PROVE TopInv'
  OBVIOUS
<1>1. ASSUME NEW act \in BOOLEAN, NEW accept \in BOOLEAN,
             NEW deliver \in BOOLEAN, Tick(act, accept, deliver)
      PROVE  TopInv'
  BY <1>1, TickSteps
<1>2. CASE UNCHANGED vars
  BY <1>2 DEF vars, cpu_vars, reg_vars, dma_vars, mem_vars, fifo_vars,
              lcd_vars, display_vars, TopInv, TopTypeOK, CpuInv, CpuTypeOK,
              Returned, RegTypeOK, DmaTypeOK, LcdTypeOK, OwedInv, RoomInv,
              ResetWins
<1> QED BY <1>1, <1>2, CpuRestartSteps, Key0Steps DEF Next

LEMMA TopInvariance == Spec => []TopInv
BY TopInit, TopNext, PTL DEF Spec

-----------------------------------------------------------------------------
(* The phases of WRX.                                                      *)

\* How long WRX has had its level, `held`, against what the state's own
\* counter shows of it.  cc4 may be left over from a state that the reset flag
\* cut short, but by then Reset has held WRX low for five cycles.
LowStates  == {"Idle", "IdleImageDisplay", "ReadCmd", "FetchParam",
               "PutWriteCmd", "PutPixel"}
HighStates == {"Send", "WritePixel"}

PhaseInv ==
  /\ lcd_state \in LowStates => IF WRX THEN held >= Phase /\ cc4 = 0
                                       ELSE held >= cc4
  /\ lcd_state \in HighStates => IF WRX THEN held >= cc4
                                        ELSE held >= Phase /\ cc4 = 0
  /\ lcd_state = "ResetRegs" => WRX /\ held >= cc4 + 1
  /\ IF lcd_state = "Reset"
     THEN reset_counter > 0 => ~WRX /\ (held >= reset_counter \/ held >= Phase)
     ELSE reset_counter = 0

LEMMA GotoEither ==
  ASSUME NEW s, Goto(s) PROVE lcd_state' = s \/ lcd_state' = "Reset"
BY DEF Goto, Forced

LEMMA DelayEither ==
  ASSUME NEW here, NEW there, cc4 \in 0 .. 4, Delay(here, there)
  PROVE  \/ cc4 < 4 /\ cc4' = cc4 + 1 /\ lcd_state' \in {here, "Reset"}
         \/ cc4 = 4 /\ cc4' = 0 /\ lcd_state' \in {there, "Reset"}
BY GotoEither DEF Delay

\* held starts again when WRX changes, else it counts to five.
LEMMA HeldSteps ==
  ASSUME held \in 1 .. Phase, WRX \in BOOLEAN, WRX' \in BOOLEAN, DisplayClock
  PROVE  /\ held' \in 1 .. Phase
         /\ (WRX' <=> WRX) => held' >= held /\ (held' = held + 1 \/ held' = 5)
BY DEF DisplayClock, Phase

\* A state that holds WRX at one level for the usual delay and leaves it to a
\* state that changes the level.
LEMMA LowDelay ==
  ASSUME NEW here \in LowStates, NEW there \in HighStates, lcd_state = here,
         cc4 \in 0 .. 4, held \in 1 .. Phase, WRX \in BOOLEAN, PhaseInv,
         ~WRX', WRX' \in BOOLEAN, reset_counter' = reset_counter,
         Delay(here, there), DisplayClock
  PROVE  PhaseInv' /\ (WRX => held >= Phase)
<1>1. /\ WRX => held >= 5 /\ cc4 = 0
      /\ ~WRX => held >= cc4
      /\ reset_counter = 0
  BY DEF PhaseInv, LowStates, Phase
<1>2. /\ held' \in 1 .. 5
      /\ ~WRX => held' >= held /\ (held' = held + 1 \/ held' = 5)
  BY HeldSteps DEF Phase
<1>3. CASE cc4 < 4 /\ cc4' = cc4 + 1 /\ lcd_state' \in {here, "Reset"}
  <2>1. held' >= cc4'
    BY <1>1, <1>2, <1>3
  <2> QED BY <1>1, <1>3, <2>1 DEF PhaseInv, LowStates, HighStates, Phase
<1>4. CASE cc4 = 4 /\ cc4' = 0 /\ lcd_state' \in {there, "Reset"}
  <2>1. held' >= 5
    BY <1>1, <1>2, <1>4
  <2> QED BY <1>1, <1>4, <2>1 DEF PhaseInv, LowStates, HighStates, Phase
<1> QED BY <1>3, <1>4, DelayEither

LEMMA HighDelay ==
  ASSUME NEW here \in HighStates, NEW there \in LowStates, lcd_state = here,
         cc4 \in 0 .. 4, held \in 1 .. Phase, WRX \in BOOLEAN, PhaseInv,
         WRX', WRX' \in BOOLEAN, reset_counter' = reset_counter,
         Delay(here, there), DisplayClock
  PROVE  PhaseInv' /\ (~WRX => held >= Phase)
<1>1. /\ ~WRX => held >= 5 /\ cc4 = 0
      /\ WRX => held >= cc4
      /\ reset_counter = 0
  BY DEF PhaseInv, HighStates, Phase
<1>2. /\ held' \in 1 .. 5
      /\ WRX => held' >= held /\ (held' = held + 1 \/ held' = 5)
  BY HeldSteps DEF Phase
<1>3. CASE cc4 < 4 /\ cc4' = cc4 + 1 /\ lcd_state' \in {here, "Reset"}
  <2>1. held' >= cc4'
    BY <1>1, <1>2, <1>3
  <2> QED BY <1>1, <1>3, <2>1 DEF PhaseInv, LowStates, HighStates, Phase
<1>4. CASE cc4 = 4 /\ cc4' = 0 /\ lcd_state' \in {there, "Reset"}
  <2>1. held' >= 5
    BY <1>1, <1>2, <1>4
  <2> QED BY <1>1, <1>4, <2>1 DEF PhaseInv, LowStates, HighStates, Phase
<1> QED BY <1>3, <1>4, DelayEither

\* One edge keeps the invariant and ends no phase early.
LEMMA PhaseSteps ==
  ASSUME LcdTypeOK, LcdTypeOK', held \in 1 .. Phase, PhaseInv, LcdClock,
         DisplayClock
  PROVE  /\ PhaseInv'
         /\ WRX' # WRX => held >= Phase \/ lcd_state = "Reset"
<1>a. WRX \in BOOLEAN /\ WRX' \in BOOLEAN
  BY DEF LcdTypeOK
<1> SUFFICES PhaseInv' /\ (~(WRX' <=> WRX) => held >= 5 \/ lcd_state = "Reset")
  BY <1>a, Zenon DEF Phase
<1>0. /\ cc4 \in 0 .. 4 /\ reset_counter \in 0 .. RESX_End + 1
      /\ WRX \in BOOLEAN /\ WRX' \in BOOLEAN
      /\ RESX_End \in Nat /\ RESX_End >= 3 /\ held \in 1 .. 5
  BY ResetTimes DEF LcdTypeOK, Phase
<1>1. /\ held' \in 1 .. 5
      /\ (WRX' <=> WRX) => held' >= held /\ (held' = held + 1 \/ held' = 5)
  BY <1>0, HeldSteps DEF Phase
<1>2. CASE LcdIdle
  <2>1. /\ lcd_state = "Idle" /\ ~WRX' /\ cc4' = cc4
        /\ reset_counter' = 0
        /\ lcd_state' \in LowStates \cup {"Reset"}
    BY <1>2, GotoEither DEF LcdIdle, LowStates, PhaseInv
  <2>2. (WRX => held >= 5 /\ cc4 = 0) /\ (~WRX => held >= cc4)
    BY <2>1 DEF PhaseInv, LowStates, Phase
  <2>3. held' >= cc4'
    BY <2>1, <2>2, <1>0, <1>1
  <2> QED BY <2>1, <2>2, <2>3 DEF PhaseInv, LowStates, HighStates
<1>3. CASE LcdReset
  <2>1. /\ lcd_state = "Reset" /\ ~WRX' /\ cc4' = cc4
        /\ \/ reset_counter' = reset_counter + 1 /\ lcd_state' = "Reset"
           \/ /\ reset_counter > RESX_End /\ reset_counter' = 0
              /\ lcd_state' \in {"Idle", "Reset"}
    BY <1>0, <1>3, GotoEither DEF LcdReset
  <2>2. reset_counter > 0 => ~WRX /\ (held >= reset_counter \/ held >= 5)
    BY <2>1 DEF PhaseInv, Phase
  <2>3. held' >= reset_counter' \/ held' >= 5
    BY <2>1, <2>2, <1>0, <1>1
  <2>4. reset_counter > RESX_End => held' >= cc4'
    BY <2>1, <2>2, <1>0, <1>1
  <2> QED BY <2>1, <2>3, <2>4, <1>0 DEF PhaseInv, LowStates, HighStates, Phase
<1>4. CASE ReadCmd
  BY <1>0, <1>4, LowDelay DEF ReadCmd, LowStates, HighStates, Phase
<1>5. CASE Send
  <2>1. lcd_state = "Send" /\ WRX' /\ reset_counter' = reset_counter
    BY <1>5 DEF Send
  <2>2. CASE ~AllSent
    BY <1>0, <1>5, <2>1, <2>2, HighDelay DEF Send, LowStates, HighStates, Phase
  <2>3. CASE AllSent
    <3>1. cc4' = 0 /\ lcd_state' \in {"ResetRegs", "Reset"}
      BY <1>5, <2>3, GotoEither DEF Send
    <3>2. (~WRX => held >= 5) /\ reset_counter = 0
      BY <2>1 DEF PhaseInv, HighStates, Phase
    <3> QED BY <2>1, <3>1, <3>2, <1>0, <1>1 DEF PhaseInv, LowStates, HighStates
  <2> QED BY <2>2, <2>3
<1>6. CASE FetchParam
  BY <1>0, <1>6, LowDelay DEF FetchParam, LowStates, HighStates, Phase
<1>7. CASE ResetRegs
  BY <1>0, <1>1, <1>7, DelayEither
  DEF ResetRegs, PhaseInv, LowStates, HighStates, Phase
<1>8. CASE IdleImageDisplay
  <2>1. /\ lcd_state = "IdleImageDisplay" /\ ~WRX' /\ cc4' = cc4
        /\ reset_counter' = 0
        /\ lcd_state' \in LowStates \cup {"Reset"}
    BY <1>8, GotoEither DEF IdleImageDisplay, LowStates, PhaseInv
  <2>2. (WRX => held >= 5 /\ cc4 = 0) /\ (~WRX => held >= cc4)
    BY <2>1 DEF PhaseInv, LowStates, Phase
  <2>3. held' >= cc4'
    BY <2>1, <2>2, <1>0, <1>1
  <2> QED BY <2>1, <2>2, <2>3 DEF PhaseInv, LowStates, HighStates
<1>9. CASE PutWriteCmd
  BY <1>0, <1>9, LowDelay DEF PutWriteCmd, LowStates, HighStates, Phase
<1>10. CASE WritePixel
  <2>1. lcd_state = "WritePixel" /\ WRX' /\ reset_counter' = reset_counter
    BY <1>10 DEF WritePixel
  <2>2. CASE \E there \in LowStates : Delay("WritePixel", there)
    BY <1>0, <2>1, <2>2, HighDelay DEF HighStates, Phase
  <2>3. CASE cc4' = 0 /\ Goto("WritePixel")
    <3>1. lcd_state' \in {"WritePixel", "Reset"}
      BY <2>3, GotoEither
    <3>2. (~WRX => held >= 5) /\ reset_counter = 0
      BY <2>1 DEF PhaseInv, HighStates, Phase
    <3> QED BY <2>1, <2>3, <3>1, <3>2, <1>0, <1>1
            DEF PhaseInv, LowStates, HighStates
  <2> QED BY <1>10, <2>2, <2>3 DEF WritePixel, LowStates
<1>11. CASE PutPixel
  BY <1>0, <1>11, LowDelay DEF PutPixel, LowStates, HighStates, Phase
<1> QED BY <1>2, <1>3, <1>4, <1>5, <1>6, <1>7, <1>8, <1>9, <1>10, <1>11
        DEF LcdClock

LEMMA PhaseInit == Init => PhaseInv
BY DEF Init, LcdInit, DisplayInit, PhaseInv, LowStates, HighStates, Phase

LEMMA PhaseNext ==
  TopInv /\ TopInv' /\ PhaseInv /\ [Next]_vars
    => PhaseInv' /\ (WRX' # WRX => \/ held >= Phase
                                   \/ lcd_state = "Reset"
                                   \/ keys' # keys)
<1> SUFFICES ASSUME TopInv, TopInv', PhaseInv, [Next]_vars
             PROVE  PhaseInv' /\ (WRX' # WRX => \/ held >= Phase
                                                \/ lcd_state = "Reset"
                                                \/ keys' # keys)
  OBVIOUS
<1>1. ASSUME NEW act \in BOOLEAN, NEW accept \in BOOLEAN,
             NEW deliver \in BOOLEAN, Tick(act, accept, deliver)
      PROVE  PhaseInv' /\ (WRX' # WRX => held >= Phase \/ lcd_state = "Reset")
  BY <1>1, PhaseSteps DEF Tick, TopInv, TopTypeOK
<1>2. CASE UNCHANGED <<lcd_vars, display_vars>>
  BY <1>2 DEF lcd_vars, display_vars, PhaseInv, LowStates, HighStates, Phase
<1>3. CASE Key0
  <2>1. /\ lcd_state' \in {"Idle", "Reset"} /\ ~WRX' /\ cc4' = 0
        /\ reset_counter' = 0 /\ held' = 5
    BY <1>3 DEF Key0, LcdNReset, Phase
  <2>2. keys' # keys
    BY <1>3, BoundsAssumption DEF Key0, TopInv, TopTypeOK
  <2> QED BY <2>1, <2>2 DEF PhaseInv, LowStates, HighStates
<1>4. CASE CpuRestart
  BY <1>2, <1>4 DEF CpuRestart
<1>5. CASE UNCHANGED vars
  BY <1>2, <1>5 DEF vars
<1> QED BY <1>1, <1>3, <1>4, <1>5 DEF Next

-----------------------------------------------------------------------------
(* A word for every request, in a program that resets the display at most  *)
(* once and first.                                                         *)

ResetsFirst == \A i \in 2 .. Len(Program) : Program[i].op # "reset_lcd"
InReset == call = 1 /\ call <= Len(Program) /\ Program[1].op = "reset_lcd"
LaterFlag == {"LcdEnable", "SendCommand"}

\* During reset_lcd the other flags are down, and what the poll has seen of
\* the reset flag is not older than its fall; after it the reset flag is down,
\* so nothing cuts a state of the LCD controller short.
ResetInv ==
  IF InReset
  THEN /\ step \in 1 .. 3 /\ (bus.op = "write" => step = 2)
       /\ bus \in BusSet({"Reset"})
       /\ bus.op = "write" => bus.reg = FLAGS
       /\ bus.op \in {"read", "capture"} => step # 2
       /\ bus.op = "capture" /\ "Reset" \in Flags => "Reset" \in readdata
       /\ {Flags, flags, readdata} \subseteq SUBSET {"Reset"}
       /\ lcd_state \in {"Idle", "Reset"}
  ELSE /\ bus \in BusSet(LaterFlag)
       /\ {Flags, flags, readdata} \subseteq SUBSET LaterFlag

\* PutPixel begins with a word in the FIFO and asks once, at the end of cc4 = 2.
PopInv ==
  IF lcd_state = "PutPixel"
  THEN (cc4 <= 3 => ~Empty) /\ (rdreq <=> cc4 = 3)
  ELSE ~rdreq

Undisturbed == restarts = 0 /\ keys = 0
UnderflowInv == Undisturbed => ResetInv /\ PopInv

LEMMA ResetAccesses ==
  ASSUME InReset
  PROVE  /\ Len(Accesses(Program[call])) = 3
         /\ Accesses(Program[call])[1] = Read
         /\ Accesses(Program[call])[2] = WriteOr("Reset")
         /\ Accesses(Program[call])[3] = [kind |-> "poll", bit |-> "Reset"]
<1>1. Accesses(Program[call]) = set_flag("Reset") \o Poll("Reset")
  BY DEF InReset, Accesses, reset_lcd
<1>2. ASSUME NEW a, NEW b, NEW c
      PROVE  LET s == <<a, b>> \o <<c>>
             IN  Len(s) = 3 /\ s[1] = a /\ s[2] = b /\ s[3] = c
  OBVIOUS
<1> QED BY <1>1, <1>2 DEF set_flag, Poll

\* One edge of the processor and of the flags during reset_lcd.
LEMMA ResetCallSteps ==
  ASSUME ResetsFirst, CpuInv, ResetInv, InReset, NEW act \in BOOLEAN,
         NEW strobed, CpuClock(act), RegClock(bus, strobed),
         lcd_state' \in {"Idle", "Reset"}
  PROVE  ResetInv'
<1> DEFINE R == {"Reset"}
<1>0. /\ step \in 1 .. 3 /\ (bus.op = "write" => step = 2 /\ bus.reg = FLAGS)
      /\ bus \in BusSet(R) /\ call = 1 /\ call \in 1 .. Len(Program)
      /\ bus.op \in {"read", "capture"} => step # 2
      /\ bus.op = "capture" /\ "Reset" \in Flags => "Reset" \in readdata
      /\ Flags \in SUBSET R /\ flags \in SUBSET R /\ readdata \in SUBSET R
      /\ Len(Program) \in Nat
  BY ProgramAssumption DEF ResetInv, InReset
<1>1. /\ Flags' \in SUBSET R /\ readdata' \in SUBSET R
      /\ bus.op # "write" => Flags' \subseteq Flags
      /\ bus.op = "read" => readdata' = Flags
      /\ bus.op # "read" => readdata' = {}
  <2>1. bus.op = "write" => bus.val \in SUBSET R
    BY <1>0 DEF BusSet, NoAccess
  <2>2. bus.op = "read" => bus.reg = FLAGS
    BY <1>0 DEF BusSet, NoAccess
  <2>3. /\ Flags' = NextFlags(bus, strobed)
        /\ readdata' = IF bus.op = "read" /\ bus.reg = FLAGS THEN Flags ELSE {}
    BY DEF RegClock
  <2>4. readdata' \in SUBSET R /\ (bus.op = "read" => readdata' = Flags)
        /\ (bus.op # "read" => readdata' = {})
    BY <1>0, <2>2, <2>3
  <2>5. Flags' \in SUBSET R /\ (bus.op # "write" => Flags' \subseteq Flags)
    BY <1>0, <2>1, <2>3 DEF NextFlags
  <2> QED BY <2>4, <2>5
<1>2. CASE CpuWaits
  BY <1>0, <1>1, <1>2 DEF CpuWaits, cpu_vars, ResetInv, InReset
<1>3. CASE CpuIssues
  <2>1. /\ call' = call /\ step' = step /\ flags' = flags /\ bus' = Request(Access)
        /\ InReset'
    BY <1>3 DEF CpuIssues, InReset
  <2>2. \/ step \in {1, 3} /\ bus' = BusRead
        \/ step = 2 /\ bus' = BusWrite(FLAGS, flags \cup {"Reset"})
    <3>1. \/ step = 1 /\ Access = Read
          \/ step = 2 /\ Access = WriteOr("Reset")
          \/ step = 3 /\ Access = [kind |-> "poll", bit |-> "Reset"]
      BY <1>0, ResetAccesses DEF Access
    <3> QED BY <2>1, <3>1 DEF Read, WriteOr, Request
  <2>3. bus' \in BusSet(R)
    BY <1>0, <2>2 DEF BusSet, BusRead, BusWrite
  <2> QED BY <1>0, <1>1, <2>1, <2>2, <2>3 DEF ResetInv, BusRead, BusWrite
<1>4. CASE CpuWrote
  <2>1. step' = 3 /\ call' = call /\ bus' = NoAccess /\ flags' = flags
    BY <1>0, <1>4, ResetAccesses DEF CpuWrote, Advance
  <2> QED BY <1>0, <1>1, <2>1 DEF ResetInv, InReset, BusSet, NoAccess
<1>5. CASE CpuReads
  <2>1. /\ bus.op = "read" /\ bus \in [op : {"read", "capture"}, reg : {FLAGS}]
        /\ call' = call /\ step' = step /\ flags' = flags
    BY <1>0, <1>5 DEF CpuReads, BusSet, NoAccess
  <2>2. bus' \in BusSet(R) /\ bus'.op = "capture"
    BY <1>5, <2>1 DEF CpuReads, BusSet
  <2> QED BY <1>0, <1>1, <2>1, <2>2 DEF ResetInv, InReset
<1>6. CASE CpuReadDone
  <2>1. /\ bus.op = "capture" /\ bus' = NoAccess /\ flags' = readdata
        /\ readdata' = {} /\ Flags' \subseteq Flags
    BY <1>1, <1>6 DEF CpuReadDone
  <2>2. CASE UNCHANGED <<call, step>>
    BY <1>0, <1>1, <2>1, <2>2 DEF ResetInv, InReset, BusSet, NoAccess
  <2>3. CASE step = 1 /\ Advance
    <3>1. step' = 2 /\ call' = call
      BY <2>3, ResetAccesses DEF Advance
    <3> QED BY <1>0, <1>1, <2>1, <3>1 DEF ResetInv, InReset, BusSet, NoAccess
  <2>4. CASE step = 3 /\ Advance /\ "Reset" \notin readdata
    <3>1. call' = call + 1
      <4>1. Len(Accesses(Program[call])) = 3 /\ step = 3
        BY <2>4, ResetAccesses
      <4>2. ~(step < Len(Accesses(Program[call])))
        BY <4>1
      <4> QED BY <2>4, <4>2 DEF Advance
    <3>2. Flags' = {} /\ flags' = {}
      BY <1>0, <2>1, <2>4
    <3>3. ~InReset'
      BY <1>0, <3>1 DEF InReset
    <3> QED BY <2>1, <3>2, <3>3 DEF ResetInv, BusSet, NoAccess
  <2>5. step = 3 => Access.kind = "poll" /\ Access.bit = "Reset"
    BY ResetAccesses DEF Access
  <2>6. step \in {1, 3}
    BY <1>0, <2>1
  <2> QED BY <1>6, <2>2, <2>3, <2>4, <2>5, <2>6 DEF CpuReadDone
<1> QED BY <1>2, <1>3, <1>4, <1>5, <1>6 DEF CpuClock

\* And in every later call.
LEMMA LaterCallSteps ==
  ASSUME ResetsFirst, CpuInv, ResetInv, ~InReset, NEW act \in BOOLEAN,
         NEW strobed, CpuClock(act), RegClock(bus, strobed)
  PROVE  ResetInv'
<1>0. /\ bus \in BusSet(LaterFlag) /\ Flags \in SUBSET LaterFlag
      /\ flags \in SUBSET LaterFlag /\ readdata \in SUBSET LaterFlag
  BY DEF ResetInv
<1>1. Flags' \in SUBSET LaterFlag /\ readdata' \in SUBSET LaterFlag
  BY <1>0 DEF RegClock, NextFlags, BusSet, NoAccess
<1>2. CpuTypeOK /\ Len(Program) \in Nat
  BY ProgramAssumption DEF CpuInv
<1> SUFFICES ~InReset' /\ bus' \in BusSet(LaterFlag) /\ flags' \in SUBSET LaterFlag
  BY <1>1 DEF ResetInv
<1>3. call' = call => ~InReset'
  BY DEF InReset
<1>4. ASSUME Advance PROVE ~InReset'
  <2>1. call' = call \/ call' = call + 1
    BY <1>4 DEF Advance
  <2>2. call' = call + 1 => call' # 1
    BY <1>2 DEF CpuTypeOK
  <2> QED BY <1>3, <2>1, <2>2 DEF InReset
<1>5. CASE CpuWaits
  BY <1>0, <1>3, <1>5 DEF CpuWaits, cpu_vars
<1>6. CASE CpuIssues
  <2>1. call \in 1 .. Len(Program)
    BY <1>2, <1>6 DEF CpuIssues, CpuTypeOK, Returned
  <2>2. Program[call].op # "reset_lcd"
    BY <1>2, <2>1 DEF ResetsFirst, InReset
  <2>3. Accesses(Program[call]) \in Seq(AccessSet(LaterFlag))
    BY <2>1, <2>2, CallsTyped DEF LaterFlag
  <2>4. Access \in AccessSet(LaterFlag)
    BY <1>2, <1>6, <2>3 DEF CpuIssues, CpuTypeOK, Access
  <2>5. bus' \in BusSet(LaterFlag)
    BY <1>0, <1>6, <2>4, Requests DEF CpuIssues
  <2> QED BY <1>0, <1>3, <1>6, <2>5 DEF CpuIssues
<1>7. CASE CpuWrote
  BY <1>0, <1>4, <1>7 DEF CpuWrote, BusSet
<1>8. CASE CpuReads
  <2>1. bus \in [op : {"read", "capture"}, reg : {FLAGS}]
    BY <1>0, <1>8 DEF CpuReads, BusSet, NoAccess
  <2>2. bus' \in BusSet(LaterFlag)
    BY <1>8, <2>1 DEF CpuReads, BusSet
  <2> QED BY <1>0, <1>3, <1>8, <2>2 DEF CpuReads
<1>9. CASE CpuReadDone
  <2>1. bus' \in BusSet(LaterFlag) /\ flags' \in SUBSET LaterFlag
    BY <1>0, <1>9 DEF CpuReadDone, BusSet
  <2> QED BY <1>3, <1>4, <1>9, <2>1 DEF CpuReadDone
<1> QED BY <1>5, <1>6, <1>7, <1>8, <1>9 DEF CpuClock

\* One edge of the controller and the FIFO, when nothing can force Reset.
LEMMA PopSteps ==
  ASSUME LcdTypeOK, words \in Seq(Word), PopInv, "Reset" \notin Flags,
         "Reset" \notin Flags', LcdClock,
         NEW data \in Word, NEW push \in BOOLEAN, FifoClock(push, data, rdreq)
  PROVE  PopInv'
<1>0. /\ cc4 \in 0 .. 4 /\ rdreq \in BOOLEAN
      /\ \A s : Goto(s) => lcd_state' = s
  BY DEF LcdTypeOK, Goto, Forced
<1>1. ~rdreq /\ ~Empty => ~Empty'
  BY DEF FifoClock, Remaining, Empty
<1>2. CASE lcd_state # "PutPixel" /\ lcd_state' # "PutPixel"
  <2>1. ~rdreq'
    BY <1>2 DEF PopInv, LcdClock, LcdIdle, LcdReset, ReadCmd, Send, FetchParam,
       ResetRegs, IdleImageDisplay, PutWriteCmd, WritePixel, PutPixel
  <2> QED BY <1>2, <2>1 DEF PopInv
<1>3. CASE lcd_state # "PutPixel" /\ lcd_state' = "PutPixel"
  <2>1. WritePixel
    BY <1>0, <1>3 DEF LcdClock, LcdIdle, LcdReset, ReadCmd, Send, FetchParam,
       ResetRegs, IdleImageDisplay, PutWriteCmd, PutPixel, Delay
  <2>2. ~rdreq /\ ~rdreq' /\ ~Empty /\ cc4' = 0
    BY <1>0, <1>3, <2>1 DEF PopInv, WritePixel, PixelReady, Delay
  <2> QED BY <1>1, <1>3, <2>2 DEF PopInv
<1>4. CASE lcd_state = "PutPixel"
  <2>1. /\ rdreq' <=> cc4 = 2
        /\ Delay("PutPixel", "WritePixel")
        /\ cc4 <= 3 => ~Empty
        /\ rdreq <=> cc4 = 3
    BY <1>4 DEF PopInv, LcdClock, LcdIdle, LcdReset, ReadCmd, Send, FetchParam,
       ResetRegs, IdleImageDisplay, PutWriteCmd, WritePixel, PutPixel
  <2>2. CASE cc4 < 4
    <3>1. lcd_state' = "PutPixel" /\ cc4' = cc4 + 1
      BY <1>0, <2>1, <2>2 DEF Delay
    <3>2. cc4' <= 3 => ~Empty'
      BY <1>0, <1>1, <2>1, <3>1
    <3> QED BY <1>0, <2>1, <3>1, <3>2 DEF PopInv
  <2>3. CASE cc4 = 4
    <3>1. lcd_state' = "WritePixel"
      BY <1>0, <2>1, <2>3 DEF Delay
    <3> QED BY <2>1, <2>3, <3>1 DEF PopInv
  <2> QED BY <1>0, <2>2, <2>3
<1> QED BY <1>2, <1>3, <1>4

\* During reset_lcd the controller goes between Idle and Reset.
LEMMA ResettingSteps ==
  ASSUME lcd_state \in {"Idle", "Reset"}, PopInv, LcdClock,
         Flags \in SUBSET {"Reset"}
  PROVE  lcd_state' \in {"Idle", "Reset"} /\ PopInv'
<1>1. CASE LcdIdle
  BY <1>1, GotoEither DEF LcdIdle, PopInv
<1>2. CASE LcdReset
  BY <1>2, GotoEither DEF LcdReset, PopInv
<1> QED BY <1>1, <1>2 DEF LcdClock, ReadCmd, Send, FetchParam, ResetRegs,
        IdleImageDisplay, PutWriteCmd, WritePixel, PutPixel

LEMMA UnderflowInit == Init => UnderflowInv
BY DEF Init, CpuInit, RegInit, LcdInit, UnderflowInv, ResetInv, PopInv, InReset,
       BusSet, NoAccess

LEMMA UnderflowNext ==
  ASSUME ResetsFirst, TopInv, UnderflowInv, [Next]_vars PROVE UnderflowInv'
<1>1. ASSUME NEW act \in BOOLEAN, NEW accept \in BOOLEAN,
             NEW deliver \in BOOLEAN, Tick(act, accept, deliver)
      PROVE  UnderflowInv'
  <2> SUFFICES ASSUME Undisturbed, ResetInv, PopInv PROVE ResetInv' /\ PopInv'
    BY <1>1 DEF Tick, UnderflowInv, Undisturbed
  <2>1. /\ CpuInv /\ LcdTypeOK /\ words \in Seq(Word) /\ m_addr \in Word
        /\ CpuClock(act) /\ RegClock(bus, Strobed) /\ LcdClock
        /\ FifoClock(deliver, m_addr, rdreq)
    BY <1>1 DEF Tick, TopInv, TopTypeOK
  <2>2. CASE InReset
    <3>1. lcd_state' \in {"Idle", "Reset"} /\ PopInv'
      BY <2>1, <2>2, ResettingSteps DEF ResetInv
    <3> QED BY <2>1, <2>2, <3>1, ResetCallSteps
  <2>3. CASE ~InReset
    <3>1. ResetInv'
      BY <2>1, <2>3, LaterCallSteps
    <3>2. "Reset" \notin Flags
      BY <2>3 DEF ResetInv, LaterFlag
    <3>3. "Reset" \notin Flags'
      BY <2>1, <2>3, <3>2
         DEF RegClock, NextFlags, ResetInv, BusSet, NoAccess, LaterFlag
    <3>4. PopInv'
      BY <2>1, <3>2, <3>3, PopSteps
    <3> QED BY <3>1, <3>4
  <2> QED BY <2>2, <2>3
<1>2. CASE CpuRestart
  BY <1>2 DEF CpuRestart, TopInv, TopTypeOK, UnderflowInv, Undisturbed
<1>3. CASE Key0
  BY <1>3 DEF Key0, TopInv, TopTypeOK, UnderflowInv, Undisturbed
<1>4. CASE UNCHANGED vars
  BY <1>4 DEF vars, cpu_vars, reg_vars, fifo_vars, lcd_vars, UnderflowInv,
     Undisturbed, ResetInv, InReset, PopInv, Empty
<1> QED BY <1>1, <1>2, <1>3, <1>4 DEF Next

-----------------------------------------------------------------------------
(* The theorems.                                                           *)

\* Every register of the accelerator keeps its width and its range for every
\* program that the C types admit, restarts and KEY0 included: in particular
\* the counters cc4, k, current_burst and reset_counter.
THEOREM TopTypeCorrect == Spec => []TopTypeOK
<1>1. TopInv => TopTypeOK
  BY DEF TopInv
<1> QED BY <1>1, TopInvariance, PTL

\* Until KEY0, no burst overruns the FIFO: for every program, every image and
\* any restart of the processor, even when the memory forgets a burst and the
\* DMA controller waits for it for ever (DMAController.vhd:72-79).
THEOREM BurstsFitUntilKey0 == Spec => [](keys = 0 => RoomForBurst)
<1>1. TopInv => (keys = 0 => RoomForBurst)
  BY DEF TopInv, RoomInv, RoomForBurst
<1> QED BY <1>1, TopInvariance, PTL

\* LCDController.vhd:158-159, the usual delay, for every program and across
\* restarts: no level of WRX is cut short but by the reset procedure or KEY0,
\* although the flag that triggers the former leaves cc4 as it was.
THEOREM PhasesLast == Spec => PhasesLastFiveCycles
<1>1. TopInv /\ PhaseInv /\ TopInv' /\ [Next]_vars
      => [WRX' # WRX => \/ held >= Phase
                        \/ lcd_state = "Reset"
                        \/ keys' # keys]_vars
  BY PhaseNext
<1>2. TopInv /\ PhaseInv /\ TopInv' /\ [Next]_vars => PhaseInv'
  BY PhaseNext
<1> QED BY <1>1, <1>2, PhaseInit, TopInit, TopNext, PTL
        DEF Spec, PhasesLastFiveCycles

\* LCDController.vhd:224-239: until a restart or KEY0, and for every program
\* that resets the display only first, PutPixel never pops an empty FIFO, so
\* no pixel is put twice.  (A reset flag that cut PutPixel short would leave
\* rdreq up.)
THEOREM NoPopInVain ==
  ResetsFirst => (Spec => [](Undisturbed => NoUnderflow))
<1> SUFFICES ASSUME ResetsFirst PROVE Spec => [](Undisturbed => NoUnderflow)
  OBVIOUS
<1>1. TopInv /\ UnderflowInv /\ [Next]_vars => UnderflowInv'
  BY UnderflowNext
<1>2. UnderflowInv => (Undisturbed => NoUnderflow)
  BY DEF UnderflowInv, PopInv, NoUnderflow
<1> QED BY <1>1, <1>2, UnderflowInit, TopInit, TopNext, PTL DEF Spec
=============================================================================
