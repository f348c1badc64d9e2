--------------------------- MODULE TopCalls_proofs ---------------------------
(***************************************************************************)
(* Proofs about the calls of a program and what they find in the hardware: *)
(* no transfer reaches a display in reset, no request of a flag is lost to *)
(* the strobe that answers the one before, and a command does not change   *)
(* while it is sent.  The invariants are CleanInv for the first, and for   *)
(* the other two ProtocolInv (who may have raised a flag, and what he      *)
(* knows of it), EnableInv and SendInv (how far the processor can be while *)
(* a strobe is still low).                                                 *)
(***************************************************************************)
EXTENDS Top_proofs

-----------------------------------------------------------------------------
(* The order of the accesses of a call.                                    *)

PollOf(b) == [kind |-> "poll", bit |-> b]
Raises(a) == a.kind = "or" \/ (a.kind = "write" /\ a.reg = FLAGS)

\* A flag is raised and then polled, at the end of the call; a flags word that
\* is or'ed has just been read; SendCommand is not among the first two.
InOrder(s) ==
  /\ s[1].kind \notin {"poll", "or"}
  /\ \A j \in 1 .. Len(s) :
       /\ s[j].kind = "poll" => j = Len(s)
       /\ s[j].kind = "or" => /\ j < Len(s) /\ s[j + 1] = PollOf(s[j].bit)
                              /\ s[j].bit # "SendCommand"
       /\ s[j].kind = "write" /\ s[j].reg = FLAGS
          => /\ j >= 3 /\ s[j].val = {"SendCommand"}
             /\ j < Len(s) /\ s[j + 1] = PollOf("SendCommand")
       /\ j < Len(s) => /\ s[j + 1].kind = "or" => s[j].kind = "read"
                        /\ s[j + 1].kind = "poll" => Raises(s[j])

LEMMA WaitingInOrder ==
  ASSUME NEW b, b # "SendCommand" PROVE InOrder(set_flag(b) \o Poll(b))
<1>1. ASSUME NEW x, NEW y, NEW z
      PROVE  LET s == <<x, y>> \o <<z>>
             IN  Len(s) = 3 /\ s[1] = x /\ s[2] = y /\ s[3] = z
  OBVIOUS
<1>2. ASSUME NEW s, Len(s) = 3, s[1] = Read, s[2] = WriteOr(b), s[3] = PollOf(b)
      PROVE  InOrder(s)
  BY <1>2 DEF InOrder, Read, WriteOr, PollOf, Raises
<1>3. /\ Len(set_flag(b) \o Poll(b)) = 3
      /\ (set_flag(b) \o Poll(b))[1] = Read
      /\ (set_flag(b) \o Poll(b))[2] = WriteOr(b)
      /\ (set_flag(b) \o Poll(b))[3] = PollOf(b)
  BY <1>1 DEF set_flag, Poll, PollOf
<1> QED BY <1>2, <1>3

LEMMA FourParts ==
  ASSUME NEW S, NEW x \in S, NEW y \in S, NEW b \in Seq(S), NEW g \in S, NEW w \in S
  PROVE  LET s == <<x, y>> \o b \o <<g>> \o <<w>>
             n == Len(b)
         IN  /\ Len(s) = n + 4 /\ n \in Nat /\ s[1] = x /\ s[2] = y
             /\ \A j \in 3 .. n + 2 : s[j] = b[j - 2]
             /\ s[n + 3] = g /\ s[n + 4] = w
<1> DEFINE n == Len(b)
           c == <<x, y>> \o b
           d == c \o <<g>>
           e == d \o <<w>>
<1>0. n \in Nat /\ <<x, y>> \in Seq(S) /\ <<g>> \in Seq(S) /\ <<w>> \in Seq(S)
  OBVIOUS
<1>1. /\ c \in Seq(S) /\ Len(c) = n + 2 /\ c[1] = x /\ c[2] = y
      /\ \A j \in 3 .. n + 2 : c[j] = b[j - 2]
  BY <1>0
<1> HIDE DEF c
<1>2. /\ d \in Seq(S) /\ Len(d) = n + 3 /\ d[n + 3] = g
      /\ \A j \in 1 .. n + 2 : d[j] = c[j]
  BY <1>0, <1>1
<1> HIDE DEF d
<1>3. /\ Len(e) = n + 4 /\ e[n + 4] = w
      /\ \A j \in 1 .. n + 3 : e[j] = d[j]
  BY <1>0, <1>2
<1> HIDE DEF e, n
<1>4. /\ Len(e) = n + 4 /\ n \in Nat /\ e[1] = x /\ e[2] = y
      /\ \A j \in 3 .. n + 2 : e[j] = b[j - 2]
      /\ e[n + 3] = g /\ e[n + 4] = w
  BY <1>0, <1>1, <1>2, <1>3
<1> QED BY <1>4 DEF c, d, e, n

\* The accesses of send_command, one by one.
LEMMA SendCommandAccesses ==
  ASSUME NEW cmd \in Half, NEW params \in Seq(Half), Len(params) <= MaxParams,
         Len(params) \in Half
  PROVE  LET s == send_command(cmd, params)
             n == Len(params)
         IN  /\ Len(s) = n + 4 /\ n \in Nat
             /\ s[1] = Write(COMMAND_REG, cmd) /\ s[2] = Write(N_PARAMS, n)
             /\ \A j \in 3 .. n + 2 : s[j] = Write(PARAM(j - 3), params[j - 2])
             /\ s[n + 3] = Write(FLAGS, {"SendCommand"})
             /\ s[n + 4] = PollOf("SendCommand")
<1> DEFINE body == [i \in 1 .. Len(params) |-> Write(PARAM(i - 1), params[i])]
           S == AccessSet(FlagBit)
<1>1. /\ Write(COMMAND_REG, cmd) \in S /\ Write(N_PARAMS, Len(params)) \in S
      /\ Write(FLAGS, {"SendCommand"}) \in S /\ PollOf("SendCommand") \in S
  BY RegisterAccesses DEF FlagBit, AccessSet, PollOf
<1>2. \A i \in 1 .. Len(params) : Write(PARAM(i - 1), params[i]) \in S
  BY RegisterAccesses, HalfAssumption
<1>3. /\ body \in Seq(S) /\ Len(body) = Len(params)
      /\ \A j \in 3 .. Len(params) + 2 :
           body[j - 2] = Write(PARAM(j - 3), params[j - 2])
  <2> HIDE DEF S
  <2>1. body \in Seq(S) /\ Len(body) = Len(params)
    BY <1>2
  <2>2. ASSUME NEW j \in 3 .. Len(params) + 2
        PROVE  body[j - 2] = Write(PARAM(j - 3), params[j - 2])
    <3>1. j - 2 \in 1 .. Len(params) /\ (j - 2) - 1 = j - 3
      OBVIOUS
    <3> QED BY <3>1
  <2> QED BY <2>1, <2>2
<1>4. send_command(cmd, params)
        = <<Write(COMMAND_REG, cmd), Write(N_PARAMS, Len(params))>> \o body
          \o <<Write(FLAGS, {"SendCommand"})>> \o <<PollOf("SendCommand")>>
  BY Zenon DEF send_command, Poll, PollOf
<1> HIDE DEF body, S
<1>5. LET s == send_command(cmd, params)
          n == Len(body)
      IN  /\ Len(s) = n + 4 /\ n \in Nat
          /\ s[1] = Write(COMMAND_REG, cmd) /\ s[2] = Write(N_PARAMS, Len(params))
          /\ \A j \in 3 .. n + 2 : s[j] = body[j - 2]
          /\ s[n + 3] = Write(FLAGS, {"SendCommand"})
          /\ s[n + 4] = PollOf("SendCommand")
  BY <1>1, <1>3, <1>4, FourParts
<1> QED BY <1>3, <1>5

LEMMA SendCommandInOrder ==
  ASSUME NEW cmd \in Half, NEW params \in Seq(Half), Len(params) <= MaxParams,
         Len(params) \in Half
  PROVE  InOrder(send_command(cmd, params))
<1> DEFINE n == Len(params)
<1>1. ASSUME NEW s, Len(s) = n + 4, n \in Nat,
             s[1] = Write(COMMAND_REG, cmd), s[2] = Write(N_PARAMS, n),
             \A j \in 3 .. n + 2 : s[j] = Write(PARAM(j - 3), params[j - 2]),
             s[n + 3] = Write(FLAGS, {"SendCommand"}),
             s[n + 4] = PollOf("SendCommand")
      PROVE  InOrder(s)
  <2> HIDE DEF n
  <2>1. \A j \in 1 .. n + 2 : s[j].kind = "write" /\ s[j].reg # FLAGS
    <3>1. s[1].reg = 5 /\ s[2].reg = 6 /\ s[1].kind = "write" /\ s[2].kind = "write"
      BY <1>1 DEF Write, COMMAND_REG, N_PARAMS
    <3>2. \A j \in 3 .. n + 2 : s[j].kind = "write" /\ s[j].reg = 7 + (j - 3)
      <4>1. ASSUME NEW r, NEW v
            PROVE  Write(r, v).kind = "write" /\ Write(r, v).reg = r
        BY DEF Write
      <4>2. \A j \in 3 .. n + 2 : s[j] = Write(PARAM(j - 3), params[j - 2])
        BY <1>1
      <4>3. ASSUME NEW j \in 3 .. n + 2
            PROVE  s[j].kind = "write" /\ s[j].reg = PARAM(j - 3)
        <5>1. s[j] = Write(PARAM(j - 3), params[j - 2])
          BY <4>2
        <5> QED BY <4>1, <5>1
      <4> QED BY <4>3 DEF PARAM
    <3> QED BY <1>1, <3>1, <3>2 DEF FLAGS
  <2>2. /\ s[n + 3].kind = "write" /\ s[n + 3].reg = FLAGS
        /\ s[n + 3].val = {"SendCommand"} /\ s[n + 4].kind = "poll"
    BY <1>1 DEF Write, PollOf
  <2>3. \A j \in 1 .. n + 4 : j \in 1 .. n + 2 \/ j = n + 3 \/ j = n + 4
    BY <1>1
  <2> QED BY <1>1, <2>1, <2>2, <2>3 DEF InOrder, Raises
<1> QED BY <1>1, SendCommandAccesses

LEMMA ConfigureInOrder ==
  ASSUME NEW addr, NEW size PROVE InOrder(configure_image(addr, size))
<1>1. ASSUME NEW s, Len(s) = 4, \A j \in 1 .. 4 : s[j].kind = "write" /\ s[j].reg # FLAGS
      PROVE  InOrder(s)
  BY <1>1 DEF InOrder
<1>2. /\ Len(configure_image(addr, size)) = 4
      /\ \A j \in 1 .. 4 : /\ configure_image(addr, size)[j].kind = "write"
                           /\ configure_image(addr, size)[j].reg # FLAGS
  BY DEF configure_image, Write, FLAGS
<1> QED BY <1>1, <1>2

LEMMA CallsInOrder ==
  ASSUME NEW i \in 1 .. Len(Program) PROVE InOrder(Accesses(Program[i]))
<1>0. IsCall(Program[i])
  BY ProgramAssumption
<1>1. CASE Program[i].op = "reset_lcd"
  BY <1>1, WaitingInOrder DEF Accesses, reset_lcd
<1>2. CASE Program[i].op = "start_lcd"
  BY <1>2, WaitingInOrder DEF Accesses, start_lcd
<1>3. CASE Program[i].op = "send_command"
  BY <1>0, <1>3, SendCommandInOrder DEF IsCall, Accesses
<1>4. CASE Program[i].op = "configure_image"
  BY <1>4, ConfigureInOrder DEF Accesses
<1> QED BY <1>0, <1>1, <1>2, <1>3, <1>4 DEF IsCall

-----------------------------------------------------------------------------
(* No transfer to a display in reset, restarts and KEY0 included.          *)

FirstIsReset == Len(Program) >= 1 /\ Program[1].op = "reset_lcd"

\* RESX is up, or soon will be with nothing sent before.
UnderReset == RESX \/ lcd_state = "Reset"

\* Only before reset_lcd has raised its flag can the display be in reset with
\* the controller elsewhere, and only after KEY0 can the controller send then.
CleanInv ==
  /\ ~reset_flag_reset => RESX
  /\ WRX /\ ~RESX => keys > 0 /\ call = 1
  /\ call = 1 /\ bus.op = "write"
     => step = 2 /\ bus.reg = FLAGS /\ "Reset" \in bus.val
  /\ call = 1 /\ bus.op \in {"read", "capture"} => step # 2
  /\ \/ UnderReset
     \/ /\ call = 1 /\ step \in {1, 2}
        /\ keys = 0 => /\ lcd_state = "Idle"
                       /\ Flags = {} /\ flags = {} /\ readdata = {}

\* What an edge of the LCD controller does to the display's reset line.
LEMMA ResetLineSteps ==
  ASSUME LcdTypeOK, LcdClock
  PROVE  /\ lcd_state # "Reset" => RESX' = RESX
         /\ lcd_state = "Reset" => ~WRX' /\ (RESX' \/ lcd_state' = "Reset")
         /\ (~reset_flag_reset => RESX) => (~reset_flag_reset' => RESX')
         /\ lcd_state = "Idle" => ~WRX'
         /\ WRX' => UNCHANGED <<D, D_CX>>
<1>0. /\ reset_counter \in 0 .. RESX_End + 1
      /\ {RESX_High, RESX_Low, RESX_End} \subseteq Nat
      /\ 0 < RESX_High /\ RESX_High < RESX_Low /\ RESX_Low < RESX_End
  BY ResetTimes DEF LcdTypeOK
<1>1. CASE LcdReset
  <2>1. /\ lcd_state = "Reset" /\ ~WRX' /\ RESX' = ~RESXLow
        /\ reset_flag_reset' <=> reset_counter < RESX_End
        /\ reset_counter <= RESX_End => lcd_state' = "Reset"
    BY <1>1, GotoEither DEF LcdReset
  <2>2. reset_counter >= RESX_End => ~RESXLow
    BY <1>0 DEF RESXLow
  <2>3. reset_counter <= RESX_End \/ reset_counter >= RESX_End
    BY <1>0
  <2>4. ~reset_flag_reset' => reset_counter >= RESX_End
    BY <1>0, <2>1
  <2> QED BY <2>1, <2>2, <2>3, <2>4
<1>2. CASE LcdIdle
  BY <1>2 DEF LcdIdle, StrobesUp
<1> QED BY <1>1, <1>2 DEF LcdClock, ReadCmd, Send, FetchParam, ResetRegs,
        IdleImageDisplay, PutWriteCmd, WritePixel, PutPixel

LEMMA FirstCall ==
  ASSUME FirstIsReset, CpuTypeOK, call = 1
  PROVE  /\ InReset /\ ~Returned /\ step \in 1 .. 3
         /\ Len(Accesses(Program[call])) = 3
         /\ step = 1 => Access = Read
         /\ step = 2 => Access = WriteOr("Reset")
         /\ step = 3 => Access = PollOf("Reset")
<1>1. InReset /\ ~Returned
  BY ProgramAssumption DEF FirstIsReset, InReset, Returned
<1> QED BY <1>1, ResetAccesses DEF CpuTypeOK, Access, PollOf

\* One edge of the processor within the first call.
LEMMA FirstCallSteps ==
  ASSUME FirstIsReset, CpuInv, CleanInv, NEW act \in BOOLEAN, CpuClock(act)
  PROVE  /\ call' = 1 => call = 1
         /\ call' = 1 /\ bus'.op = "write"
            => step' = 2 /\ bus'.reg = FLAGS /\ "Reset" \in bus'.val
         /\ call' = 1 /\ bus'.op \in {"read", "capture"} => step' # 2
         /\ call = 1 /\ step \in {1, 2}
            => \/ call' = 1 /\ step' \in {1, 2}
               \/ /\ call' = 1 /\ bus.op = "write" /\ bus.reg = FLAGS
                  /\ "Reset" \in bus.val
<1>0. CpuTypeOK /\ call \in Nat /\ call >= 1
  BY ProgramAssumption DEF CpuInv, CpuTypeOK
<1>1. CASE call # 1
  <2>1. call' \in {call, call + 1}
    BY DEF CpuClock, CpuWaits, CpuIssues, CpuWrote, CpuReads, CpuReadDone,
           Advance, cpu_vars
  <2> QED BY <1>0, <1>1, <2>1
<1>2. CASE call = 1
  <2>0. /\ Len(Accesses(Program[call])) = 3 /\ step \in 1 .. 3 /\ ~Returned
        /\ step = 1 => Access = Read
        /\ step = 2 => Access = WriteOr("Reset")
        /\ step = 3 => Access = PollOf("Reset")
    BY <1>0, <1>2, FirstCall
  <2>1. CASE CpuWaits
    BY <1>2, <2>0, <2>1 DEF CpuWaits, cpu_vars
  <2>2. CASE CpuIssues
    <3>1. call' = 1 /\ step' = step /\ bus' = Request(Access)
      BY <1>2, <2>2 DEF CpuIssues
    <3>2. \/ step \in {1, 3} /\ bus' = BusRead
          \/ step = 2 /\ bus' = BusWrite(FLAGS, flags \cup {"Reset"})
      BY <2>0, <3>1 DEF Read, WriteOr, PollOf, Request
    <3> QED BY <1>2, <2>0, <3>1, <3>2 DEF BusRead, BusWrite
  <2>3. CASE CpuWrote
    <3>1. /\ step = 2 /\ bus.reg = FLAGS /\ "Reset" \in bus.val /\ bus.op = "write"
          /\ call' = 1 /\ step' = 3 /\ bus' = NoAccess
      BY <1>2, <2>0, <2>3 DEF CleanInv, CpuWrote, Advance
    <3> QED BY <1>2, <3>1 DEF NoAccess
  <2>4. CASE CpuReads
    <3>1. call' = 1 /\ step' = step /\ bus'.op = "capture" /\ step # 2
      <4>1. bus \in [op : {"read", "capture"}, reg : {FLAGS}]
        BY <2>4 DEF CpuReads, CpuInv, BusSet, NoAccess
      <4> QED BY <1>2, <2>4, <4>1 DEF CpuReads, CleanInv
    <3> QED BY <1>2, <2>0, <3>1
  <2>5. CASE CpuReadDone
    <3>1. bus' = NoAccess /\ step # 2
      BY <1>2, <2>5 DEF CpuReadDone, CleanInv
    <3>2. CASE UNCHANGED <<call, step>>
      BY <1>2, <2>0, <3>1, <3>2 DEF NoAccess
    <3>3. CASE Advance
      <4>1. step = 1 => step' = 2 /\ call' = 1
        BY <1>2, <2>0, <3>3 DEF Advance
      <4>2. step = 3 => call' = 2
        <5>1. step = 3 => ~(step < Len(Accesses(Program[call])))
          BY <2>0
        <5> QED BY <1>2, <3>3, <5>1 DEF Advance
      <4> QED BY <1>2, <2>0, <3>1, <4>1, <4>2 DEF NoAccess
    <3> QED BY <2>5, <3>2, <3>3 DEF CpuReadDone
  <2> QED BY <2>1, <2>2, <2>3, <2>4, <2>5 DEF CpuClock
<1> QED BY <1>1, <1>2

\* CleanInv over one edge, and what it says of WRX.
LEMMA CleanTick ==
  ASSUME FirstIsReset, TopInv, TopInv', CleanInv, NEW act \in BOOLEAN,
         NEW accept \in BOOLEAN, NEW deliver \in BOOLEAN,
         Tick(act, accept, deliver)
  PROVE  /\ CleanInv'
         /\ WRX' => /\ RESX' \/ (keys > 0 /\ call = 1)
                    /\ UNCHANGED <<D, D_CX>>
<1>0. /\ CpuInv /\ LcdTypeOK /\ CpuClock(act) /\ RegClock(bus, Strobed) /\ LcdClock
      /\ keys' = keys /\ keys \in Nat /\ ResetWins' /\ CpuTypeOK
      /\ Flags \in SUBSET FlagBit
  BY BoundsAssumption DEF Tick, TopInv, TopTypeOK, RegTypeOK
<1>1. /\ lcd_state # "Reset" => RESX' = RESX
      /\ lcd_state = "Reset" => ~WRX' /\ (RESX' \/ lcd_state' = "Reset")
      /\ ~reset_flag_reset' => RESX'
      /\ lcd_state = "Idle" => ~WRX'
      /\ WRX' => UNCHANGED <<D, D_CX>>
  BY <1>0, ResetLineSteps DEF CleanInv
<1>2. UnderReset => UnderReset'
  BY <1>1 DEF UnderReset
<1>3. ASSUME ~UnderReset
      PROVE  \/ UnderReset'
             \/ /\ call' = 1 /\ step' \in {1, 2}
                /\ keys = 0 => /\ lcd_state' = "Idle"
                               /\ Flags' = {} /\ flags' = {} /\ readdata' = {}
  <2>1. /\ call = 1 /\ step \in {1, 2} /\ reset_flag_reset
        /\ keys = 0 => /\ lcd_state = "Idle"
                       /\ Flags = {} /\ flags = {} /\ readdata = {}
    BY <1>3 DEF CleanInv, UnderReset
  <2>2. CASE bus.op = "write" /\ bus.reg = FLAGS /\ "Reset" \in bus.val
    <3>1. "Reset" \notin Strobed
      BY <2>1 DEF Strobed
    <3>2. "Reset" \in Flags'
      BY <1>0, <2>2, <3>1 DEF RegClock, NextFlags
    <3> QED BY <1>0, <3>2 DEF ResetWins, UnderReset
  <2>3. CASE call' = 1 /\ step' \in {1, 2} /\ bus.op # "write"
    <3>1. ASSUME keys = 0, ~UnderReset'
          PROVE  lcd_state' = "Idle" /\ Flags' = {} /\ flags' = {} /\ readdata' = {}
      <4>1. Flags' = {} /\ readdata' = {}
        BY <1>0, <2>1, <2>3, <3>1 DEF RegClock, NextFlags
      <4>2. flags' = {}
        BY <1>0, <2>1, <3>1
           DEF CpuClock, CpuWaits, CpuIssues, CpuWrote, CpuReads, CpuReadDone, cpu_vars
      <4>3. lcd_state' = "Idle"
        BY <1>0, <2>1, <3>1, <4>1
           DEF LcdClock, LcdIdle, LcdReset, ReadCmd, Send, FetchParam, ResetRegs,
               IdleImageDisplay, PutWriteCmd, WritePixel, PutPixel, Goto, Forced
      <4> QED BY <4>1, <4>2, <4>3
    <3> QED BY <2>3, <3>1
  <2>4. bus.op = "write" => bus.reg = FLAGS /\ "Reset" \in bus.val
    BY <2>1 DEF CleanInv
  <2>5. bus.op # "write" => call' = 1 /\ step' \in {1, 2}
    BY <1>0, <2>1, FirstCallSteps
  <2> QED BY <2>2, <2>3, <2>4, <2>5
<1>4. ASSUME WRX', ~RESX' PROVE keys > 0 /\ call = 1 /\ call' = 1
  <2>1. lcd_state \notin {"Reset", "Idle"} /\ ~RESX
    BY <1>1, <1>4
  <2>2. ~UnderReset /\ call = 1 /\ step \in {1, 2} /\ keys # 0
    BY <2>1 DEF UnderReset, CleanInv
  <2> QED BY <1>0, <2>2, FirstCallSteps
<1>5. /\ call' = 1 /\ bus'.op = "write"
         => step' = 2 /\ bus'.reg = FLAGS /\ "Reset" \in bus'.val
      /\ call' = 1 /\ bus'.op \in {"read", "capture"} => step' # 2
  BY <1>0, FirstCallSteps
<1>6. CleanInv'
  BY <1>0, <1>1, <1>2, <1>3, <1>4, <1>5 DEF CleanInv
<1> QED BY <1>1, <1>4, <1>6

LEMMA CleanInit == Init => CleanInv
BY DEF Init, CpuInit, RegInit, LcdInit, CleanInv, NoAccess

LEMMA CleanNext ==
  ASSUME FirstIsReset, TopInv, TopInv', CleanInv, [Next]_vars
  PROVE  /\ CleanInv'
         /\ [WRX' => /\ RESX' \/ (keys > 0 /\ call = 1)
                     /\ UNCHANGED <<D, D_CX>>]_vars
<1>1. ASSUME NEW act \in BOOLEAN, NEW accept \in BOOLEAN,
             NEW deliver \in BOOLEAN, Tick(act, accept, deliver)
      PROVE  /\ CleanInv'
             /\ WRX' => /\ RESX' \/ (keys > 0 /\ call = 1)
                        /\ UNCHANGED <<D, D_CX>>
  BY <1>1, CleanTick
<1>2. CASE CpuRestart
  <2>1. /\ keys = 0 /\ keys' = 0 /\ call' = 1 /\ step' = 1 /\ flags' = {}
        /\ bus' = NoAccess /\ UNCHANGED <<reg_vars, lcd_vars>>
    BY <1>2 DEF CpuRestart, ProgramStarts
  <2>2. WRX => RESX
    BY <2>1 DEF CleanInv
  <2> QED BY <2>1, <2>2 DEF reg_vars, lcd_vars, CleanInv, UnderReset, NoAccess
<1>3. CASE Key0
  <2>1. /\ keys \in Nat /\ keys' = keys + 1 /\ call' = 1 /\ step' = 1
        /\ bus' = NoAccess /\ ~WRX' /\ reset_flag_reset'
    BY <1>3, BoundsAssumption
       DEF Key0, ProgramStarts, LcdNReset, StrobesUp, TopInv, TopTypeOK
  <2> QED BY <2>1 DEF CleanInv, UnderReset, NoAccess
<1>4. CASE UNCHANGED vars
  BY <1>4 DEF vars, cpu_vars, reg_vars, lcd_vars, CleanInv, UnderReset
<1> QED BY <1>1, <1>2, <1>3, <1>4 DEF Next

\* LCDController.vhd:89-115: for every program that begins with reset_lcd,
\* the data lines do not move while WRX is high or rising, and no transfer
\* reaches a display that is held in reset, wherever the processor restarts;
\* after KEY0, from the return of the restarted program's reset_lcd on.
THEOREM TransfersAreClean == FirstIsReset => (Spec => TransferIsClean)
<1> SUFFICES ASSUME FirstIsReset PROVE Spec => TransferIsClean
  OBVIOUS
<1>1. TopInv /\ TopInv' /\ CleanInv /\ [Next]_vars
      => /\ CleanInv'
         /\ [WRX' => /\ RESX' \/ (keys > 0 /\ call = 1)
                     /\ UNCHANGED <<D, D_CX>>]_vars
  BY CleanNext
<1> QED BY <1>1, CleanInit, TopInit, TopNext, PTL DEF Spec, TransferIsClean

-----------------------------------------------------------------------------
(* Who may have raised a flag, and what he knows of it.                    *)

Polling(b) == ~Returned /\ Access = PollOf(b)

\* A flag that is up is polled for, and the poll has not missed it; no flag is
\* up when a flags word is read to be or'ed.
ProtocolInv ==
  /\ \A b \in Flags : Polling(b) /\ (bus.op = "capture" => b \in readdata)
  /\ bus.op = "write" => bus = Request(Access)
  /\ bus.op \in {"read", "capture"} => Access.kind \in {"read", "poll"}
  /\ ~Returned /\ bus.op = "capture" /\ Access.kind = "read" => readdata = {}
  /\ ~Returned /\ Access.kind = "or" => flags = {}
  /\ Returned => step = 1

\* The current access and the one after it.
LEMMA AccessOrder ==
  ASSUME CpuTypeOK, ~Returned
  PROVE  LET s == Accesses(Program[call])
         IN  /\ call \in 1 .. Len(Program) /\ Len(Program) \in Nat
             /\ Len(s) \in Nat /\ step \in 1 .. Len(s)
             /\ Access = s[step] /\ InOrder(s) /\ Access \in AccessSet(FlagBit)
<1>1. call \in 1 .. Len(Program) /\ Len(Program) \in Nat
  BY ProgramAssumption DEF CpuTypeOK, Returned
<1>2. Accesses(Program[call]) \in Seq(AccessSet(FlagBit))
  BY <1>1, ProgramTyped
<1>3. InOrder(Accesses(Program[call]))
  BY <1>1, CallsInOrder
<1> QED BY <1>1, <1>2, <1>3 DEF CpuTypeOK, Access

LEMMA FirstAccess ==
  ASSUME CpuTypeOK', ~Returned', step' = 1
  PROVE  Access'.kind \notin {"poll", "or"}
<1>1. call' \in 1 .. Len(Program)
  BY ProgramAssumption DEF CpuTypeOK, Returned
<1> QED BY <1>1, CallsInOrder DEF InOrder, Access

LEMMA AdvanceSteps ==
  ASSUME CpuTypeOK, CpuTypeOK', ~Returned, Advance
  PROVE  /\ \/ /\ ~Returned' /\ call' = call /\ step' = step + 1
               /\ step < Len(Accesses(Program[call]))
               /\ Access' = Accesses(Program[call])[step + 1]
            \/ /\ step' = 1 /\ call' = call + 1
               /\ step = Len(Accesses(Program[call]))
         /\ Returned' => step' = 1
<1> DEFINE s == Accesses(Program[call])
<1>1. step \in 1 .. Len(s) /\ Len(s) \in Nat /\ call \in 1 .. Len(Program)
      /\ Len(Program) \in Nat
  BY AccessOrder
<1>2. CASE step < Len(s)
  BY <1>1, <1>2 DEF Advance, Returned, Access
<1>3. CASE ~(step < Len(s))
  BY <1>1, <1>3 DEF Advance, Returned
<1> QED BY <1>2, <1>3

\* One edge keeps it, whatever the strobes clear.
LEMMA ProtocolSteps ==
  ASSUME CpuInv, CpuInv', Flags \in SUBSET FlagBit, ProtocolInv,
         NEW act \in BOOLEAN, NEW strobed, CpuClock(act), RegClock(bus, strobed)
  PROVE  ProtocolInv'
<1>0. CpuTypeOK /\ CpuTypeOK' /\ bus \in BusSet(FlagBit)
      /\ (bus.op # "none" => ~Returned)
  BY DEF CpuInv
<1>1. /\ bus.op # "write" => Flags' \subseteq Flags
      /\ bus.op = "write" => IF bus.reg = FLAGS THEN Flags' \subseteq bus.val
                                                ELSE Flags' \subseteq Flags
      /\ bus.op = "read" => readdata' = Flags
  <2>1. bus.op = "read" => bus.reg = FLAGS
    BY <1>0 DEF BusSet, NoAccess
  <2> QED BY <2>1 DEF RegClock, NextFlags
<1>2. CASE CpuWaits
  BY <1>1, <1>2
     DEF CpuWaits, cpu_vars, ProtocolInv, Polling, Returned, Access, Request
<1>3. CASE CpuIssues
  <2>1. /\ bus.op = "none" /\ ~Returned /\ ~Returned' /\ Access' = Access
        /\ flags' = flags /\ bus' = Request(Access) /\ Request(Access)' = Request(Access)
        /\ Access \in AccessSet(FlagBit)
    BY <1>0, <1>3, AccessOrder DEF CpuIssues, Returned, Access, Request
  <2>2. /\ bus'.op # "capture"
        /\ bus'.op = "read" => Access.kind \in {"read", "poll"}
    BY <2>1 DEF Request, BusRead, BusWrite, AccessSet
  <2> QED BY <1>1, <2>1, <2>2 DEF ProtocolInv, Polling
<1>4. CASE CpuWrote
  <2> DEFINE s == Accesses(Program[call])
  <2>1. /\ bus.op = "write" /\ ~Returned /\ bus' = NoAccess /\ Advance
        /\ flags' = flags /\ bus = Request(Access)
    BY <1>0, <1>4 DEF CpuWrote, ProtocolInv
  <2>2. /\ InOrder(s) /\ Access = s[step] /\ step \in 1 .. Len(s) /\ Len(s) \in Nat
        /\ Access \in AccessSet(FlagBit)
    BY <1>0, <2>1, AccessOrder
  <2>3. Access.kind \in {"write", "or"}
    BY <2>1, <2>2 DEF Request, BusRead, AccessSet
  <2>4. Flags = {}
    <3>1. \A b : Access = PollOf(b) => Access.kind = "poll"
      BY DEF PollOf
    <3> QED BY <2>3, <3>1 DEF ProtocolInv, Polling
  <2>5. /\ \/ /\ ~Returned' /\ call' = call /\ step' = step + 1 /\ step < Len(s)
              /\ Access' = s[step + 1]
           \/ step' = 1 /\ step = Len(s)
        /\ Returned' => step' = 1
    BY <1>0, <2>1, AdvanceSteps
  <2>6. ASSUME ~Returned' PROVE Access'.kind # "or"
    <3>1. step' = 1 => Access'.kind # "or"
      BY <1>0, <2>6, FirstAccess
    <3> QED BY <2>2, <2>3, <2>5, <3>1 DEF InOrder
  <2>7. ASSUME NEW b \in Flags' PROVE Polling(b)'
    <3>1. bus.reg = FLAGS /\ b \in bus.val
      BY <1>1, <2>1, <2>4, <2>7
    <3>2. CASE Access.kind = "or"
      <4>1. bus.val = {Access.bit}
        BY <2>1, <2>2, <3>2 DEF ProtocolInv, Request, BusWrite
      <4>2. step < Len(s) /\ s[step + 1] = PollOf(Access.bit)
        BY <2>2, <3>2 DEF InOrder
      <4> QED BY <2>5, <3>1, <4>1, <4>2 DEF Polling
    <3>3. CASE Access.kind = "write"
      <4>1. bus.val = Access.val /\ Access.reg = FLAGS
        BY <2>1, <3>1, <3>3 DEF Request, BusWrite
      <4>2. /\ step < Len(s) /\ s[step + 1] = PollOf("SendCommand")
            /\ Access.val = {"SendCommand"}
        BY <2>2, <3>3, <4>1 DEF InOrder
      <4> QED BY <2>5, <3>1, <4>1, <4>2 DEF Polling
    <3> QED BY <2>3, <3>2, <3>3
  <2> QED BY <2>1, <2>5, <2>6, <2>7 DEF ProtocolInv, NoAccess
<1>5. CASE CpuReads
  <2>1. /\ bus.op = "read" /\ bus'.op = "capture" /\ ~Returned /\ ~Returned'
        /\ Access' = Access /\ Access.kind \in {"read", "poll"}
        /\ Flags' \subseteq Flags /\ readdata' = Flags /\ flags' = flags
    <3>1. bus \in [op : {"read", "capture"}, reg : {FLAGS}]
      BY <1>0, <1>5 DEF CpuReads, BusSet, NoAccess
    <3> QED BY <1>0, <1>1, <1>5, <3>1 DEF CpuReads, ProtocolInv, Returned, Access
  <2>2. Access.kind = "read" => Flags = {}
    BY DEF ProtocolInv, Polling, PollOf
  <2> QED BY <2>1, <2>2 DEF ProtocolInv, Polling
<1>6. CASE CpuReadDone
  <2> DEFINE s == Accesses(Program[call])
  <2>1. /\ bus.op = "capture" /\ ~Returned /\ bus' = NoAccess /\ flags' = readdata
        /\ Flags' \subseteq Flags /\ Access.kind \in {"read", "poll"}
    BY <1>0, <1>1, <1>6 DEF CpuReadDone, ProtocolInv
  <2>2. CASE Access.kind = "poll" /\ Access.bit \in readdata
    <3>1. ~Returned' /\ Access' = Access /\ UNCHANGED <<call, step>>
      BY <1>6, <2>1, <2>2 DEF CpuReadDone, Returned, Access
    <3> QED BY <2>1, <2>2, <3>1 DEF ProtocolInv, Polling, NoAccess
  <2>3. CASE ~(Access.kind = "poll" /\ Access.bit \in readdata)
    <3>1. Advance
      BY <1>6, <2>3 DEF CpuReadDone
    <3>2. Flags = {}
      BY <2>1, <2>3 DEF ProtocolInv, Polling, PollOf
    <3>3. /\ InOrder(s) /\ Access = s[step] /\ step \in 1 .. Len(s) /\ Len(s) \in Nat
      BY <1>0, <2>1, AccessOrder
    <3>4. /\ \/ ~Returned' /\ step < Len(s) /\ Access' = s[step + 1]
             \/ step' = 1
          /\ Returned' => step' = 1
      BY <1>0, <2>1, <3>1, AdvanceSteps
    <3>5. ASSUME ~Returned', Access'.kind = "or" PROVE flags' = {}
      <4>1. step' # 1
        BY <1>0, <3>5, FirstAccess
      <4>2. step < Len(s) /\ Access' = s[step + 1]
        BY <1>0, <3>4, <3>5, <4>1
      <4>3. Access.kind = "read"
        BY <3>3, <3>5, <4>2 DEF InOrder
      <4> QED BY <2>1, <4>3 DEF ProtocolInv
    <3> QED BY <2>1, <3>2, <3>4, <3>5 DEF ProtocolInv, NoAccess
  <2> QED BY <2>2, <2>3
<1> QED BY <1>2, <1>3, <1>4, <1>5, <1>6 DEF CpuClock

\* What an edge does to a processor that polls, or is about to call again.
LEMMA PollSteps ==
  ASSUME CpuInv, CpuInv', ProtocolInv, NEW act \in BOOLEAN, NEW strobed,
         CpuClock(act), RegClock(bus, strobed), NEW b
  PROVE  /\ Polling(b) => bus.op # "write"
         /\ Polling(b) /\ (bus.op = "capture" => b \in readdata) => Polling(b)'
         /\ Polling(b) => Polling(b)' \/ (step' = 1 /\ bus'.op = "none")
         /\ bus'.op = "capture" => bus.op = "read" /\ readdata' = Flags
         /\ step = 1 /\ bus.op = "none" => step' = 1
         /\ step = 1 => step' = 1 \/ (step' = 2 /\ bus'.op = "none")
<1>0. CpuTypeOK /\ CpuTypeOK' /\ bus \in BusSet(FlagBit)
      /\ (bus.op # "none" => ~Returned)
  BY DEF CpuInv
<1>1. Polling(b) => bus.op # "write"
  <2> SUFFICES ASSUME Polling(b), bus.op = "write" PROVE FALSE
    OBVIOUS
  <2>1. bus = Request(PollOf(b))
    BY DEF Polling, ProtocolInv
  <2> QED BY <2>1 DEF Request, PollOf, BusRead
<1>2. CASE CpuWaits
  BY <1>1, <1>2 DEF CpuWaits, cpu_vars, Polling, Returned, Access
<1>3. CASE CpuIssues
  <2>1. /\ bus.op = "none" /\ ~Returned /\ ~Returned' /\ Access' = Access
        /\ step' = step /\ bus' = Request(Access) /\ Access \in AccessSet(FlagBit)
    BY <1>0, <1>3, AccessOrder DEF CpuIssues, Returned, Access
  <2>2. bus'.op # "capture"
    BY <2>1 DEF Request, BusRead, BusWrite, AccessSet
  <2> QED BY <1>1, <2>1, <2>2 DEF Polling
<1>4. CASE CpuWrote
  <2>1. bus.op = "write" /\ bus' = NoAccess /\ ~Returned /\ Advance
    BY <1>0, <1>4 DEF CpuWrote
  <2>2. step = 1 => step' \in {1, 2}
    BY <1>0, <2>1, AdvanceSteps
  <2> QED BY <1>1, <2>1, <2>2 DEF NoAccess
<1>5. CASE CpuReads
  <2>1. /\ bus.op = "read" /\ bus'.op = "capture" /\ step' = step
        /\ Returned' = Returned /\ Access' = Access /\ readdata' = Flags
    <3>1. bus \in [op : {"read", "capture"}, reg : {FLAGS}]
      BY <1>0, <1>5 DEF CpuReads, BusSet, NoAccess
    <3> QED BY <1>5, <3>1 DEF CpuReads, RegClock, Returned, Access
  <2> QED BY <1>1, <2>1 DEF Polling
<1>6. CASE CpuReadDone
  <2>1. bus.op = "capture" /\ bus' = NoAccess /\ ~Returned
    BY <1>0, <1>6 DEF CpuReadDone
  <2>2. CASE UNCHANGED <<call, step>>
    BY <1>1, <2>1, <2>2 DEF NoAccess, Polling, Returned, Access
  <2>3. CASE Advance /\ ~(Access.kind = "poll" /\ Access.bit \in readdata)
    <3>1. step = 1 => step' \in {1, 2}
      BY <1>0, <2>1, <2>3, AdvanceSteps
    <3>2. Polling(b) => b \notin readdata
      BY <2>3 DEF Polling, PollOf
    <3>3. Polling(b) => step' = 1
      <4> DEFINE s == Accesses(Program[call])
      <4>1. InOrder(s) /\ Access = s[step] /\ step \in 1 .. Len(s)
        BY <1>0, <2>1, AccessOrder
      <4>2. Polling(b) => step = Len(s)
        <5>1. Polling(b) => s[step].kind = "poll"
          BY <4>1 DEF Polling, PollOf
        <5> QED BY <4>1, <5>1 DEF InOrder
      <4>3. Len(s) \in Nat
        BY <1>0, <2>1, AccessOrder
      <4> QED BY <1>0, <2>1, <2>3, <4>2, <4>3, AdvanceSteps
    <3> QED BY <1>1, <2>1, <3>1, <3>2, <3>3 DEF NoAccess
  <2> QED BY <1>6, <2>2, <2>3 DEF CpuReadDone
<1> QED BY <1>2, <1>3, <1>4, <1>5, <1>6 DEF CpuClock

\* A flag that is up stays up until its strobe is low.
LEMMA FlagStays ==
  ASSUME CpuInv, CpuInv', ProtocolInv, NEW act \in BOOLEAN, NEW strobed,
         CpuClock(act), RegClock(bus, strobed), NEW b \in Flags, b \notin strobed
  PROVE  b \in Flags'
<1>1. bus.op # "write"
  BY PollSteps DEF ProtocolInv
<1> QED BY <1>1 DEF RegClock, NextFlags

-----------------------------------------------------------------------------
(* The strobes, and where the processor can be while they are low.         *)

\* The DMA controller works while the start flag is up, and its strobe is over
\* before the poll that sees the flag down.
EnableInv ==
  /\ dma_state # "Idle" => "LcdEnable" \in Flags
  /\ dma_state = "ResetFlag" <=> ~reset_flag_lcdenable /\ "LcdEnable" \in Flags
  /\ ~reset_flag_lcdenable
     => Polling("LcdEnable") /\ (bus.op = "capture" => "LcdEnable" \in readdata)

LEMMA EnableSteps ==
  ASSUME CpuInv, CpuInv', ProtocolInv, ProtocolInv', DmaTypeOK, EnableInv,
         NEW act \in BOOLEAN, CpuClock(act), RegClock(bus, Strobed),
         NEW adr, NEW len, NEW full, NEW wait, NEW valid,
         DmaClock("LcdEnable" \in Flags, adr, len, full, wait, valid)
  PROVE  EnableInv'
<1>0. reset_flag_lcdenable \in BOOLEAN /\ dma_state \in DMAState
  BY DEF DmaTypeOK
<1>1. ASSUME "LcdEnable" \in Flags, dma_state # "ResetFlag"
      PROVE  reset_flag_lcdenable /\ "LcdEnable" \in Flags'
  <2>1. reset_flag_lcdenable
    BY <1>0, <1>1 DEF EnableInv
  <2>2. "LcdEnable" \notin Strobed
    BY <2>1 DEF Strobed
  <2> QED BY <1>1, <2>1, <2>2, FlagStays
<1>2. "LcdEnable" \in Flags'
      => Polling("LcdEnable")' /\ (bus'.op = "capture" => "LcdEnable" \in readdata')
  BY DEF ProtocolInv
<1>3. CASE DmaIdle("LcdEnable" \in Flags, adr, len)
  BY <1>1, <1>3 DEF DmaIdle, EnableInv
<1>4. CASE dma_state \in {"WaitFifo", "Request", "WaitData"}
  <2>1. dma_state' \notin {"Idle", "ResetFlag"} /\ reset_flag_lcdenable' = reset_flag_lcdenable
    BY <1>4 DEF DmaClock, DmaIdle, DmaWaitFifo, DmaRequest, DmaWaitData,
                DmaCheckData, DmaResetFlag
  <2>2. reset_flag_lcdenable /\ "LcdEnable" \in Flags'
    BY <1>1, <1>4 DEF EnableInv
  <2> QED BY <2>1, <2>2 DEF EnableInv
<1>5. CASE DmaCheckData
  <2>1. reset_flag_lcdenable /\ "LcdEnable" \in Flags'
    BY <1>1, <1>5 DEF DmaCheckData, EnableInv
  <2> QED BY <1>2, <1>5, <2>1 DEF DmaCheckData, EnableInv
<1>6. CASE DmaResetFlag
  <2>1. /\ dma_state' = "Idle" /\ ~reset_flag_lcdenable' /\ "LcdEnable" \in Flags
        /\ Polling("LcdEnable") /\ (bus.op = "capture" => "LcdEnable" \in readdata)
        /\ ~reset_flag_lcdenable
    BY <1>6 DEF DmaResetFlag, EnableInv
  <2>2. Polling("LcdEnable")' /\ (bus'.op = "capture" => "LcdEnable" \in readdata')
    BY <2>1, PollSteps
  <2>3. "LcdEnable" \notin Flags'
    <3>1. "LcdEnable" \in Strobed
      BY <2>1 DEF Strobed
    <3> QED BY <3>1 DEF RegClock, NextFlags
  <2> QED BY <2>1, <2>2, <2>3 DEF EnableInv
<1> QED BY <1>3, <1>4, <1>5, <1>6 DEF DmaClock, DmaWaitFifo, DmaRequest, DmaWaitData

\* Until reset_lcd writes its flag, the controller has not moved.
ResetFlagInv == InReset /\ step <= 2 => reset_flag_reset /\ lcd_state = "Idle"

LEMMA InResetBefore ==
  ASSUME CpuInv, NEW act \in BOOLEAN, CpuClock(act), InReset'
  PROVE  /\ InReset
         /\ step' <= 2 => step <= 2 /\ (step = 2 => bus.op # "write")
<1>0. CpuTypeOK /\ call \in Nat /\ call >= 1 /\ call' = 1
  BY ProgramAssumption DEF CpuInv, CpuTypeOK, InReset
<1>1. /\ call' \in {call, call + 1}
      /\ call' = call => step' \in {step, step + 1}
      /\ call' = call /\ bus.op = "write" => step' = step + 1
  <2>1. Advance => \/ step' = step + 1 /\ call' = call
                   \/ step' = 1 /\ call' = call + 1
    BY DEF Advance
  <2>2. Advance \/ (bus.op # "write" /\ UNCHANGED <<call, step>>)
    BY DEF CpuClock, CpuWaits, CpuIssues, CpuWrote, CpuReads, CpuReadDone, cpu_vars
  <2>3. call + 1 # call
    BY <1>0
  <2> QED BY <2>1, <2>2, <2>3
<1>2. call' = call /\ InReset
  BY <1>0, <1>1 DEF InReset
<1>3. step \in Nat
  <2>1. ~Returned /\ Len(Accesses(Program[call])) = 3
    BY <1>2, ResetAccesses DEF InReset, Returned
  <2> QED BY <1>0, <2>1 DEF CpuTypeOK
<1> QED BY <1>1, <1>2, <1>3

LEMMA ResetFlagSteps ==
  ASSUME CpuInv, ResetInv, ResetWins, ResetFlagInv, NEW act \in BOOLEAN,
         CpuClock(act), RegClock(bus, Strobed), LcdClock
  PROVE  ResetFlagInv'
<1> SUFFICES ASSUME InReset', step' <= 2
             PROVE  reset_flag_reset' /\ lcd_state' = "Idle"
  BY DEF ResetFlagInv
<1>1. /\ InReset /\ step <= 2 /\ (step = 2 => bus.op # "write")
      /\ reset_flag_reset /\ lcd_state = "Idle"
  BY InResetBefore DEF ResetFlagInv
<1>2. Flags = {}
  BY <1>1 DEF ResetInv, ResetWins
<1>3. Flags' = {}
  BY <1>1, <1>2 DEF ResetInv, RegClock, NextFlags
<1>4. LcdIdle
  BY <1>1 DEF LcdClock, LcdReset, ReadCmd, Send, FetchParam, ResetRegs,
     IdleImageDisplay, PutWriteCmd, WritePixel, PutPixel
<1> QED BY <1>2, <1>3, <1>4 DEF LcdIdle, StrobesUp, Goto, Forced

\* The strobe of SendCommand is low for the five cycles of ResetRegs and one
\* of Idle; SinceSent is how many of them are past.
SinceSent == IF lcd_state = "ResetRegs" THEN cc4 ELSE 5

\* The flag is up while the controller sends, and falls one edge after the
\* strobe.  What the processor does meanwhile: it polls; it cannot have seen
\* the flag down before the third edge, nor begun its next call before the
\* fourth, nor be past the first access of that call before the strobe is up.
SendInv ==
  /\ Sending => "SendCommand" \in Flags /\ reset_flag_cmd
  /\ lcd_state = "ResetRegs" => ~reset_flag_cmd
  /\ ~reset_flag_cmd =>
       /\ lcd_state \in {"ResetRegs", "Idle"} /\ ~InReset
       /\ SinceSent = 0 <=> "SendCommand" \in Flags
       /\ \/ /\ Polling("SendCommand")
             /\ SinceSent = 1 /\ bus.op = "capture" => "SendCommand" \in readdata
          \/ SinceSent >= 3 /\ step = 1 /\ bus.op = "none"
          \/ SinceSent >= 4 /\ step = 1
          \/ SinceSent >= 5 /\ step = 2 /\ bus.op = "none"

LEMMA SendSteps ==
  ASSUME CpuInv, CpuInv', ProtocolInv, ProtocolInv', LcdTypeOK, ResetInv,
         ResetInv', PopInv, SendInv, NEW act \in BOOLEAN, CpuClock(act),
         RegClock(bus, Strobed), LcdClock
  PROVE  SendInv'
<1>0. cc4 \in 0 .. 4 /\ reset_flag_cmd \in BOOLEAN /\ (InReset' => InReset)
  BY InResetBefore DEF LcdTypeOK
<1>1. CASE InReset
  <2>1. Flags \in SUBSET {"Reset"} /\ lcd_state \in {"Idle", "Reset"} /\ reset_flag_cmd
    BY <1>1 DEF ResetInv, SendInv
  <2>2. lcd_state' \in {"Idle", "Reset"}
    BY <2>1, ResettingSteps
  <2>3. reset_flag_cmd'
    BY <2>1 DEF LcdClock, LcdIdle, StrobesUp, LcdReset, ReadCmd, Send, FetchParam,
       ResetRegs, IdleImageDisplay, PutWriteCmd, WritePixel, PutPixel
  <2> QED BY <2>2, <2>3 DEF SendInv, Sending
<1>2. CASE ~InReset
  <2>0. /\ ~InReset' /\ "Reset" \notin Flags /\ "Reset" \notin Flags'
        /\ \A s : Goto(s) => lcd_state' = s
    BY <1>0, <1>2 DEF ResetInv, LaterFlag, Goto, Forced
  <2>1. ASSUME "SendCommand" \in Flags, reset_flag_cmd PROVE "SendCommand" \in Flags'
    <3>1. "SendCommand" \notin Strobed
      BY <2>1 DEF Strobed
    <3> QED BY <2>1, <3>1, FlagStays
  <2>2. CASE LcdIdle
    <3>1. /\ reset_flag_cmd'
          /\ "SendCommand" \notin Flags
             => lcd_state' \in {"IdleImageDisplay", "Idle"}
          /\ "SendCommand" \in Flags => lcd_state' = "ReadCmd"
      BY <2>0, <2>2 DEF LcdIdle, StrobesUp
    <3>2. "SendCommand" \in Flags => reset_flag_cmd
      BY <2>2 DEF LcdIdle, SendInv, SinceSent
    <3> QED BY <2>1, <3>1, <3>2 DEF SendInv, Sending
  <2>3. CASE LcdReset \/ IdleImageDisplay \/ PutWriteCmd \/ WritePixel \/ PutPixel
    <3>1. reset_flag_cmd
      BY <2>3 DEF SendInv, LcdReset, IdleImageDisplay, PutWriteCmd, WritePixel,
                  PutPixel
    <3>2. reset_flag_cmd' = reset_flag_cmd
      BY <2>3 DEF LcdReset, IdleImageDisplay, PutWriteCmd, WritePixel, PutPixel
    <3>3. lcd_state' \in {"Idle", "Reset", "IdleImageDisplay", "PutWriteCmd",
                         "WritePixel", "PutPixel"}
      BY <2>0, <2>3 DEF LcdReset, IdleImageDisplay, PutWriteCmd, WritePixel,
                        PutPixel, Delay
    <3> QED BY <3>1, <3>2, <3>3 DEF SendInv, Sending
  <2>4. CASE ReadCmd \/ FetchParam \/ (Send /\ ~AllSent)
    <3>1. reset_flag_cmd /\ "SendCommand" \in Flags
      BY <2>4 DEF SendInv, Sending, ReadCmd, Send, FetchParam
    <3>2. reset_flag_cmd' = reset_flag_cmd
      BY <2>4 DEF ReadCmd, Send, FetchParam
    <3>3. lcd_state' \in {"ReadCmd", "Send", "FetchParam"}
      BY <2>0, <2>4 DEF ReadCmd, Send, FetchParam, Delay
    <3> QED BY <2>1, <3>1, <3>2, <3>3 DEF SendInv, Sending
  <2>5. CASE Send /\ AllSent
    <3>1. reset_flag_cmd /\ "SendCommand" \in Flags
      BY <2>5 DEF SendInv, Sending, Send
    <3>2. lcd_state' = "ResetRegs" /\ ~reset_flag_cmd' /\ cc4' = 0
      BY <2>0, <2>5 DEF Send
    <3>3. Polling("SendCommand")' /\ "SendCommand" \in Flags'
      BY <2>1, <3>1 DEF ProtocolInv
    <3> QED BY <2>0, <3>2, <3>3 DEF SendInv, Sending, SinceSent
  <2>6. CASE ResetRegs
    <3>1. /\ ~reset_flag_cmd' /\ ~reset_flag_cmd /\ lcd_state = "ResetRegs"
          /\ SinceSent = cc4
      BY <2>6 DEF ResetRegs, SendInv, SinceSent
    <3>2. /\ lcd_state' \in {"ResetRegs", "Idle"} /\ SinceSent' = cc4 + 1
      BY <1>0, <2>0, <2>6 DEF ResetRegs, Delay, SinceSent
    <3>3. "SendCommand" \notin Flags'
      <4>1. "SendCommand" \in Strobed
        BY <3>1 DEF Strobed
      <4> QED BY <4>1 DEF RegClock, NextFlags
    <3>4. /\ cc4 = 0 <=> "SendCommand" \in Flags
          /\ \/ /\ Polling("SendCommand")
                /\ cc4 = 1 /\ bus.op = "capture" => "SendCommand" \in readdata
             \/ cc4 >= 3 /\ step = 1 /\ bus.op = "none"
             \/ cc4 >= 4 /\ step = 1
             \/ cc4 >= 5 /\ step = 2 /\ bus.op = "none"
      BY <3>1 DEF SendInv
    <3> DEFINE P == Polling("SendCommand")
    <3>5. /\ P /\ (bus.op = "capture" => "SendCommand" \in readdata) => P'
          /\ P => P' \/ (step' = 1 /\ bus'.op = "none")
          /\ bus'.op = "capture" => readdata' = Flags
          /\ step = 1 /\ bus.op = "none" => step' = 1
          /\ step = 1 => step' = 1 \/ (step' = 2 /\ bus'.op = "none")
      BY PollSteps
    <3>6. "SendCommand" \in Flags /\ bus.op = "capture" => "SendCommand" \in readdata
      BY DEF ProtocolInv
    <3> HIDE DEF P
    <3>7. \/ /\ P'
             /\ cc4 + 1 = 1 /\ bus'.op = "capture" => "SendCommand" \in readdata'
          \/ cc4 + 1 >= 3 /\ step' = 1 /\ bus'.op = "none"
          \/ cc4 + 1 >= 4 /\ step' = 1
          \/ cc4 + 1 >= 5 /\ step' = 2 /\ bus'.op = "none"
      <4>0. /\ \/ P /\ (cc4 = 1 /\ bus.op = "capture" => "SendCommand" \in readdata)
               \/ cc4 >= 3 /\ step = 1 /\ bus.op = "none"
               \/ cc4 >= 4 /\ step = 1
        BY <1>0, <3>4 DEF P
      <4>1. CASE P /\ cc4 = 0
        BY <3>4, <3>5, <3>6, <4>1
      <4>2. CASE P /\ cc4 = 1
        BY <3>5, <4>0, <4>2
      <4>3. CASE P /\ cc4 >= 2
        BY <1>0, <3>5, <4>3
      <4>4. CASE cc4 >= 3 /\ step = 1 /\ bus.op = "none"
        BY <1>0, <3>5, <4>4
      <4>5. CASE cc4 >= 4 /\ step = 1
        BY <1>0, <3>5, <4>5
      <4> QED BY <1>0, <4>0, <4>1, <4>2, <4>3, <4>4, <4>5
    <3>8. /\ SinceSent' # 0
          /\ \/ /\ P'
                /\ SinceSent' = 1 /\ bus'.op = "capture" => "SendCommand" \in readdata'
             \/ SinceSent' >= 3 /\ step' = 1 /\ bus'.op = "none"
             \/ SinceSent' >= 4 /\ step' = 1
             \/ SinceSent' >= 5 /\ step' = 2 /\ bus'.op = "none"
      BY <1>0, <3>2, <3>7
    <3> QED BY <2>0, <3>1, <3>2, <3>3, <3>8 DEF SendInv, Sending, P
  <2> QED BY <2>2, <2>3, <2>4, <2>5, <2>6 DEF LcdClock
<1> QED BY <1>1, <1>2

-----------------------------------------------------------------------------
(* The calls until a restart or KEY0.                                      *)

CallsInv ==
  Undisturbed => ProtocolInv /\ EnableInv /\ ResetFlagInv /\ SendInv

LEMMA CallsInit == Init => CallsInv
BY DEF Init, CpuInit, RegInit, DmaInit, LcdInit, CallsInv, ProtocolInv, EnableInv,
       ResetFlagInv, SendInv, Sending, NoAccess, Returned

LEMMA CallsNext ==
  ASSUME ResetsFirst, TopInv, TopInv', UnderflowInv, UnderflowInv', CallsInv,
         [Next]_vars
  PROVE  CallsInv'
<1>1. ASSUME NEW act \in BOOLEAN, NEW accept \in BOOLEAN,
             NEW deliver \in BOOLEAN, Tick(act, accept, deliver)
      PROVE  CallsInv'
  <2> SUFFICES ASSUME Undisturbed'
               PROVE  ProtocolInv' /\ EnableInv' /\ ResetFlagInv' /\ SendInv'
    BY DEF CallsInv
  <2>1. Undisturbed
    BY <1>1 DEF Tick, Undisturbed
  <2>2. /\ CpuInv /\ CpuInv' /\ LcdTypeOK /\ DmaTypeOK /\ ResetWins
        /\ Flags \in SUBSET FlagBit /\ CpuClock(act) /\ RegClock(bus, Strobed)
        /\ LcdClock
        /\ DmaClock("LcdEnable" \in Flags, ImageAddress, ImageLength, AlmostFull,
                    ~accept, deliver)
    BY <1>1 DEF Tick, TopInv, TopTypeOK, RegTypeOK
  <2>3. /\ ResetInv /\ PopInv /\ ResetInv'
        /\ ProtocolInv /\ EnableInv /\ ResetFlagInv /\ SendInv
    BY <2>1 DEF UnderflowInv, CallsInv
  <2>4. ProtocolInv'
    BY <2>2, <2>3, ProtocolSteps
  <2>5. EnableInv'
    BY <2>2, <2>3, <2>4, EnableSteps
  <2>6. ResetFlagInv'
    BY <2>2, <2>3, ResetFlagSteps
  <2>7. SendInv'
    BY <2>2, <2>3, <2>4, SendSteps
  <2> QED BY <2>4, <2>5, <2>6, <2>7
<1>2. CASE CpuRestart \/ Key0
  <2>1. restarts \in Nat /\ keys \in Nat
    BY BoundsAssumption DEF TopInv, TopTypeOK
  <2>2. restarts' = restarts + 1 \/ keys' = keys + 1
    BY <1>2 DEF CpuRestart, Key0
  <2> QED BY <2>1, <2>2 DEF CallsInv, Undisturbed
<1>3. CASE UNCHANGED vars
  BY <1>3 DEF vars, cpu_vars, reg_vars, dma_vars, lcd_vars, CallsInv, Undisturbed,
     ProtocolInv, EnableInv, ResetFlagInv, SendInv, Polling, Sending, SinceSent,
     InReset, Returned, Access, Request
<1> QED BY <1>1, <1>2, <1>3 DEF Next

\* A write of the flags raises none whose strobe is low.
LEMMA NoLostWrite ==
  ASSUME ResetsFirst, Undisturbed, TopInv, UnderflowInv, CallsInv,
         bus.op = "write", bus.reg = FLAGS
  PROVE  bus.val \cap Strobed = {}
<1>0. /\ CpuTypeOK /\ ~Returned /\ bus = Request(Access) /\ ResetInv
      /\ ProtocolInv /\ EnableInv /\ ResetFlagInv /\ SendInv
  BY DEF TopInv, CpuInv, CallsInv, ProtocolInv, UnderflowInv
<1> DEFINE s == Accesses(Program[call])
<1>1. /\ Access = s[step] /\ InOrder(s) /\ step \in 1 .. Len(s) /\ Len(s) \in Nat
      /\ Access \in AccessSet(FlagBit)
  BY <1>0, AccessOrder
<1>2. \/ Access.kind = "or" /\ bus.val = {Access.bit}
      \/ Access.kind = "write" /\ Access.reg = FLAGS /\ bus.val = Access.val
  BY <1>0, <1>1 DEF ProtocolInv, Request, BusRead, BusWrite, AccessSet
<1>3. ASSUME NEW b PROVE ~Polling(b)
  <2>1. Access.kind # "poll"
    BY <1>2
  <2> QED BY <2>1 DEF Polling, PollOf
<1>4. reset_flag_lcdenable
  BY <1>0, <1>3 DEF EnableInv
<1>5. ASSUME "Reset" \in bus.val PROVE reset_flag_reset
  <2>1. InReset
    BY <1>0, <1>5 DEF ResetInv, BusSet, NoAccess, LaterFlag
  <2>2. step = 2
    BY <1>0, <2>1 DEF ResetInv
  <2> QED BY <1>0, <2>1, <2>2 DEF ResetFlagInv
<1>6. ASSUME "SendCommand" \in bus.val PROVE reset_flag_cmd
  <2>1. Access.kind = "write" /\ Access.reg = FLAGS
    BY <1>1, <1>2, <1>6 DEF InOrder
  <2>2. step >= 3
    BY <1>1, <2>1 DEF InOrder
  <2> QED BY <1>0, <1>3, <2>2 DEF SendInv
<1> QED BY <1>4, <1>5, <1>6 DEF Strobed

NoFaults == MaxRestarts = 0 /\ MaxKeys = 0

LEMMA NeverDisturbed == ASSUME NoFaults, TopInv PROVE Undisturbed
BY BoundsAssumption DEF NoFaults, TopInv, TopTypeOK, Undisturbed

\* One step of Top, when nothing disturbs it.
LEMMA UndisturbedNext ==
  ASSUME NoFaults, ResetsFirst, TopInv, TopInv', UnderflowInv, CallsInv,
         [Next]_vars
  PROVE  /\ [bus.op = "write" /\ bus.reg = FLAGS /\ UNCHANGED <<restarts, keys>>
               => bus.val \subseteq Flags']_vars
         /\ [Sending => UNCHANGED CommandRegisters]_vars
<1>0. Undisturbed /\ Undisturbed' /\ restarts \in Nat /\ keys \in Nat
  <2>1. Undisturbed
    BY NeverDisturbed
  <2>2. Undisturbed'
    BY BoundsAssumption DEF NoFaults, TopInv, TopTypeOK, Undisturbed
  <2> QED BY <2>1, <2>2 DEF Undisturbed
<1>1. ASSUME NEW act \in BOOLEAN, NEW accept \in BOOLEAN,
             NEW deliver \in BOOLEAN, Tick(act, accept, deliver)
      PROVE  /\ bus.op = "write" /\ bus.reg = FLAGS => bus.val \subseteq Flags'
             /\ Sending => UNCHANGED registers
  <2>1. RegClock(bus, Strobed) /\ CpuClock(act) /\ CpuInv /\ CpuInv' /\ ProtocolInv
    BY <1>0, <1>1 DEF Tick, TopInv, CallsInv
  <2>2. bus.op = "write" /\ bus.reg = FLAGS => bus.val \subseteq Flags'
    BY <1>0, <2>1, NoLostWrite DEF RegClock, NextFlags
  <2>3. Sending => bus.op # "write"
    <3>1. Sending => Polling("SendCommand")
      BY <1>0 DEF CallsInv, SendInv, ProtocolInv
    <3> QED BY <2>1, <3>1, PollSteps
  <2> QED BY <2>1, <2>2, <2>3 DEF RegClock
<1>2. ~CpuRestart /\ ~Key0
  BY <1>0 DEF CpuRestart, Key0, Undisturbed
<1> QED BY <1>1, <1>2 DEF Next, CommandRegisters

\* RegisterFile.vhd:53-65, "strobes win": without restarts and KEY0, for every
\* program that resets the display only first, a flag that the program raises
\* is up after the edge; no strobe of the request before is low any more,
\* however soon the program writes and however late the components answer.
THEOREM RequestsAreSeen == ResetsFirst /\ NoFaults => (Spec => NoLostRequest)
<1> SUFFICES ASSUME ResetsFirst, NoFaults PROVE Spec => NoLostRequest
  OBVIOUS
<1>1. TopInv /\ TopInv' /\ UnderflowInv /\ UnderflowInv' /\ CallsInv /\ [Next]_vars
      => CallsInv'
  BY CallsNext
<1>2. TopInv /\ UnderflowInv /\ [Next]_vars => UnderflowInv'
  BY UnderflowNext
<1>3. TopInv /\ TopInv' /\ UnderflowInv /\ CallsInv /\ [Next]_vars
      => [bus.op = "write" /\ bus.reg = FLAGS /\ UNCHANGED <<restarts, keys>>
            => bus.val \subseteq Flags']_vars
  BY UndisturbedNext
<1> QED BY <1>1, <1>2, <1>3, CallsInit, UnderflowInit, TopInit, TopNext, PTL
        DEF Spec, NoLostRequest

\* LCDController.vhd:119-156 reads the command, the parameter count and the
\* parameters while it sends them: without restarts and KEY0, for every program
\* that resets the display only first, none of them changes meanwhile.
THEOREM CommandIsStable == ResetsFirst /\ NoFaults => (Spec => StableWhileSending)
<1> SUFFICES ASSUME ResetsFirst, NoFaults PROVE Spec => StableWhileSending
  OBVIOUS
<1>1. TopInv /\ TopInv' /\ UnderflowInv /\ UnderflowInv' /\ CallsInv /\ [Next]_vars
      => CallsInv'
  BY CallsNext
<1>2. TopInv /\ UnderflowInv /\ [Next]_vars => UnderflowInv'
  BY UnderflowNext
<1>3. TopInv /\ TopInv' /\ UnderflowInv /\ CallsInv /\ [Next]_vars
      => [Sending => UNCHANGED CommandRegisters]_vars
  BY UndisturbedNext
<1> QED BY <1>1, <1>2, <1>3, CallsInit, UnderflowInit, TopInit, TopNext, PTL
        DEF Spec, StableWhileSending
=============================================================================
