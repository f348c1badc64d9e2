------------------------- MODULE CmosFrames_proofs -------------------------
(***************************************************************************)
(* For every register width, pixel depth and configuration that respects   *)
(* the minima: no counter passes its configuration, and what the generator *)
(* shows is the schedule of FrameService; its status tells the command     *)
(* that was given last.                                                    *)
(***************************************************************************)
EXTENDS CmosFrames, TLAPS

\* A command pulse comes in the cycle that the host leaves free, so the
\* configuration cannot move under a generator that starts.
HostInv ==
  /\ reg_start \/ reg_stop => ~write
  /\ reg_start => reg_state = "IDLE"
  /\ write /\ addr \in Registers => wrdata \in Minimum(addr) .. MaxConfig
  /\ \A r \in Registers : config[r] \in Minimum(r) .. MaxConfig

CmosInv == CmosTypeOK /\ CountersInRange /\ HostInv

-----------------------------------------------------------------------------
\* Truncation to the register's width keeps what fits in it.
LEMMA Truncated ==
  ASSUME NEW m \in Nat \ {0}, NEW n \in 0 .. m - 1
  PROVE  n % m = n
BY SMT

LEMMA RemainderRange ==
  ASSUME NEW m \in Nat \ {0}, NEW n \in Int
  PROVE  n % m \in 0 .. m - 1
BY SMT

LEMMA Plus1Step ==
  ASSUME NEW n \in 0 .. CounterMod - 1
  PROVE  /\ Plus1(n) \in 0 .. CounterMod - 1
         /\ n < CounterMod - 1 => Plus1(n) = n + 1
BY WidthAssumption DEF Plus1

\* Which counter belongs to which state.
LEMMA Counters ==
  /\ Counter("FRAME_FRAME_BLANK") = "frame_frame_blank"
  /\ Counter("FRAME_LINE_BLANK") = "frame_line_blank"
  /\ Counter("VALID") = "frame_width"
  /\ Counter("LINE_LINE_BLANK") = "line_line_blank"
  /\ Counter("LINE_FRAME_BLANK") = "line_frame_blank"
  /\ \A s \in Busy : Counter(s) \in Registers
BY DEF Counter, Busy, Registers

-----------------------------------------------------------------------------
LEMMA InitInv == Init => CmosInv
<1> SUFFICES ASSUME Init PROVE CmosInv
  OBVIOUS
<1>1. \A r \in Registers : Minimum(r) \in 0 .. 1 /\ Minimum(r) <= MaxConfig
  BY MaxConfigAssumption, WidthAssumption DEF Minimum
<1>2. CmosTypeOK
  <2>1. /\ config \in [Registers -> 0 .. CounterMod - 1]
        /\ counter \in [Registers -> 0 .. CounterMod - 1]
        /\ wrdata \in 0 .. MaxConfig /\ rddata \in Nat
    BY <1>1, WidthAssumption, MaxConfigAssumption
    DEF Init, GeneratorInit, ResetConfig, ResetCounter
  <2>2. /\ reg_start \in BOOLEAN /\ reg_stop \in BOOLEAN
        /\ reg_state \in Busy \cup {"IDLE"}
        /\ read \in BOOLEAN /\ write \in BOOLEAN /\ ~(read /\ write)
        /\ addr \in Registers \cup {"COMMAND", "STATUS"}
        /\ last \in {START, STOP}
    BY Zenon DEF Init, GeneratorInit, Registers
  <2> QED BY <2>1, <2>2, Zenon DEF CmosTypeOK, GeneratorTypeOK, HostTypeOK
<1>3. CountersInRange
  BY DEF Init, GeneratorInit, CountersInRange
<1>4. HostInv
  BY <1>1, MaxConfigAssumption DEF Init, GeneratorInit, ResetConfig, HostInv
<1> QED BY <1>2, <1>3, <1>4 DEF CmosInv

LEMMA ResetInv == Reset => CmosInv'
<1> SUFFICES ASSUME Reset PROVE CmosInv'
  OBVIOUS
<1>1. \A r \in Registers : Minimum(r) \in 0 .. 1 /\ Minimum(r) <= MaxConfig
  BY MaxConfigAssumption, WidthAssumption DEF Minimum
<1>2. CmosTypeOK'
  <2>1. /\ config' \in [Registers -> 0 .. CounterMod - 1]
        /\ counter' \in [Registers -> 0 .. CounterMod - 1]
        /\ wrdata' \in 0 .. MaxConfig /\ rddata' \in Nat
    BY <1>1, WidthAssumption, MaxConfigAssumption
    DEF Reset, GeneratorReset, ResetConfig, ResetCounter, NoAccess, Access
  <2>2. /\ reg_start' \in BOOLEAN /\ reg_stop' \in BOOLEAN
        /\ reg_state' \in Busy \cup {"IDLE"}
        /\ read' \in BOOLEAN /\ write' \in BOOLEAN /\ ~(read' /\ write')
        /\ addr' \in Registers \cup {"COMMAND", "STATUS"}
        /\ last' \in {START, STOP}
    BY Zenon DEF Reset, GeneratorReset, NoAccess, Access, Registers
  <2> QED BY <2>1, <2>2, Zenon DEF CmosTypeOK, GeneratorTypeOK, HostTypeOK
<1>3. CountersInRange'
  BY DEF Reset, GeneratorReset, CountersInRange
<1>4. HostInv'
  BY <1>1, MaxConfigAssumption
  DEF Reset, GeneratorReset, ResetConfig, NoAccess, Access, HostInv
<1> QED BY <1>2, <1>3, <1>4 DEF CmosInv

\* The host's side of a clock edge.
LEMMA HostSteps ==
  ASSUME CmosInv, Clock
  PROVE  /\ HostTypeOK'
         /\ Commanding => ~read' /\ ~write'
         /\ write' /\ addr' \in Registers => wrdata' \in Minimum(addr') .. MaxConfig
<1>1. /\ MaxConfig \in Nat /\ MaxConfig > 0 /\ last \in {START, STOP}
      /\ \A r \in Registers : Minimum(r) \in 0 .. 1
  BY MaxConfigAssumption, WidthAssumption
  DEF CmosInv, CmosTypeOK, HostTypeOK, Minimum
<1>2. "COMMAND" \notin Registers /\ "STATUS" \notin Registers
      /\ "frame_width" \in Registers
  BY DEF Registers
<1>a. 0 \in 0 .. MaxConfig /\ START \in 0 .. MaxConfig /\ STOP \in 0 .. MaxConfig
  BY <1>1 DEF START, STOP
<1>b. \A r \in Registers : \A v \in Minimum(r) .. MaxConfig : v \in 0 .. MaxConfig
  BY <1>1
<1>3. CASE Rests
  BY <1>1, <1>2, <1>3, <1>a, Zenon DEF Rests, NoAccess, Access, HostTypeOK
<1>4. CASE Configures
  BY <1>1, <1>2, <1>4, <1>b, Zenon DEF Configures, Commanding, Access, HostTypeOK
<1>5. CASE Commands
  BY <1>1, <1>2, <1>5, <1>a, Zenon DEF Commands, Commanding, Access, HostTypeOK
<1>6. CASE Reads
  BY <1>1, <1>2, <1>6, <1>a, Zenon DEF Reads, Commanding, Access, HostTypeOK
<1> QED BY <1>3, <1>4, <1>5, <1>6 DEF Clock

\* The register side: configurations stay legal, and still while busy.
LEMMA RegisterSteps ==
  ASSUME CmosInv, Clock
  PROVE  /\ config' \in [Registers -> 0 .. CounterMod - 1]
         /\ \A r \in Registers : config'[r] \in Minimum(r) .. MaxConfig
         /\ reg_state # "IDLE" \/ reg_start => config' = config
         /\ reg_start' \in BOOLEAN /\ reg_stop' \in BOOLEAN /\ rddata' \in Nat
         /\ reg_start' \/ reg_stop' => Commanding
         /\ reg_start' => reg_state = "IDLE"
<1>1. /\ MM_WRITE /\ MM_READ
      /\ config \in [Registers -> 0 .. CounterMod - 1]
      /\ \A r \in Registers : config[r] \in Minimum(r) .. MaxConfig
      /\ reg_start \/ reg_stop => ~write
      /\ write /\ addr \in Registers => wrdata \in Minimum(addr) .. MaxConfig
  BY DEF Clock, GeneratorClock, CmosInv, CmosTypeOK, GeneratorTypeOK, HostInv
<1>2. /\ CounterMod \in Nat \ {0} /\ MaxConfig \in Int /\ MaxConfig < CounterMod
      /\ \A r \in Registers : Minimum(r) \in 0 .. 1
  BY WidthAssumption, MaxConfigAssumption DEF Minimum
<1>3. ASSUME write, addr \in Registers
      PROVE  wrdata % CounterMod = wrdata /\ wrdata \in 0 .. CounterMod - 1
  <2>1. wrdata \in 0 .. CounterMod - 1
    BY <1>1, <1>2, <1>3
  <2> QED BY <2>1, <1>2, Truncated
<1>4. config' = IF write /\ addr \in Registers /\ reg_state = "IDLE"
                THEN [config EXCEPT ![addr] = wrdata] ELSE config
  BY <1>1, <1>3 DEF MM_WRITE
<1>5. rddata' \in Nat
  BY <1>1, <1>2 DEF MM_READ, STATUS_IDLE, STATUS_BUSY
<1>6. /\ reg_start' \in BOOLEAN /\ reg_stop' \in BOOLEAN
      /\ reg_start' \/ reg_stop' => Commanding
      /\ reg_start' => reg_state = "IDLE"
  BY <1>1 DEF MM_WRITE, Commanding
<1>7. reg_state # "IDLE" \/ reg_start => config' = config
  BY <1>1, <1>4
<1>8. config' \in [Registers -> 0 .. CounterMod - 1]
  BY <1>1, <1>3, <1>4
<1>9. \A r \in Registers : config'[r] \in Minimum(r) .. MaxConfig
  BY <1>1, <1>4
<1> QED BY <1>5, <1>6, <1>7, <1>8, <1>9

-----------------------------------------------------------------------------
\* The six ways a clock edge moves the state machine.
Begins ==
  \/ /\ config["frame_line_blank"] > 0
     /\ reg_state' = "FRAME_LINE_BLANK" /\ counter'["frame_line_blank"] = 1
  \/ /\ config["frame_line_blank"] = 0 /\ reg_state' = "VALID"
     /\ counter'["frame_width"] = 1 /\ counter'["frame_height"] = 1
Continues ==
  /\ reg_state' = reg_state
  /\ counter[Counter(reg_state)] < config[Counter(reg_state)]
  /\ counter' = [counter EXCEPT ![Counter(reg_state)] = @ + 1]
NextLine ==
  /\ reg_state = "LINE_LINE_BLANK" /\ reg_state' = "VALID"
  /\ counter'["frame_width"] = 1
  /\ counter'["frame_height"] = counter["frame_height"] + 1
EndsLine ==
  /\ reg_state = "VALID" /\ counter["frame_height"] < config["frame_height"]
  /\ reg_state' = "LINE_LINE_BLANK" /\ counter'["line_line_blank"] = 1
  /\ counter'["frame_height"] = counter["frame_height"]
EndsLines ==
  /\ reg_state = "VALID" /\ counter["frame_height"] = config["frame_height"]
  /\ \/ /\ config["line_frame_blank"] > 0
        /\ reg_state' = "LINE_FRAME_BLANK" /\ counter'["line_frame_blank"] = 1
     \/ /\ config["line_frame_blank"] = 0
        /\ reg_state' = "FRAME_FRAME_BLANK" /\ counter'["frame_frame_blank"] = 1
EndsFrame ==
  /\ reg_state = "LINE_FRAME_BLANK"
  /\ reg_state' = "FRAME_FRAME_BLANK" /\ counter'["frame_frame_blank"] = 1
FirstLine ==
  /\ reg_state = "FRAME_LINE_BLANK" /\ reg_state' = "VALID"
  /\ counter'["frame_width"] = 1 /\ counter'["frame_height"] = 1

Full == counter[Counter(reg_state)] = config[Counter(reg_state)]
Moves ==
  \/ reg_state' = "IDLE" /\ (reg_state = "IDLE" => ~reg_start)
  \/ reg_state = "IDLE" /\ reg_start /\ Begins
  \/ reg_state \in Busy /\ Continues
  \/ /\ reg_state \in Busy /\ Full
     /\ \/ reg_state = "FRAME_FRAME_BLANK" /\ Begins
        \/ NextLine \/ EndsLine \/ EndsLines \/ EndsFrame \/ FirstLine

LEMMA GeneratorMoves ==
  ASSUME CmosInv, Clock
  PROVE  Moves /\ counter' \in [Registers -> 0 .. CounterMod - 1]
<1>1. /\ config \in [Registers -> 0 .. CounterMod - 1]
      /\ counter \in [Registers -> 0 .. CounterMod - 1]
      /\ reg_state \in Busy \cup {"IDLE"}
      /\ CountersInRange
      /\ reg_state' = next_reg_state /\ counter' = next_counter
      /\ CounterMod \in Nat /\ CounterMod > 2
  BY WidthAssumption
  DEF CmosInv, CmosTypeOK, GeneratorTypeOK, Clock, GeneratorClock, STATE_LOGIC
<1>2. \A r \in Registers : config[r] \in 0 .. CounterMod - 1
                           /\ counter[r] \in 0 .. CounterMod - 1
  BY <1>1
<1>3. /\ Counts \in [Registers -> 0 .. CounterMod - 1]
      /\ reg_state \in Busy =>
           /\ Counts["frame_height"] = counter["frame_height"]
           /\ ~Counted => Counts = [counter EXCEPT ![Counter(reg_state)] = @ + 1]
  <2>1. CASE reg_state = "IDLE"
    BY <2>1, <1>1 DEF Counts, Busy
  <2>2. CASE reg_state \in Busy
    <3>1. Counter(reg_state) \in Registers /\ Counter(reg_state) # "frame_height"
          /\ reg_state # "IDLE"
      BY <2>2, Counters DEF Busy
    <3>2. Counts = [counter EXCEPT ![Counter(reg_state)] =
                      Plus1(counter[Counter(reg_state)])]
      BY <1>1, <3>1 DEF Counts
    <3>3. Plus1(counter[Counter(reg_state)]) \in 0 .. CounterMod - 1
      BY <1>2, <3>1, Plus1Step
    <3>4. ASSUME ~Counted
          PROVE  Plus1(counter[Counter(reg_state)]) = counter[Counter(reg_state)] + 1
      <4>1. counter[Counter(reg_state)] < config[Counter(reg_state)]
        BY <1>1, <1>2, <3>1, <3>4 DEF CountersInRange, Counted
      <4> QED BY <4>1, <1>1, <1>2, <3>1, Plus1Step
    <3>5. "frame_height" \in Registers
      BY DEF Registers
    <3> QED BY <1>1, <3>1, <3>2, <3>3, <3>4, <3>5
  <2> QED BY <1>1, <2>1, <2>2
<1>4. Line \in 0 .. CounterMod - 1
  <2>1. "frame_height" \in Registers
    BY DEF Registers
  <2> QED BY <2>1, <1>1, <1>2, Plus1Step DEF Line
<1>5. next_counter \in [Registers -> 0 .. CounterMod - 1]
  <2>1. 1 \in 0 .. CounterMod - 1
    BY <1>1
  <2> QED BY <2>1, <1>3, <1>4, Zenon DEF next_counter
<1> SUFFICES Moves
  BY <1>1, <1>5
<1>a. ASSUME next_reg_state \in Busy \ {"VALID"}, next_reg_state # reg_state
      PROVE  /\ Counter(next_reg_state) \in Registers
             /\ counter' = [Counts EXCEPT ![Counter(next_reg_state)] = 1]
  BY <1>a, <1>1, Counters, Zenon DEF next_counter, Busy
<1>b. ASSUME next_reg_state = "VALID", reg_state # "VALID"
      PROVE  counter'["frame_width"] = 1 /\ counter'["frame_height"] = Line
  BY <1>b, <1>1, <1>3 DEF next_counter, Registers
<1>c. ASSUME next_reg_state = FrameStart, Line = 1,
             reg_state \in {"IDLE", "FRAME_FRAME_BLANK"}
      PROVE  Begins
  <2>1. config["frame_line_blank"] \in Nat /\ "frame_line_blank" \in Registers
    BY <1>2 DEF Registers
  <2>2. CASE config["frame_line_blank"] > 0
    <3>1. next_reg_state = "FRAME_LINE_BLANK"
      BY <2>2, <1>c DEF FrameStart
    <3>2. counter' = [Counts EXCEPT !["frame_line_blank"] = 1]
      BY <3>1, <1>a, <1>c, Counters DEF Busy
    <3> QED BY <3>1, <3>2, <2>1, <2>2, <1>1, <1>3 DEF Begins
  <2>3. CASE config["frame_line_blank"] = 0
    <3>1. next_reg_state = "VALID" /\ reg_state # "VALID"
      BY <2>3, <1>c DEF FrameStart
    <3> QED BY <3>1, <2>3, <1>b, <1>c, <1>1 DEF Begins
  <2> QED BY <2>1, <2>2, <2>3
<1>6. CASE reg_state = "IDLE"
  <2>1. Counts = counter /\ Line = 1
    BY <1>6 DEF Counts, Line
  <2>2. CASE ~reg_start
    BY <2>2, <1>1, <1>6, Zenon DEF next_reg_state, Moves
  <2>3. CASE reg_start
    <3>1. next_reg_state = FrameStart
      BY <2>3, <1>6 DEF next_reg_state
    <3>2. Begins
      BY <3>1, <2>1, <1>c, <1>6
    <3> QED BY <3>2, <2>3, <1>6 DEF Moves
  <2> QED BY <2>2, <2>3
<1>7. CASE reg_state \in Busy
  <2>0. reg_state # "IDLE"
    BY <1>7 DEF Busy
  <2>1. CASE reg_stop
    BY <2>0, <2>1, <1>1, Zenon DEF next_reg_state, Moves
  <2>2. CASE ~reg_stop /\ ~Counted
    <3>1. next_reg_state = reg_state /\ next_counter = Counts
      BY <2>0, <2>2 DEF next_reg_state, next_counter
    <3>2. Counter(reg_state) \in Registers
      BY <1>7, Counters
    <3>3. counter[Counter(reg_state)] < config[Counter(reg_state)]
      BY <3>2, <2>0, <2>2, <1>1, <1>2 DEF CountersInRange, Counted
    <3> QED BY <3>1, <3>3, <2>2, <1>1, <1>3, <1>7 DEF Continues, Moves
  <2>3. CASE ~reg_stop /\ Counted
    <3>1. next_reg_state = Following /\ Full
      BY <2>0, <2>3 DEF next_reg_state, Counted, Full
    <3>2. counter["frame_height"] \in 0 .. CounterMod - 1
          /\ config["frame_height"] \in 0 .. CounterMod - 1
      BY <1>2 DEF Registers
    <3>3. CASE reg_state = "FRAME_FRAME_BLANK"
      <4>1. next_reg_state = FrameStart /\ Line = 1
        BY <3>1, <3>3 DEF Following, Line
      <4>2. Begins
        BY <4>1, <3>3, <1>c
      <4> QED BY <4>2, <3>1, <3>3, <1>7 DEF Moves
    <3>4. CASE reg_state = "FRAME_LINE_BLANK"
      <4>1. next_reg_state = "VALID" /\ Line = 1
        BY <3>1, <3>4 DEF Following, Line
      <4>2. FirstLine
        BY <4>1, <3>4, <1>1, <1>b DEF FirstLine
      <4> QED BY <4>2, <3>1, <1>7 DEF Moves
    <3>5. CASE reg_state = "VALID"
      <4>1. Following = IF LastLine THEN FrameEnd ELSE "LINE_LINE_BLANK"
        BY <3>2, <3>5, <1>1 DEF Following, CountersInRange, MoreLines, LastLine
      <4>2. CASE LastLine
        <5>1. counter["frame_height"] = config["frame_height"]
          BY <3>2, <3>5, <4>2, <1>1 DEF CountersInRange, LastLine
        <5>2. config["line_frame_blank"] \in Nat
          BY <1>2 DEF Registers
        <5>3. /\ next_reg_state = FrameEnd /\ next_reg_state # reg_state
              /\ next_reg_state \in Busy \ {"VALID"}
          BY <4>1, <4>2, <3>1, <3>5 DEF FrameEnd, Busy
        <5>4. ASSUME config["line_frame_blank"] > 0 PROVE EndsLines
          <6>1. next_reg_state = "LINE_FRAME_BLANK"
            BY <5>3, <5>4 DEF FrameEnd
          <6>2. counter' = [Counts EXCEPT !["line_frame_blank"] = 1]
            BY <6>1, <5>3, <1>a, Counters
          <6>3. counter'["line_frame_blank"] = 1
            BY <6>2, <1>3 DEF Registers
          <6> QED BY <6>1, <6>3, <5>1, <5>4, <3>5, <1>1, Zenon DEF EndsLines
        <5>5. ASSUME config["line_frame_blank"] = 0 PROVE EndsLines
          <6>1. next_reg_state = "FRAME_FRAME_BLANK"
            BY <5>3, <5>5 DEF FrameEnd
          <6>2. counter' = [Counts EXCEPT !["frame_frame_blank"] = 1]
            BY <6>1, <5>3, <1>a, Counters
          <6>3. counter'["frame_frame_blank"] = 1
            BY <6>2, <1>3 DEF Registers
          <6> QED BY <6>1, <6>3, <5>1, <5>5, <3>5, <1>1, Zenon DEF EndsLines
        <5>6. config["line_frame_blank"] > 0 \/ config["line_frame_blank"] = 0
          BY <5>2
        <5>7. EndsLines
          BY <5>4, <5>5, <5>6
        <5> QED BY <5>7, <3>1, <1>7 DEF Moves
      <4>3. CASE ~LastLine
        <5>1. counter["frame_height"] < config["frame_height"]
          BY <3>2, <3>5, <4>3, <1>1 DEF CountersInRange, LastLine
        <5>2. next_reg_state = "LINE_LINE_BLANK"
          BY <4>1, <4>3, <3>1
        <5>3. counter' = [Counts EXCEPT !["line_line_blank"] = 1]
          BY <5>2, <3>5, <1>a, Counters DEF Busy
        <5>4. /\ counter'["line_line_blank"] = 1
              /\ counter'["frame_height"] = counter["frame_height"]
          BY <5>3, <1>3, <1>7 DEF Registers
        <5>5. EndsLine
          BY <5>1, <5>2, <5>4, <3>5, <1>1 DEF EndsLine
        <5> QED BY <5>5, <3>1, <1>7 DEF Moves
      <4> QED BY <4>2, <4>3
    <3>6. CASE reg_state = "LINE_LINE_BLANK"
      <4>1. next_reg_state = "VALID" /\ Line = counter["frame_height"] + 1
        <5>1. counter["frame_height"] < CounterMod - 1
          BY <3>2, <3>6, <1>1 DEF CountersInRange
        <5>2. Plus1(counter["frame_height"]) = counter["frame_height"] + 1
          BY <5>1, <3>2, Plus1Step
        <5> QED BY <5>2, <3>1, <3>6 DEF Following, Line
      <4>2. NextLine
        BY <4>1, <3>6, <1>1, <1>b DEF NextLine
      <4> QED BY <4>2, <3>1, <1>7 DEF Moves
    <3>7. CASE reg_state = "LINE_FRAME_BLANK"
      <4>1. next_reg_state = "FRAME_FRAME_BLANK"
        BY <3>1, <3>7 DEF Following
      <4>2. counter' = [Counts EXCEPT !["frame_frame_blank"] = 1]
        BY <4>1, <3>7, <1>a, Counters DEF Busy
      <4>3. EndsFrame
        BY <4>1, <4>2, <3>7, <1>1, <1>3 DEF EndsFrame, Registers
      <4> QED BY <4>3, <3>1, <1>7 DEF Moves
    <3> QED BY <3>3, <3>4, <3>5, <3>6, <3>7, <1>7 DEF Busy
  <2> QED BY <2>1, <2>2, <2>3
<1> QED BY <1>6, <1>7, <1>1

\* One clock edge keeps the invariant.
LEMMA ClockInv ==
  ASSUME CmosInv, Clock
  PROVE  CmosInv'
<1>1. Moves /\ counter' \in [Registers -> 0 .. CounterMod - 1]
  BY GeneratorMoves
<1>2. /\ config' \in [Registers -> 0 .. CounterMod - 1]
      /\ \A r \in Registers : config'[r] \in Minimum(r) .. MaxConfig
      /\ reg_state # "IDLE" \/ reg_start => config' = config
      /\ reg_start' \in BOOLEAN /\ reg_stop' \in BOOLEAN /\ rddata' \in Nat
      /\ reg_start' \/ reg_stop' => Commanding
      /\ reg_start' => reg_state = "IDLE"
  BY RegisterSteps
<1>3. /\ HostTypeOK'
      /\ Commanding => ~read' /\ ~write'
      /\ write' /\ addr' \in Registers => wrdata' \in Minimum(addr') .. MaxConfig
  BY HostSteps
<1>4. /\ \A r \in Registers : config[r] \in Nat /\ counter[r] \in Nat
                              /\ config[r] \in Minimum(r) .. MaxConfig
      /\ reg_state \in Busy \cup {"IDLE"} /\ CountersInRange
      /\ reg_start \/ reg_stop => ~write
      /\ CounterMod \in Nat /\ MaxConfig \in Nat
  BY WidthAssumption, MaxConfigAssumption
  DEF CmosInv, CmosTypeOK, GeneratorTypeOK, HostInv
<1>5. reg_state' \in Busy \cup {"IDLE"}
  BY <1>1, <1>4, Zenon
  DEF Moves, Begins, Continues, NextLine, EndsLine, EndsLines, EndsFrame, FirstLine, Busy
<1>6. reg_start' => reg_state' = "IDLE"
  <2>1. reg_start' => reg_state = "IDLE" /\ ~reg_start
    BY <1>2, <1>4 DEF Commanding
  <2> QED BY <2>1, <1>1
      DEF Moves, Continues, NextLine, EndsLine, EndsLines, EndsFrame, FirstLine, Busy
<1>7. CountersInRange'
  <2> USE <1>4
  <2>1. CASE reg_state' = "IDLE"
    BY <2>1 DEF CountersInRange
  <2>2. ASSUME reg_state \in Busy \/ reg_start PROVE config' = config
    BY <2>2, <1>2 DEF Busy
  <2>3. /\ config["frame_width"] > 0 /\ config["frame_height"] > 0
        /\ config["frame_frame_blank"] > 0 /\ config["line_line_blank"] > 0
    BY DEF Minimum, Registers
  <2>4. CASE Begins /\ config' = config
    BY <2>3, <2>4, Counters DEF Begins, CountersInRange, Registers
  <2>5. CASE reg_state \in Busy /\ Continues
    <3>1. /\ config' = config /\ reg_state # "IDLE" /\ reg_state' = reg_state
          /\ Counter(reg_state) \in Registers /\ Counter(reg_state) # "frame_height"
          /\ counter[Counter(reg_state)] < config[Counter(reg_state)]
          /\ counter' = [counter EXCEPT ![Counter(reg_state)] = @ + 1]
      BY <2>2, <2>5, Counters DEF Busy, Continues
    <3>2. /\ counter'[Counter(reg_state)] = counter[Counter(reg_state)] + 1
          /\ counter'["frame_height"] = counter["frame_height"]
      BY <3>1 DEF CmosInv, CmosTypeOK, GeneratorTypeOK, Registers
    <3> QED BY <3>1, <3>2 DEF CountersInRange
  <2>6. CASE NextLine \/ EndsLine \/ EndsLines \/ EndsFrame \/ FirstLine
    <3>1. config' = config
      BY <2>2, <2>6 DEF NextLine, EndsLine, EndsLines, EndsFrame, FirstLine, Busy
    <3> QED BY <2>3, <2>6, <3>1, Counters
        DEF NextLine, EndsLine, EndsLines, EndsFrame, FirstLine, CountersInRange, Registers
  <2> QED BY <2>1, <2>2, <2>4, <2>5, <2>6, <1>1 DEF Moves, Busy
<1>8. CmosTypeOK'
  BY <1>1, <1>2, <1>3, <1>5, Zenon DEF CmosTypeOK, GeneratorTypeOK
<1>9. HostInv'
  BY <1>2, <1>3, <1>6, Zenon DEF HostInv
<1> QED BY <1>7, <1>8, <1>9, Zenon DEF CmosInv

\* The invariant of every behaviour.
LEMMA InvAlways == Spec => []CmosInv
<1>1. CmosInv /\ [Next]_vars => CmosInv'
  <2>1. CASE Clock
    BY <2>1, ClockInv
  <2>2. CASE Reset
    BY <2>2, ResetInv
  <2>3. CASE UNCHANGED vars
    BY <2>3, Zenon
    DEF vars, port_vars, generator_vars, CmosInv, CmosTypeOK, GeneratorTypeOK,
        HostTypeOK, CountersInRange, HostInv
  <2> QED BY <2>1, <2>2, <2>3 DEF Next
<1> QED BY <1>1, InitInv, PTL DEF Spec

\* cmos_sensor_output_generator.vhd:54-183: the registers keep their types,
\* whatever is written and counted.
THEOREM CmosTypeCorrect == Spec => []CmosTypeOK
BY InvAlways, PTL DEF CmosInv

\* cmos_sensor_output_generator.vhd:213-323: no counter of a running generator
\* passes its configuration, so that the comparisons for equality always meet.
THEOREM CountersNeverPass == Spec => []CountersInRange
BY InvAlways, PTL DEF CmosInv

-----------------------------------------------------------------------------
(* Command and status.                                                     *)

\* The last command is on its way (written, or a pulse), or the state obeys it.
Obeys == reg_start \/ (reg_state # "IDLE" /\ ~reg_stop)
CommandInv ==
  /\ read \/ write => ~reg_start /\ ~reg_stop
  /\ Commanding => wrdata = last
  /\ ~Commanding => (last = START <=> Obeys)

\* The generator runs after an edge if it was started, or ran and was not stopped.
LEMMA RunsOn ==
  ASSUME CmosInv, Clock
  PROVE  reg_state' # "IDLE" <=> Obeys
<1>1. /\ reg_state' = next_reg_state
      /\ reg_start => reg_state = "IDLE"
      /\ reg_state \in Busy \cup {"IDLE"}
  BY DEF Clock, GeneratorClock, STATE_LOGIC, CmosInv, HostInv, CmosTypeOK,
         GeneratorTypeOK
<1>2. FrameStart # "IDLE" /\ FrameEnd # "IDLE"
  BY DEF FrameStart, FrameEnd
<1>3. reg_state # "IDLE" => Following # "IDLE"
  BY <1>2, <1>1 DEF Following
<1> QED BY <1>1, <1>2, <1>3 DEF next_reg_state, Obeys

\* What the host does to the last command.
LEMMA CommandSteps ==
  ASSUME CmosInv, Clock
  PROVE  /\ read' \/ write' => ~Commanding
         /\ Commanding' => wrdata' = last'
         /\ ~Commanding' => last' = last
<1>1. "COMMAND" \notin Registers
  BY DEF Registers
<1>2. CASE Rests
  BY <1>2 DEF Rests, NoAccess, Access, Commanding
<1>3. CASE Configures
  BY <1>1, <1>3 DEF Configures, Access, Commanding
<1>4. CASE Commands
  BY <1>4 DEF Commands, Access, Commanding
<1>5. CASE Reads
  BY <1>5 DEF Reads, Access, Commanding
<1> QED BY <1>2, <1>3, <1>4, <1>5 DEF Clock

LEMMA ClockCommands ==
  ASSUME CmosInv, CommandInv, Clock
  PROVE  CommandInv'
<1>1. /\ read' \/ write' => ~Commanding
      /\ Commanding' => wrdata' = last'
      /\ ~Commanding' => last' = last
  BY CommandSteps
<1>2. reg_state' # "IDLE" <=> Obeys
  BY RunsOn
<1>3. /\ reg_start' = (Commanding /\ wrdata % 2 = START /\ reg_state = "IDLE")
      /\ reg_stop' = (Commanding /\ wrdata % 2 = STOP /\ reg_state # "IDLE")
  BY DEF Clock, GeneratorClock, MM_WRITE, Commanding
<1>4. last \in {START, STOP}
  BY DEF CmosInv, CmosTypeOK, HostTypeOK
<1>5. ASSUME Commanding
      PROVE  /\ reg_start' <=> last = START /\ reg_state = "IDLE"
             /\ reg_stop' <=> last = STOP /\ reg_state # "IDLE"
             /\ Obeys <=> reg_state # "IDLE"
  <2>1. wrdata = last /\ wrdata % 2 = last
    BY <1>4, <1>5 DEF CommandInv, START, STOP
  <2> QED BY <1>3, <1>5, <2>1 DEF CommandInv, Obeys, Commanding
<1>6. START # STOP
  BY DEF START, STOP
<1>7. ~Commanding' => (last' = START <=> Obeys')
  <2>1. CASE Commanding
    BY <2>1, <1>1, <1>2, <1>4, <1>5, <1>6 DEF Obeys
  <2>2. CASE ~Commanding
    BY <2>2, <1>1, <1>2, <1>3 DEF CommandInv, Obeys
  <2> QED BY <2>1, <2>2
<1>8. read' \/ write' => ~reg_start' /\ ~reg_stop'
  BY <1>1, <1>3 DEF Commanding
<1> QED BY <1>1, <1>7, <1>8 DEF CommandInv

LEMMA CommandAlways == Spec => []CommandInv
<1>1. Init => CommandInv
  BY DEF Init, GeneratorInit, CommandInv, Commanding, Obeys, START, STOP
<1>2. CmosInv /\ CommandInv /\ [Next]_vars => CommandInv'
  <2>1. CASE CmosInv /\ CommandInv /\ Clock
    BY <2>1, ClockCommands
  <2>2. CASE Reset
    BY <2>2 DEF Reset, GeneratorReset, NoAccess, Access, CommandInv, Commanding,
                Obeys, START, STOP
  <2>3. CASE CommandInv /\ UNCHANGED vars
    BY <2>3 DEF vars, port_vars, generator_vars, CommandInv, Commanding, Obeys
  <2> QED BY <2>1, <2>2, <2>3 DEF Next
<1> QED BY <1>1, <1>2, InvAlways, PTL DEF Spec

\* tb_cmos_sensor_output_generator.vhd:119-129: whatever was asked before, a
\* status read after a command shows what that command asked for, although
\* commands that come in the wrong state are dropped.
THEOREM StatusIsOfLastCommand == Spec => StatusTellsCommand
<1>1. CmosInv /\ CommandInv /\ [Next]_vars
      => [read /\ addr = "STATUS" /\ Clock =>
            (rddata' = STATUS_BUSY <=> last = START)]_vars
  <2> SUFFICES ASSUME CmosInv, CommandInv, read, addr = "STATUS", Clock
               PROVE  rddata' = STATUS_BUSY <=> last = START
    OBVIOUS
  <2>1. ~write /\ ~reg_start /\ ~reg_stop
    BY DEF CmosInv, CmosTypeOK, HostTypeOK, CommandInv
  <2>2. last = START <=> reg_state # "IDLE"
    BY <2>1 DEF CommandInv, Obeys, Commanding
  <2>3. rddata' = IF reg_state = "IDLE" THEN STATUS_IDLE ELSE STATUS_BUSY
    BY DEF Clock, GeneratorClock, MM_READ, Registers
  <2> QED BY <2>2, <2>3 DEF STATUS_IDLE, STATUS_BUSY
<1> QED BY <1>1, InvAlways, CommandAlways, PTL DEF Spec, StatusTellsCommand

-----------------------------------------------------------------------------
\* Lines in cycles: those that are over come before the last one.
LEMMA Lines ==
  ASSUME NEW h \in Nat, NEW last_h \in Nat, NEW p \in Nat, h > 0, h <= last_h
  PROVE  /\ (h - 1) * p \in Nat /\ (last_h - 1) * p \in Nat
         /\ (h - 1) * p <= (last_h - 1) * p
         /\ h < last_h => (h - 1) * p + p <= (last_h - 1) * p
         /\ ((h + 1) - 1) * p = (h - 1) * p + p
         /\ (1 - 1) * p = 0
<1>1. /\ (h - 1) * p \in Nat /\ (last_h - 1) * p \in Nat
      /\ ((h + 1) - 1) * p = (h - 1) * p + p /\ (1 - 1) * p = 0
  BY SMT
<1>2. \A d \in Nat : d * p >= 0
  BY SMT
<1>3. (last_h - 1) * p = (h - 1) * p + (last_h - h) * p
  BY SMT
<1>4. h < last_h => (last_h - h) * p = p + (last_h - h - 1) * p
  BY SMT
<1> QED BY <1>1, <1>2, <1>3, <1>4

\* The registers as integers.
LEMMA Values ==
  ASSUME CmosInv
  PROVE  /\ \A r \in Registers : config[r] \in Nat /\ counter[r] \in Nat
         /\ config["frame_width"] > 0 /\ config["frame_height"] > 0
         /\ config["frame_frame_blank"] > 0 /\ config["line_line_blank"] > 0
         /\ Pitch \in Nat
         /\ (config["frame_height"] - 1) * Pitch \in Nat
         /\ reg_state \in Busy \cup {"IDLE"}
<1>1. \A r \in Registers : /\ config[r] \in Nat /\ counter[r] \in Nat
                           /\ config[r] \in Minimum(r) .. MaxConfig
  BY DEF CmosInv, CmosTypeOK, GeneratorTypeOK, HostInv
<1>2. /\ config["frame_width"] > 0 /\ config["frame_height"] > 0
      /\ config["frame_frame_blank"] > 0 /\ config["line_line_blank"] > 0
  BY <1>1 DEF Minimum, Registers
<1>3. Pitch \in Nat /\ config["frame_height"] \in Nat
  BY <1>1 DEF Pitch, Registers
<1>4. (config["frame_height"] - 1) * Pitch \in Nat
  BY <1>2, <1>3, Lines
<1> QED BY <1>1, <1>2, <1>3, <1>4 DEF CmosInv, CmosTypeOK, GeneratorTypeOK

LEMMA ShowsSchedule == CmosInv => Service!Shows
<1> SUFFICES ASSUME CmosInv PROVE Service!Shows
  OBVIOUS
<1> USE DEF Service!Line0, Service!Pitch, Service!LastEnd, Service!FrameLow, Service!Period
<1>1. /\ \A r \in Registers : config[r] \in Nat /\ counter[r] \in Nat
      /\ config["frame_width"] > 0 /\ config["frame_height"] > 0
      /\ Pitch \in Nat /\ (config["frame_height"] - 1) * Pitch \in Nat
      /\ reg_state \in Busy \cup {"IDLE"} /\ CountersInRange
  BY Values DEF CmosInv
<1>2. CASE reg_state = "IDLE"
  BY <1>2 DEF Service!Shows, Service!ShowsNothing, Position, frame_valid,
              line_valid, data
<1>3. CASE reg_state = "FRAME_LINE_BLANK"
  <2>1. Position \in 0 .. config["frame_line_blank"] - 1
    BY <1>1, <1>3, Counters DEF Position, Done, CountersInRange, Registers
  <2>2. frame_valid /\ ~line_valid /\ data = 0
    BY <1>3 DEF frame_valid, line_valid, data
  <2> QED BY <2>1, <2>2, <1>3, Zenon DEF Service!Shows, Service!ShowsBlank
<1>4. CASE reg_state = "VALID"
  <2> DEFINE row == counter["frame_height"] - 1
             col == counter["frame_width"] - 1
  <2>1. row \in 0 .. config["frame_height"] - 1 /\ col \in 0 .. config["frame_width"] - 1
    BY <1>1, <1>4, Counters DEF CountersInRange, Registers
  <2>2. Position = Service!Line0(config) + row * Service!Pitch(config) + col
    BY <1>4 DEF Position, LineAt, Done, Pitch
  <2>3. frame_valid /\ line_valid
        /\ data = (row * config["frame_width"] + col) % PixMod
    BY <1>4 DEF frame_valid, line_valid, data
  <2>4. Service!ShowsPixel
    <3> HIDE DEF row, col
    <3> QED BY <2>1, <2>2, <2>3, Zenon DEF Service!ShowsPixel
  <2> QED BY <2>4, <1>4 DEF Service!Shows
<1>5. CASE reg_state = "LINE_LINE_BLANK"
  <2> DEFINE row == counter["frame_height"] - 1
             k == counter["line_line_blank"] - 1
  <2>1. row \in 0 .. config["frame_height"] - 2 /\ k \in 0 .. config["line_line_blank"] - 1
    BY <1>1, <1>5, Counters DEF CountersInRange, Registers
  <2>2. Position = Service!Line0(config) + row * Service!Pitch(config)
                   + config["frame_width"] + k
    BY <1>5 DEF Position, LineAt, Done, Pitch
  <2>3. frame_valid /\ ~line_valid /\ data = 0
    BY <1>5 DEF frame_valid, line_valid, data
  <2>4. Service!BetweenLines
    <3> HIDE DEF row, k
    <3> QED BY <2>1, <2>2, Zenon DEF Service!BetweenLines
  <2> QED BY <2>3, <2>4, <1>5, Zenon DEF Service!Shows, Service!ShowsBlank
<1>6. CASE reg_state = "LINE_FRAME_BLANK"
  <2>1. Position \in Service!LastEnd(config) .. Service!FrameLow(config) - 1
    BY <1>1, <1>6, Counters DEF Position, LastEnd, Pitch, Done, CountersInRange, Registers
  <2>2. frame_valid /\ ~line_valid /\ data = 0
    BY <1>6 DEF frame_valid, line_valid, data
  <2> QED BY <2>1, <2>2, <1>6, Zenon DEF Service!Shows, Service!ShowsBlank
<1>7. CASE reg_state = "FRAME_FRAME_BLANK"
  <2>1. Position \in Service!FrameLow(config) .. Service!Period(config) - 1
    BY <1>1, <1>7, Counters DEF Position, LastEnd, Pitch, Done, CountersInRange, Registers
  <2>2. Service!ShowsNothing
    BY <1>7 DEF frame_valid, line_valid, data, Service!ShowsNothing
  <2> QED BY <2>1, <2>2, <1>7, Zenon DEF Service!Shows
<1> QED BY <1>1, <1>2, <1>3, <1>4, <1>5, <1>6, <1>7 DEF Busy

\* A busy generator that goes on takes the next cycle of its frame.
LEMMA NextCycle ==
  ASSUME CmosInv, CmosInv', config' = config, reg_state \in Busy,
         \/ Continues
         \/ /\ Full
            /\ \/ reg_state = "FRAME_FRAME_BLANK" /\ Begins
               \/ NextLine \/ EndsLine \/ EndsLines \/ EndsFrame \/ FirstLine
  PROVE  Position' = IF Position + 1 = Service!Period(config) THEN 0 ELSE Position + 1
<1> DEFINE n == counter["frame_height"]
           h == config["frame_height"]
           w == config["frame_width"]
           fl == config["frame_line_blank"]
           lf == config["line_frame_blank"]
           ff == config["frame_frame_blank"]
           ll == config["line_line_blank"]
           x == (n - 1) * Pitch
           y == (h - 1) * Pitch
<1>1. /\ \A r \in Registers : /\ config[r] \in Nat /\ counter[r] \in Nat
                              /\ counter'[r] \in Nat
      /\ w \in Nat /\ h \in Nat /\ fl \in Nat /\ lf \in Nat /\ ff \in Nat /\ ll \in Nat
      /\ n \in Nat /\ w > 0 /\ h > 0 /\ ff > 0 /\ ll > 0
      /\ Pitch \in Nat /\ Pitch = w + ll /\ y \in Nat
      /\ CountersInRange
  BY Values DEF Registers, Pitch, CmosInv, CmosTypeOK, GeneratorTypeOK
<1>2. Pitch' = Pitch /\ LastEnd' = LastEnd /\ LastEnd = fl + y + w
  BY DEF Pitch, LastEnd
<1>3. Service!Period(config) = fl + y + w + lf + ff
  BY DEF Service!Period, Service!FrameLow, Service!LastEnd, Service!Line0,
         Service!Pitch, Pitch
<1>4. ASSUME reg_state \in {"VALID", "LINE_LINE_BLANK"}
      PROVE  /\ n > 0 /\ n <= h /\ x \in Nat /\ x <= y
             /\ n < h => x + w + ll <= y
             /\ ((n + 1) - 1) * Pitch = x + w + ll
             /\ LineAt = fl + x
  <2>1. n > 0 /\ n <= h
    BY <1>1, <1>4 DEF CountersInRange
  <2>2. /\ (n - 1) * Pitch \in Nat /\ (n - 1) * Pitch <= (h - 1) * Pitch
        /\ n < h => (n - 1) * Pitch + Pitch <= (h - 1) * Pitch
        /\ ((n + 1) - 1) * Pitch = (n - 1) * Pitch + Pitch
    <3> HIDE DEF n, h
    <3> QED BY <2>1, <1>1, Lines
  <2>3. LineAt = fl + (n - 1) * Pitch
    BY DEF LineAt, Done
  <2> HIDE DEF n, h, w, ll, fl
  <2> QED BY <2>1, <2>2, <2>3, <1>1
<1>5. \A s \in Busy : reg_state = s =>
        counter[Counter(s)] \in 1 .. config[Counter(s)]
  BY <1>1 DEF CountersInRange, Busy
<1>6. CASE Continues
  <2>1. /\ reg_state' = reg_state
        /\ counter[Counter(reg_state)] < config[Counter(reg_state)]
        /\ counter' = [counter EXCEPT ![Counter(reg_state)] = @ + 1]
        /\ counter \in [Registers -> Nat]
    BY <1>6 DEF Continues, CmosInv, CmosTypeOK, GeneratorTypeOK
  <2>2. /\ counter'[Counter(reg_state)] = counter[Counter(reg_state)] + 1
        /\ n' = n
    <3>1. Counter(reg_state) \in Registers /\ Counter(reg_state) # "frame_height"
      BY Counters DEF Busy
    <3>2. "frame_height" \in Registers
      BY DEF Registers
    <3> QED BY <2>1, <3>1, <3>2
  <2>3. CASE reg_state = "FRAME_LINE_BLANK"
    <3>1. /\ Position = counter["frame_line_blank"] - 1
          /\ Position' = counter'["frame_line_blank"] - 1
          /\ counter["frame_line_blank"] < fl
      BY <2>1, <2>3, Counters DEF Position, Done
    <3> HIDE DEF h, w, fl, lf, ff, ll, y
    <3> QED BY <3>1, <2>2, <2>3, <1>1, <1>3, Counters DEF Registers
  <2>4. CASE reg_state = "VALID"
    <3>1. /\ Position = fl + x + (counter["frame_width"] - 1)
          /\ Position' = fl + x + (counter'["frame_width"] - 1)
          /\ counter["frame_width"] < w
      BY <2>1, <2>2, <2>4, <1>2, Counters DEF Position, Done, LineAt
    <3>2. counter'["frame_width"] = counter["frame_width"] + 1
          /\ counter["frame_width"] \in Nat /\ x \in Nat /\ x <= y
      BY <2>2, <2>4, <1>1, <1>4, Counters DEF Registers
    <3> HIDE DEF n, h, w, fl, lf, ff, ll, x, y
    <3> QED BY <3>1, <3>2, <1>1, <1>3
  <2>5. CASE reg_state = "LINE_LINE_BLANK"
    <3>1. /\ Position = fl + x + w + (counter["line_line_blank"] - 1)
          /\ Position' = fl + x + w + (counter'["line_line_blank"] - 1)
          /\ counter["line_line_blank"] < ll
      BY <2>1, <2>2, <2>5, <1>2, Counters DEF Position, Done, LineAt
    <3>2. counter'["line_line_blank"] = counter["line_line_blank"] + 1
          /\ counter["line_line_blank"] \in Nat /\ x \in Nat /\ x + w + ll <= y
      BY <2>2, <2>5, <1>1, <1>4, Counters DEF Registers, CountersInRange
    <3> HIDE DEF n, h, w, fl, lf, ff, ll, x, y
    <3> QED BY <3>1, <3>2, <1>1, <1>3
  <2>6. CASE reg_state = "LINE_FRAME_BLANK"
    <3>1. /\ Position = LastEnd + (counter["line_frame_blank"] - 1)
          /\ Position' = LastEnd + (counter'["line_frame_blank"] - 1)
          /\ counter["line_frame_blank"] < lf
      BY <2>1, <2>6, <1>2, Counters DEF Position, Done
    <3>2. counter'["line_frame_blank"] = counter["line_frame_blank"] + 1
          /\ counter["line_frame_blank"] \in Nat
      BY <2>2, <2>6, <1>1, Counters DEF Registers
    <3> HIDE DEF n, h, w, fl, lf, ff, ll, x, y
    <3> QED BY <3>1, <3>2, <1>1, <1>2, <1>3
  <2>7. CASE reg_state = "FRAME_FRAME_BLANK"
    <3>1. /\ Position = LastEnd + lf + (counter["frame_frame_blank"] - 1)
          /\ Position' = LastEnd + lf + (counter'["frame_frame_blank"] - 1)
          /\ counter["frame_frame_blank"] < ff
      BY <2>1, <2>7, <1>2, Counters DEF Position, Done
    <3>2. counter'["frame_frame_blank"] = counter["frame_frame_blank"] + 1
          /\ counter["frame_frame_blank"] \in Nat
      BY <2>2, <2>7, <1>1, Counters DEF Registers
    <3> HIDE DEF n, h, w, fl, lf, ff, ll, x, y
    <3> QED BY <3>1, <3>2, <1>1, <1>2, <1>3
  <2> QED BY <2>3, <2>4, <2>5, <2>6, <2>7 DEF Busy
<1>7. CASE Full /\ reg_state = "FRAME_FRAME_BLANK" /\ Begins
  <2>1. Position + 1 = Service!Period(config)
    <3>1. Position = LastEnd + lf + (ff - 1)
      BY <1>7, Counters DEF Position, Done, Full
    <3> HIDE DEF n, h, w, fl, lf, ff, ll, x, y
    <3> QED BY <3>1, <1>1, <1>2, <1>3
  <2>2. Position' = 0
    <3>1. CASE reg_state' = "FRAME_LINE_BLANK" /\ counter'["frame_line_blank"] = 1
      BY <3>1 DEF Position, Done
    <3>2. CASE /\ fl = 0 /\ reg_state' = "VALID"
               /\ counter'["frame_width"] = 1 /\ counter'["frame_height"] = 1
      <4>1. Position' = fl + (1 - 1) * Pitch + (1 - 1)
        BY <3>2, <1>2 DEF Position, Done, LineAt
      <4>2. (1 - 1) * Pitch = 0
        BY <1>1
      <4> QED BY <4>1, <4>2, <3>2
    <3> QED BY <3>1, <3>2, <1>7 DEF Begins
  <2> QED BY <2>1, <2>2
<1>8. CASE Full /\ NextLine
  <2>1. /\ Position = fl + x + w + (ll - 1)
        /\ Position' = fl + ((n + 1) - 1) * Pitch + (1 - 1)
    <3>1. reg_state = "LINE_LINE_BLANK" /\ counter["line_line_blank"] = ll
      BY <1>8, Counters DEF NextLine, Full
    <3>2. Position = LineAt + w + (ll - 1) /\ LineAt = fl + x
      BY <3>1, <1>4 DEF Position, Done
    <3>3. /\ reg_state' = "VALID" /\ counter'["frame_width"] = 1
          /\ counter'["frame_height"] = n + 1
      BY <1>8 DEF NextLine
    <3>4. LineAt' = fl + ((n + 1) - 1) * Pitch
      <4>1. LineAt' = config'["frame_line_blank"]
                      + (counter'["frame_height"] - 1) * Pitch'
        BY Zenon DEF LineAt, Done
      <4> QED BY <4>1, <3>3, <1>2, Zenon
    <3>5. Position' = LineAt' + (1 - 1)
      BY <3>3 DEF Position, Done
    <3> QED BY <3>2, <3>4, <3>5, Zenon
  <2>2. x \in Nat /\ ((n + 1) - 1) * Pitch = x + w + ll /\ x + w + ll <= y
    BY <1>8, <1>1, <1>4 DEF NextLine, CountersInRange
  <2>3. Position' = fl + x + w + ll
    <3> HIDE DEF x, w, fl, ll
    <3> QED BY <2>1, <2>2, <1>1
  <2> HIDE DEF n, h, w, fl, lf, ff, ll, x, y
  <2> QED BY <2>1, <2>2, <2>3, <1>1, <1>3
<1>9. CASE Full /\ EndsLine
  <2>1. /\ Position = fl + x + (w - 1)
        /\ Position' = fl + x + w + (1 - 1)
    <3>1. reg_state = "VALID" /\ counter["frame_width"] = w
      BY <1>9, Counters DEF EndsLine, Full
    <3> QED BY <3>1, <1>9, <1>2, <1>4 DEF EndsLine, Position, Done, LineAt
  <2>2. x \in Nat /\ x <= y
    BY <1>9, <1>4 DEF EndsLine
  <2> HIDE DEF n, h, w, fl, lf, ff, ll, x, y
  <2> QED BY <2>1, <2>2, <1>1, <1>3
<1>10. CASE Full /\ EndsLines
  <2>1. Position = fl + y + (w - 1)
    <3>1. reg_state = "VALID" /\ counter["frame_width"] = w /\ n = h
      BY <1>10, Counters DEF EndsLines, Full
    <3> QED BY <3>1, <1>4 DEF Position, Done, LineAt
  <2>2. Position' = LastEnd
    <3>1. CASE lf > 0 /\ reg_state' = "LINE_FRAME_BLANK"
               /\ counter'["line_frame_blank"] = 1
      <4>1. Position' = LastEnd + (1 - 1)
        BY <3>1, <1>2 DEF Position, Done
      <4> QED BY <4>1, <1>1, <1>2
    <3>2. CASE lf = 0 /\ reg_state' = "FRAME_FRAME_BLANK"
               /\ counter'["frame_frame_blank"] = 1
      <4>1. Position' = LastEnd + 0 + (1 - 1)
        BY <3>2, <1>2 DEF Position, Done
      <4> QED BY <4>1, <1>1, <1>2
    <3> QED BY <3>1, <3>2, <1>10 DEF EndsLines
  <2> HIDE DEF n, h, w, fl, lf, ff, ll, x, y
  <2> QED BY <2>1, <2>2, <1>1, <1>2, <1>3
<1>11. CASE Full /\ EndsFrame
  <2>1. Position = LastEnd + (lf - 1) /\ Position' = LastEnd + lf + (1 - 1)
    <3>1. reg_state = "LINE_FRAME_BLANK" /\ counter["line_frame_blank"] = lf
      BY <1>11, Counters DEF EndsFrame, Full
    <3> QED BY <3>1, <1>11, <1>2 DEF EndsFrame, Position, Done
  <2> HIDE DEF n, h, w, fl, lf, ff, ll, x, y
  <2> QED BY <2>1, <1>1, <1>2, <1>3
<1>12. CASE Full /\ FirstLine
  <2>1. Position = fl - 1 /\ Position' = fl + (1 - 1) * Pitch + (1 - 1)
    <3>1. reg_state = "FRAME_LINE_BLANK" /\ counter["frame_line_blank"] = fl
      BY <1>12, Counters DEF FirstLine, Full
    <3> QED BY <3>1, <1>12, <1>2 DEF FirstLine, Position, Done, LineAt
  <2>2. (1 - 1) * Pitch = 0
    BY <1>1
  <2> HIDE DEF n, h, w, fl, lf, ff, ll, x, y
  <2> QED BY <2>1, <2>2, <1>1, <1>3
<1> QED BY <1>6, <1>7, <1>8, <1>9, <1>10, <1>11, <1>12

\* cmos_sensor_output_generator.vhd:182-325: whatever is configured within the
\* minima, and whenever it is started, stopped or reset, the pixel port shows
\* the schedule of the frame cycle by cycle.
THEOREM CmosImplementsFrames == Spec => ImplementsFrames
<1>1. Init /\ CmosInv => Service!Init
  BY ShowsSchedule DEF Init, GeneratorInit, Service!Init
<1>2. CmosInv => Service!Shows
  BY ShowsSchedule
<1>3. CmosInv /\ CmosInv' /\ Service!Shows' /\ [Next]_vars
      => [Service!Next]_(Service!service_vars)
  <2> SUFFICES ASSUME CmosInv, CmosInv', Service!Shows', [Next]_vars
               PROVE  [Service!Next]_(Service!service_vars)
    OBVIOUS
  <2>1. CASE Clock
    <3>1. Moves
      BY <2>1, GeneratorMoves
    <3>2. reg_state # "IDLE" \/ reg_start => config' = config
      BY <2>1, RegisterSteps
    <3>3. CASE reg_state' = "IDLE"
      BY <3>3 DEF Service!Next, Service!Configure, Service!Stop
    <3>4. CASE reg_state = "IDLE" /\ reg_start /\ Begins
      <4>1. /\ config' = config /\ reg_state' # "IDLE"
            /\ Pitch \in Nat
        BY <3>2, <3>4, Values DEF Begins
      <4>2. Position' = 0
        <5>1. CASE reg_state' = "FRAME_LINE_BLANK" /\ counter'["frame_line_blank"] = 1
          BY <5>1 DEF Position, Done
        <5>2. CASE /\ config["frame_line_blank"] = 0 /\ reg_state' = "VALID"
                   /\ counter'["frame_width"] = 1 /\ counter'["frame_height"] = 1
          <6>1. Position' = 0 + (1 - 1) * Pitch + (1 - 1)
            BY <5>2, <4>1 DEF Position, Done, LineAt, Pitch
          <6>2. (1 - 1) * Pitch = 0
            BY <4>1
          <6> QED BY <6>1, <6>2
        <5> QED BY <5>1, <5>2, <3>4 DEF Begins
      <4> QED BY <4>1, <4>2, <3>4 DEF Service!Next, Service!Start
    <3>5. CASE /\ reg_state \in Busy
               /\ \/ Continues
                  \/ /\ Full
                     /\ \/ reg_state = "FRAME_FRAME_BLANK" /\ Begins
                        \/ NextLine \/ EndsLine \/ EndsLines \/ EndsFrame \/ FirstLine
      <4>1. config' = config /\ reg_state # "IDLE"
        BY <3>2, <3>5 DEF Busy
      <4>2. reg_state' # "IDLE"
        BY <3>5 DEF Continues, Begins, NextLine, EndsLine, EndsLines, EndsFrame,
                    FirstLine, Busy
      <4>3. Position' = IF Position + 1 = Service!Period(config) THEN 0
                        ELSE Position + 1
        BY <3>5, <4>1, NextCycle
      <4> QED BY <4>1, <4>2, <4>3 DEF Service!Next, Service!Step
    <3> QED BY <3>1, <3>3, <3>4, <3>5, Zenon DEF Moves
  <2>2. CASE Reset
    BY <2>2 DEF Reset, GeneratorReset, Service!Next, Service!Configure, Service!Stop
  <2>3. CASE UNCHANGED vars
    BY <2>3 DEF vars, generator_vars, port_vars, Service!service_vars, Position,
                Done, LineAt, LastEnd, Pitch, frame_valid, line_valid, data
  <2> QED BY <2>1, <2>2, <2>3 DEF Next
<1> QED BY <1>1, <1>2, <1>3, InvAlways, PTL DEF Spec, ImplementsFrames, Service!Spec
=============================================================================
