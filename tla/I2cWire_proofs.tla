--------------------------- MODULE I2cWire_proofs ---------------------------
(***************************************************************************)
(* What the I2C master puts on its two lines, for every byte width and     *)
(* every set of divisors: the symbols of the commands and nothing else,    *)
(* and the host reads what the target sent.                                *)
(*                                                                         *)
(* A level passes through an output register before it is on the line, and *)
(* through an input register before it comes back.  LineInv says, state by *)
(* state, which levels are still on the way: SclInv of the clock line,     *)
(* SdaInv of the data line and of the target, which answers one cycle      *)
(* late.  WireInv counts the symbols, ResultInv follows the received bits  *)
(* to the host's registers.                                                *)
(***************************************************************************)
EXTENDS I2cMaster_proofs, SequenceTheorems

\* The clock line, now and one cycle before.
Low   == scl_out = 0 /\ last_scl = 0
Rises == scl_out = 1 /\ last_scl = 0
High  == scl_out = 1 /\ last_scl = 1
Falls == scl_out = 0 /\ last_scl = 1

\* The states, by the part of a command and by the part of a bit.
Resting   == {"Reset", "Idle", "Done", "DoneAck"}
Starting  == {"Start_A", "Start_B", "Start_C", "Start_D"}
WriteData == {"Wr_A", "Wr_B", "Wr_C", "Wr_D", "Wr_E"}
WriteAck  == {"RdAck_A", "RdAck_B", "RdAck_C", "RdAck_D", "RdAck_E"}
ReadData  == {"Rd_A", "Rd_B", "Rd_C", "Rd_D", "Rd_E", "Rd_F"}
ReadAck   == {"WrAck_A", "WrAck_B", "WrAck_C", "WrAck_D"}
Stopping  == {"Stop_A", "Stop_B", "Stop_C"}

Kind == CASE p_state \in WriteData -> "wdata" [] p_state \in WriteAck -> "wack"
          [] p_state \in ReadData -> "rdata"  [] p_state \in ReadAck -> "rack"
          [] p_state \in Starting -> "start"  [] p_state \in Stopping -> "stop"
          [] OTHER -> "rest"
BitKind == {"wdata", "wack", "rdata", "rack"}

Level ==
  CASE p_state \in {"Wr_A", "RdAck_A", "Rd_A", "WrAck_A"} -> "first"
    [] p_state \in {"Wr_B", "RdAck_B", "Rd_B", "WrAck_B"} -> "rising"
    [] p_state \in {"Wr_C", "RdAck_C", "RdAck_D", "Rd_C", "Rd_D", "WrAck_C"} -> "top"
    [] p_state \in {"Wr_D", "RdAck_E", "Rd_E", "WrAck_D"} -> "falling"
    [] p_state \in {"Wr_E", "Rd_F"} -> "over"
    [] OTHER -> "none"

-----------------------------------------------------------------------------
\* What the host may ask for and how the core knows it.
CommandInv ==
  /\ phase # "ready" =>
       /\ asked \in [cmd : Command, ack : Bit, ien : BOOLEAN, data : Byte]
       /\ asked.data = data_in
       /\ asked.cmd \cap {"read", "write"} # {}
       /\ ~({"read", "write"} \subseteq asked.cmd)
       /\ "start" \in asked.cmd => "write" \in asked.cmd
       /\ {"start", "stop"} \subseteq asked.cmd => Direction = 0
       /\ "stop" \in asked.cmd /\ "read" \in asked.cmd => asked.ack = 1
       /\ bus.op = "write" => bus.val.cmd = asked.cmd /\ bus.val.ack = asked.ack
  /\ Commanded => cmd = asked.cmd /\ ack_in = asked.ack
StateInv ==
  /\ Kind = "start" => "start" \in cmd /\ i_ctr = 0
  /\ Kind \in {"wdata", "wack"} => "write" \in cmd
  /\ Kind \in {"rdata", "rack"} => "write" \notin cmd
  /\ Kind = "stop" => "stop" \in cmd
  /\ Kind \in {"wack", "rack"} => LastBit
  /\ Level = "over" => ~LastBit
AskedInv == CommandInv /\ StateInv

\* The divider gives no two pulses in a row, so a level that a pulse lets in
\* has at least two cycles to reach the line.
SclInv ==
  /\ sclk => clk_ctr = 0
  /\ scl_in = last_scl /\ sda_in = last_sda
  /\ p_state \in Resting \cup {"Start_A"} => Low \/ High
  /\ p_state = "Reset" => High
  /\ Level \in {"first", "over"} \/ p_state = "Stop_A" => Low
  /\ Level = "rising" \/ p_state \in {"Start_B", "Stop_B"}
     => (Low /\ ~sclk) \/ Rises \/ High
  /\ Level = "top" \/ p_state \in {"Start_C", "Stop_C"} => High
  /\ Level = "falling" \/ p_state = "Start_D" => (High /\ ~sclk) \/ Falls \/ Low

\* Only a target that sends, and only when asked to, holds SDA.
Free == t_dir # "tx" => t_sda = 1
Allowed(c) ==
  /\ "start" \in c => t_dir # "tx"
  /\ "start" \notin c /\ "write" \in c => t_dir \in {"rx", "off"}
  /\ "write" \notin c => t_dir \in {"tx", "off"}

\* Between commands SCL is low, unless a STOP was sent.  The core holds both
\* lines at what it saw last, and what it saw of SDA may not be the last.
Entering == phase = "waiting" /\ (bus.op = "write" \/ Commanded)
RestInv ==
  /\ t_bits = 0
  /\ High => /\ marked /\ sda_out = 1 /\ last_sda = 1 /\ t_sda = 1
             /\ t_dir = "idle"
  /\ Low => ~marked /\ t_dir \in {"rx", "off", "tx"} /\ Free
  /\ Entering /\ p_state \in {"Reset", "Idle"} => Allowed(asked.cmd)

StartInv ==
  /\ t_sda = 1
  /\ p_state \in {"Start_A", "Start_B"} =>
       /\ scl_out = 0 => ~marked
       /\ High => sda_out = 1 /\ last_sda = 1
  /\ p_state = "Start_B" => sda_out = 1 /\ (scl_out = 1 => last_sda = 1)
  /\ p_state = "Start_C" =>
       \/ sda_out = 1 /\ last_sda = 1 /\ ~sclk
       \/ sda_out = 0 /\ last_sda = 1
       \/ sda_out = 0 /\ last_sda = 0 /\ marked /\ t_dir = "addressed" /\ t_bits = 0
  /\ p_state = "Start_D" =>
       /\ t_dir = "addressed" /\ t_bits = 0
       /\ ~Low => sda_out = 0 /\ last_sda = 0 /\ marked
       /\ Low => ~marked

\* The place of a bit in its byte, its acknowledge being the last, and whether
\* the target has taken it.
Slot  == IF Kind \in {"wdata", "rdata"} THEN i_ctr ELSE DataBits
Taken == Level = "over" \/ (Level = "falling" /\ Low)

\* Who drives SDA: in the data of a write the core, in its acknowledge the
\* target, and afterwards the target only if it was addressed for a read; in
\* the data of a read the target, in its acknowledge the core.
DirOK(taken, dir, level) ==
  /\ Kind = "wdata" /\ ~(taken /\ LastBit) =>
       /\ IF "start" \in cmd THEN dir = "addressed" ELSE dir \in {"rx", "off"}
       /\ level = 1
  /\ Kind = "wack" \/ (Kind = "wdata" /\ taken /\ LastBit) =>
       /\ dir \in {"rx", "off", "tx"}
       /\ dir = "tx" => "start" \in cmd /\ Direction = 1
  /\ Kind = "wack" /\ taken => (dir # "tx" => level = 1)
  /\ Kind \in {"rdata", "rack"} => dir \in {"tx", "off"}
  /\ Kind = "rdata" => /\ dir # "tx" => level = 1
                       /\ taken /\ LastBit => level = 1
  /\ Kind = "rack" /\ ~taken => level = 1
  /\ Kind = "rack" /\ taken => /\ dir # "tx" => level = 1
                               /\ ack_in = 1 => dir = "off"

BitInv ==
  /\ ~marked
  /\ Level \in {"rising", "top", "falling"} => sda_out = i_sda_out
  /\ ~Low => last_sda = SdaLine
  /\ t_bits = IF ~Taken THEN Slot ELSE IF Slot = DataBits THEN 0 ELSE Slot + 1
  /\ DirOK(Taken, t_dir, t_sda)

StopInv ==
  /\ t_sda = 1
  /\ p_state \in {"Stop_A", "Stop_B"} => ~marked /\ t_bits = 0 /\ t_dir # "idle"
  /\ p_state = "Stop_B" => sda_out = 0 /\ (scl_out = 1 => last_sda = 0)
  /\ p_state = "Stop_C" =>
       \/ sda_out = 0 /\ last_sda = 0 /\ ~marked /\ ~sclk
       \/ sda_out = 1 /\ last_sda = 0 /\ ~marked
       \/ sda_out = 1 /\ last_sda = 1 /\ marked /\ t_dir = "idle" /\ t_bits = 0

SdaInv ==
  /\ Kind = "rest" => RestInv
  /\ Kind = "start" => StartInv
  /\ Kind \in BitKind => BitInv
  /\ Kind = "stop" => StopInv

LineInv == AskedInv /\ SclInv /\ SdaInv

-----------------------------------------------------------------------------
(* The symbols.                                                            *)

Base  == IF "start" \in asked.cmd THEN 1 ELSE 0
Total == Base + DataBits + 1 + (IF "stop" \in asked.cmd THEN 1 ELSE 0)

\* How many of the command's symbols are out.
Sent ==
  IF Kind \in BitKind THEN Base + Slot + (IF Taken THEN 1 ELSE 0)
  ELSE CASE p_state \in {"Start_A", "Start_B"} -> 0
         [] p_state = "Start_C" -> 1 - last_sda
         [] p_state = "Start_D" -> 1
         [] p_state \in {"Stop_A", "Stop_B"} -> Base + DataBits + 1
         [] p_state = "Stop_C" -> Base + DataBits + 1 + last_sda
         [] p_state \in {"Done", "DoneAck"} -> Total
         [] OTHER -> IF phase = "ready" \/ Commanded \/ bus.op = "write"
                     THEN 0 ELSE Total

\* The i-th symbol of the command may be x.
Fits(i, x) ==
  /\ i <= Base => x = START
  /\ i \in Base + 1 .. Base + DataBits
     => x \in IF "write" \in asked.cmd THEN {asked.data[i - Base - 1]} ELSE Bit
  /\ i = Base + DataBits + 1
     => x \in IF "write" \in asked.cmd THEN Bit ELSE {asked.ack}
  /\ i = Base + DataBits + 2 => x = STOP

WireInv == Len(wire) = Sent /\ \A i \in 1 .. Len(wire) : Fits(i, wire[i])

\* What an edge does to the wire.
Emits ==
  \/ Symbol(scl, SdaLine) = <<>> /\ Sent' = Sent
  \/ \E x \in Symbols : /\ Symbol(scl, SdaLine) = <<x>> /\ Sent' = Sent + 1
                        /\ Sent < Total /\ Fits(Sent + 1, x)

\* The bits a read or an acknowledge brought, on their way to the host.
OutInv ==
  /\ p_state # "Rd_D" => data_out = i_dout
  /\ p_state # "RdAck_D" => ack_out = i_ack_out
ReadInv ==
  phase # "ready" /\ "read" \in asked.cmd =>
    /\ \A b \in Bits : b + 1 <= Len(wire) => i_dout[b] = wire[b + 1]
    /\ p_state = "Rd_D" \/ (p_state = "Rd_E" /\ ~Taken) => i_dout[i_ctr] = SdaLine
AckInv ==
  phase # "ready" /\ "write" \in asked.cmd =>
    /\ Len(wire) > Base + DataBits => i_ack_out = wire[Base + DataBits + 1]
    /\ p_state = "RdAck_D" \/ (p_state = "RdAck_E" /\ ~Taken) => i_ack_out = SdaLine
FetchInv ==
  /\ phase # "ready" /\ ~asked.ien
     /\ (phase = "collecting" \/ (bus.op = "capture" /\ ~readdata.sr.tip))
     => readdata.sr.lar = ack_out
  /\ phase = "collecting" /\ bus.op = "capture" => readdata.dr = data_out
ResultInv == OutInv /\ ReadInv /\ AckInv /\ FetchInv

-----------------------------------------------------------------------------
(* The core's moves, by the part of a bit.                                 *)

LEMMA Groups ==
  ASSUME p_state \in CoreState
  PROVE  /\ Kind \in BitKind \cup {"start", "stop", "rest"}
         /\ Kind \in BitKind <=> Level # "none"
         /\ Kind \in BitKind => Level \in {"first", "rising", "top", "falling", "over"}
         /\ Level = "over" => Kind \in {"wdata", "rdata"}
         /\ Kind = "rest" <=> p_state \in Resting
         /\ Kind = "start" <=> p_state \in Starting
         /\ Kind = "stop" <=> p_state \in Stopping
BY DEF CoreState, Kind, BitKind, Level, Resting, Starting, Stopping, WriteData,
       WriteAck, ReadData, ReadAck

\* What a state puts on the lines.
LEMMA Outputs ==
  ASSUME p_state \in CoreState, Kind \in BitKind
  PROVE  /\ i_scl_out = IF Level \in {"rising", "top"} THEN 1 ELSE 0
         /\ i_sda_out = IF Kind = "wdata" THEN data_in[i_ctr]
                        ELSE IF Kind = "rack" THEN ack_in ELSE 1
<1>1. CASE Kind = "wdata"
  BY <1>1 DEF Kind, WriteData, WriteAck, ReadData, ReadAck, Starting, Stopping,
              Level, i_scl_out, i_sda_out, Waiting
<1>2. CASE Kind = "wack"
  BY <1>2 DEF Kind, WriteData, WriteAck, ReadData, ReadAck, Starting, Stopping,
              Level, i_scl_out, i_sda_out, Waiting
<1>3. CASE Kind = "rdata"
  BY <1>3 DEF Kind, WriteData, WriteAck, ReadData, ReadAck, Starting, Stopping,
              Level, i_scl_out, i_sda_out, Waiting
<1>4. CASE Kind = "rack"
  BY <1>4 DEF Kind, WriteData, WriteAck, ReadData, ReadAck, Starting, Stopping,
              Level, i_scl_out, i_sda_out, Waiting
<1> QED BY <1>1, <1>2, <1>3, <1>4 DEF BitKind

LEMMA BitMoves ==
  ASSUME CoreClock, p_state \in CoreState, Kind \in BitKind
  PROVE  /\ Level # "over" => i_ctr' = i_ctr
         /\ Level = "first" => /\ Kind' = Kind
                               /\ Level' = "first" \/ (sclk /\ Level' = "rising")
         /\ Level = "rising" => /\ Kind' = Kind
                                /\ Level' = IF sclk THEN "top" ELSE "rising"
         /\ Level = "top" => /\ Kind' = Kind
                             /\ Level' = "top" \/ (sclk /\ Level' = "falling")
         /\ Level = "falling" /\ ~sclk => UNCHANGED <<Kind, Level>>
         /\ Level = "falling" /\ sclk /\ Kind = "wdata"
            => IF LastBit THEN Kind' = "wack" /\ Level' = "first"
                          ELSE Kind' = "wdata" /\ Level' = "over"
         /\ Level = "falling" /\ sclk /\ Kind = "rdata"
            => IF LastBit THEN Kind' = "rack" /\ Level' = "first"
                          ELSE Kind' = "rdata" /\ Level' = "over"
         /\ Level = "falling" /\ sclk /\ Kind \in {"wack", "rack"} => p_state' = IfStop
         /\ Level = "over" => /\ Kind' = Kind /\ Level' = "first"
                              /\ i_ctr' = (i_ctr + 1) % DataBits
<1>0. /\ p_state' = IF i_sclk_en => sclk THEN n_state ELSE p_state
      /\ i_ctr' = CASE p_state = "Idle"             -> 0
                    [] p_state \in {"Rd_F", "Wr_E"} -> (i_ctr + 1) % DataBits
                    [] OTHER                        -> i_ctr
  BY DEF CoreClock
<1>1. CASE Level = "first"
  <2>1. CASE p_state = "Wr_A"
    BY <1>0, <2>1 DEF Level, Kind, WriteData, WriteAck, ReadData, ReadAck,
       Starting, Stopping, i_sclk_en, Waiting, n_state, Successor
  <2>2. CASE p_state = "RdAck_A"
    BY <1>0, <2>2 DEF Level, Kind, WriteData, WriteAck, ReadData, ReadAck,
       Starting, Stopping, i_sclk_en, Waiting, n_state, Successor
  <2>3. CASE p_state = "Rd_A"
    BY <1>0, <2>3 DEF Level, Kind, WriteData, WriteAck, ReadData, ReadAck,
       Starting, Stopping, i_sclk_en, Waiting, n_state, Successor
  <2>4. CASE p_state = "WrAck_A"
    BY <1>0, <2>4 DEF Level, Kind, WriteData, WriteAck, ReadData, ReadAck,
       Starting, Stopping, i_sclk_en, Waiting, n_state, Successor
  <2> QED BY <1>1, <2>1, <2>2, <2>3, <2>4 DEF Level
<1>2. CASE Level = "rising"
  <2>1. CASE p_state = "Wr_B"
    BY <1>0, <2>1 DEF Level, Kind, WriteData, WriteAck, ReadData, ReadAck,
       Starting, Stopping, i_sclk_en, Waiting, n_state, Successor
  <2>2. CASE p_state = "RdAck_B"
    BY <1>0, <2>2 DEF Level, Kind, WriteData, WriteAck, ReadData, ReadAck,
       Starting, Stopping, i_sclk_en, Waiting, n_state, Successor
  <2>3. CASE p_state = "Rd_B"
    BY <1>0, <2>3 DEF Level, Kind, WriteData, WriteAck, ReadData, ReadAck,
       Starting, Stopping, i_sclk_en, Waiting, n_state, Successor
  <2>4. CASE p_state = "WrAck_B"
    BY <1>0, <2>4 DEF Level, Kind, WriteData, WriteAck, ReadData, ReadAck,
       Starting, Stopping, i_sclk_en, Waiting, n_state, Successor
  <2> QED BY <1>2, <2>1, <2>2, <2>3, <2>4 DEF Level
<1>3. CASE Level = "top"
  <2>1. CASE p_state = "Wr_C"
    BY <1>0, <2>1 DEF Level, Kind, WriteData, WriteAck, ReadData, ReadAck,
       Starting, Stopping, i_sclk_en, Waiting, n_state, Successor
  <2>2. CASE p_state = "RdAck_C"
    BY <1>0, <2>2 DEF Level, Kind, WriteData, WriteAck, ReadData, ReadAck,
       Starting, Stopping, i_sclk_en, Waiting, n_state, Successor
  <2>3. CASE p_state = "RdAck_D"
    BY <1>0, <2>3 DEF Level, Kind, WriteData, WriteAck, ReadData, ReadAck,
       Starting, Stopping, i_sclk_en, Waiting, n_state, Successor
  <2>4. CASE p_state = "Rd_C"
    BY <1>0, <2>4 DEF Level, Kind, WriteData, WriteAck, ReadData, ReadAck,
       Starting, Stopping, i_sclk_en, Waiting, n_state, Successor
  <2>5. CASE p_state = "Rd_D"
    BY <1>0, <2>5 DEF Level, Kind, WriteData, WriteAck, ReadData, ReadAck,
       Starting, Stopping, i_sclk_en, Waiting, n_state, Successor
  <2>6. CASE p_state = "WrAck_C"
    BY <1>0, <2>6 DEF Level, Kind, WriteData, WriteAck, ReadData, ReadAck,
       Starting, Stopping, i_sclk_en, Waiting, n_state, Successor
  <2> QED BY <1>3, <2>1, <2>2, <2>3, <2>4, <2>5, <2>6 DEF Level
<1>4. CASE Level = "falling"
  <2>1. CASE p_state = "Wr_D"
    BY <1>0, <2>1 DEF Level, Kind, WriteData, WriteAck, ReadData, ReadAck,
       Starting, Stopping, i_sclk_en, Waiting, n_state, Successor
  <2>2. CASE p_state = "RdAck_E"
    BY <1>0, <2>2 DEF Level, Kind, WriteData, WriteAck, ReadData, ReadAck,
       Starting, Stopping, i_sclk_en, Waiting, n_state, Successor
  <2>3. CASE p_state = "Rd_E"
    BY <1>0, <2>3 DEF Level, Kind, WriteData, WriteAck, ReadData, ReadAck,
       Starting, Stopping, i_sclk_en, Waiting, n_state, Successor
  <2>4. CASE p_state = "WrAck_D"
    BY <1>0, <2>4 DEF Level, Kind, WriteData, WriteAck, ReadData, ReadAck,
       Starting, Stopping, i_sclk_en, Waiting, n_state, Successor
  <2> QED BY <1>4, <2>1, <2>2, <2>3, <2>4 DEF Level
<1>5. CASE Level = "over"
  <2>1. CASE p_state = "Wr_E"
    BY <1>0, <2>1 DEF Level, Kind, WriteData, WriteAck, ReadData, ReadAck,
       Starting, Stopping, i_sclk_en, Waiting, n_state, Successor
  <2>2. CASE p_state = "Rd_F"
    BY <1>0, <2>2 DEF Level, Kind, WriteData, WriteAck, ReadData, ReadAck,
       Starting, Stopping, i_sclk_en, Waiting, n_state, Successor
  <2> QED BY <1>5, <2>1, <2>2 DEF Level
<1> QED BY <1>1, <1>2, <1>3, <1>4, <1>5, Groups

\* And outside of a bit.
LEMMA OtherMoves ==
  ASSUME CoreClock, p_state \in CoreState
  PROVE  /\ p_state = "Reset" => p_state' = "Idle" /\ i_scl_out = 1 /\ i_sda_out = 1
         /\ p_state \in {"Idle", "Done", "DoneAck"}
            => i_scl_out = scl_in /\ i_sda_out = sda_in
         /\ p_state = "Idle" /\ ~Commanded => p_state' = "Idle"
         /\ p_state = "Idle" /\ Commanded
            => p_state' = (IF "start" \in cmd THEN "Start_A" ELSE Transfer) /\ i_ctr' = 0
         /\ p_state = "Done" => p_state' = "DoneAck"
         /\ p_state = "DoneAck" => p_state' \in {"DoneAck", "Idle"}
         /\ p_state \in Starting => i_ctr' = i_ctr
         /\ p_state = "Start_A"
            => /\ i_scl_out = scl_in /\ i_sda_out = 1
               /\ p_state' = IF sclk THEN "Start_B" ELSE "Start_A"
         /\ p_state = "Start_B"
            => /\ i_scl_out = 1 /\ i_sda_out = 1
               /\ p_state' = IF sclk THEN "Start_C" ELSE "Start_B"
         /\ p_state = "Start_C"
            => /\ i_scl_out = 1 /\ i_sda_out = 0
               /\ p_state' = IF sclk THEN "Start_D" ELSE "Start_C"
         /\ p_state = "Start_D" /\ Commanded
            => /\ i_scl_out = 0 /\ i_sda_out = 0
               /\ p_state' = IF sclk THEN Transfer ELSE "Start_D"
         /\ p_state = "Stop_A"
            => /\ i_scl_out = 0 /\ i_sda_out = 0
               /\ p_state' = IF sclk THEN "Stop_B" ELSE "Stop_A"
         /\ p_state = "Stop_B"
            => /\ i_scl_out = 1 /\ i_sda_out = 0
               /\ p_state' = IF sclk THEN "Stop_C" ELSE "Stop_B"
         /\ p_state = "Stop_C"
            => /\ i_scl_out = 1 /\ i_sda_out = 1
               /\ p_state' = IF sclk THEN "Done" ELSE "Stop_C"
<1>0. /\ p_state' = IF i_sclk_en => sclk THEN n_state ELSE p_state
      /\ i_ctr' = CASE p_state = "Idle"             -> 0
                    [] p_state \in {"Rd_F", "Wr_E"} -> (i_ctr + 1) % DataBits
                    [] OTHER                        -> i_ctr
  BY DEF CoreClock
<1>1. CASE p_state \in Resting
  BY <1>0, <1>1 DEF Resting, Starting, i_scl_out, i_sda_out, i_sclk_en, Waiting, n_state,
     Successor, i_cmd_go, i_busy
<1>2. CASE p_state \in Starting
  BY <1>0, <1>2 DEF Starting, i_scl_out, i_sda_out, i_sclk_en, Waiting, n_state, Successor
<1>3. CASE p_state \in Stopping
  BY <1>0, <1>3 DEF Starting, Stopping, i_scl_out, i_sda_out, i_sclk_en, Waiting, n_state,
     Successor
<1> QED BY <1>1, <1>2, <1>3 DEF Resting, Starting, Stopping

-----------------------------------------------------------------------------
(* What the target makes of the lines.                                     *)

LEMMA NoEvent ==
  ASSUME TypeInv, TargetClock(scl, SdaLine),
         last_scl = 0 \/ (scl_out = 1 /\ SdaLine = last_sda)
  PROVE  UNCHANGED <<t_dir, t_bits, t_sda, marked>> /\ Symbol(scl, SdaLine) = <<>>
<1>1. /\ ~Started(scl, SdaLine) /\ ~Stopped(scl, SdaLine) /\ ~Fell(scl)
      /\ marked \in BOOLEAN
  BY DEF Started, Stopped, Fell, scl, TypeInv, I2cTypeOK, TargetTypeOK
<1>2. marked' = marked
  BY <1>1, Zenon DEF TargetClock
<1> QED BY <1>1, <1>2 DEF TargetClock, Symbol

LEMMA StartEvent ==
  ASSUME TargetClock(scl, SdaLine), High, last_sda = 1, SdaLine = 0
  PROVE  /\ marked' /\ t_dir' = "addressed" /\ t_bits' = 0 /\ t_sda' = 1
         /\ Symbol(scl, SdaLine) = <<START>>
<1>1. Started(scl, SdaLine) /\ ~Stopped(scl, SdaLine) /\ ~Fell(scl)
  BY DEF Started, Stopped, Fell, scl, High
<1>2. marked' /\ t_dir' = "addressed" /\ t_bits' = 0 /\ t_sda' = 1
  BY <1>1, Zenon DEF TargetClock
<1>3. Symbol(scl, SdaLine) = <<START>>
  BY <1>1 DEF Symbol
<1> QED BY <1>2, <1>3

LEMMA StopEvent ==
  ASSUME TargetClock(scl, SdaLine), High, last_sda = 0, SdaLine = 1
  PROVE  /\ marked' /\ t_dir' = "idle" /\ t_bits' = 0 /\ t_sda' = 1
         /\ Symbol(scl, SdaLine) = <<STOP>>
<1>1. ~Started(scl, SdaLine) /\ Stopped(scl, SdaLine) /\ ~Fell(scl)
  BY DEF Started, Stopped, Fell, scl, High
<1>2. marked' /\ t_dir' = "idle" /\ t_bits' = 0 /\ t_sda' = 1
  BY <1>1, Zenon DEF TargetClock
<1>3. Symbol(scl, SdaLine) = <<STOP>>
  BY <1>1 DEF Symbol
<1> QED BY <1>2, <1>3

LEMMA FallEvent ==
  ASSUME TargetClock(scl, SdaLine), Falls, SdaLine = last_sda
  PROVE  /\ ~marked'
         /\ marked => UNCHANGED <<t_dir, t_bits, t_sda>> /\ Symbol(scl, SdaLine) = <<>>
         /\ ~marked /\ t_dir # "idle" => TakeBit /\ Symbol(scl, SdaLine) = <<last_sda>>
<1>1. ~Started(scl, SdaLine) /\ ~Stopped(scl, SdaLine) /\ Fell(scl)
  BY DEF Started, Stopped, Fell, scl, Falls
<1> QED BY <1>1 DEF TargetClock, Symbol

-----------------------------------------------------------------------------
(* One edge.                                                               *)

\* The registers between the core, the lines and the target.
LEMMA Edge ==
  ASSUME TypeInv, SclInv, NEW act \in BOOLEAN, Tick(act)
  PROVE  /\ CoreClock /\ TargetClock(scl, SdaLine) /\ p_state \in CoreState
         /\ {sclk, sclk'} \subseteq BOOLEAN /\ (sclk => ~sclk')
         /\ sclk' => clk_ctr' = 0
         /\ scl_in = last_scl /\ sda_in = last_sda
         /\ scl_in' = scl_out /\ last_scl' = scl_out
         /\ sda_in' = SdaLine /\ last_sda' = SdaLine
         /\ sda_out' = i_sda_out /\ scl_out' = i_scl_out
<1>1. /\ CoreClock /\ TargetClock(scl, SdaLine) /\ InterfaceClock(bus, t_sda)
      /\ ClkgenClock(i_clkdiv_reg)
  BY DEF Tick
<1>2. /\ i_clkdiv_reg \in Nat \ {0} /\ sclk \in BOOLEAN /\ p_state \in CoreState
      /\ clk_ctr \in Nat
  BY DivisorsAssumption DEF TypeInv, I2cTypeOK, CoreTypeOK, InterfaceTypeOK
<1>3. sclk' <=> clk_ctr >= i_clkdiv_reg
  <2>1. (clk_ctr >= i_clkdiv_reg) \in BOOLEAN
    OBVIOUS
  <2> QED BY <1>1, <2>1, Zenon DEF ClkgenClock
<1>4. clk_ctr' = IF clk_ctr >= i_clkdiv_reg THEN 0 ELSE clk_ctr + 1
  BY <1>1 DEF ClkgenClock
<1>5. sclk' \in BOOLEAN
  <2>1. (clk_ctr >= i_clkdiv_reg) \in BOOLEAN
    OBVIOUS
  <2> QED BY <1>1, <2>1, Zenon DEF ClkgenClock
<1>6. sclk => ~sclk'
  BY <1>2, <1>3 DEF SclInv
<1>7. /\ scl_in = last_scl /\ sda_in = last_sda
  BY DEF SclInv
<1>8. scl_in' = scl_out /\ sda_in' = SdaLine
  BY <1>1 DEF InterfaceClock, scl, SdaLine
<1>9. last_scl' = scl_out /\ last_sda' = SdaLine
  BY <1>1 DEF TargetClock, scl
<1>10. sda_out' = i_sda_out /\ scl_out' = i_scl_out
  BY <1>1 DEF CoreClock
<1> QED BY <1>1, <1>2, <1>3, <1>4, <1>5, <1>6, <1>7, <1>8, <1>9, <1>10

\* While the core works on a command, neither the command nor the host moves.
LEMMA Steady ==
  ASSUME TypeInv, EndInv, NEW act \in BOOLEAN, Tick(act),
         p_state \notin {"Reset", "Idle", "DoneAck"} \/ (Commanded /\ p_state # "DoneAck")
  PROVE  /\ UNCHANGED <<cmd, ack_in, data_in, asked>>
         /\ phase = "waiting" /\ phase' = "waiting" /\ bus'.op # "write" /\ bus.op # "write"
         /\ Commanded /\ Commanded' /\ ~Collected
<1>1. phase = "waiting" /\ Running /\ Quiet /\ PollsTip
  BY DEF EndInv, AtRest, Running, Finished, Acked, Trailing
<1>2. /\ Commanded /\ ~cmd_done /\ ~irq /\ bus.op \in {"none", "read", "capture"}
      /\ bus.op \in {"read", "capture"} => bus.reg = "SR"
      /\ bus.op = "capture" => readdata.sr.tip
  BY <1>1 DEF Running, Quiet, PollsTip, Polls
<1>3. /\ HostClock(act) /\ InterfaceClock(bus, t_sda)
  BY DEF Tick
<1>4. ~Writes(bus, "CR") /\ ~Writes(bus, "DR") /\ ~CommandDone
  BY <1>2, Zenon DEF Writes, CommandDone, i_tip_reg
<1>5. cmd' = cmd /\ ack_in' = ack_in /\ data_in' = data_in
  BY <1>3, <1>4 DEF InterfaceClock
<1>6. phase' = "waiting" /\ bus'.op # "write"
  BY <1>1, <1>2, <1>3, HostSteps DEF BusRead
<1>7. asked' = asked
  BY <1>1, <1>2, <1>3, <1>6 DEF HostClock, Issues, Ready, Ask, Poll, Interrupted, Collect,
     Sleeps, Waits, Wrote, Holds, Captures, host_vars
<1> QED BY <1>1, <1>2, <1>5, <1>6, <1>7 DEF Commanded, Collected

\* When the host asks.
LEMMA Asking ==
  ASSUME TypeInv, EndInv, NEW act \in BOOLEAN, Tick(act), Ask
  PROVE  /\ phase = "ready" /\ phase' = "waiting"
         /\ \E c \in Command, a \in Bit, ien \in BOOLEAN :
              /\ Legal(c) /\ LegalAck(c, a)
              /\ bus' = BusWrite("CR", [cmd |-> c, ack |-> a, ien |-> ien])
              /\ asked' = [cmd |-> c, ack |-> a, ien |-> ien, data |-> data_in]
         /\ data_in' = data_in /\ ~Commanded /\ ~Commanded'
<1>1. phase = "ready" /\ AtRest /\ bus.op = "none"
  BY DEF Ask, NoAccess, EndInv
<1>2. data_in' = data_in
  <2>1. ~Writes(bus, "DR")
    BY <1>1 DEF Writes
  <2> QED BY <2>1 DEF Tick, InterfaceClock
<1>3. ~Commanded /\ ~Commanded'
  BY <1>1, InterfaceSteps DEF Tick, AtRest
<1> QED BY <1>1, <1>2, <1>3 DEF Ask

LEMMA CommandSteps ==
  ASSUME TypeInv, EndInv, CommandInv, NEW act \in BOOLEAN, Tick(act)
  PROVE  /\ CommandInv'
         /\ phase # "ready" /\ phase' # "ready" => asked' = asked
         /\ phase = "ready" /\ phase' # "ready" => Ask
<1>0. HostClock(act) /\ InterfaceClock(bus, t_sda)
  BY DEF Tick
<1>1. CASE Ask
  <2>1. PICK c \in Command, a \in Bit, ien \in BOOLEAN :
              /\ Legal(c) /\ LegalAck(c, a)
              /\ bus' = BusWrite("CR", [cmd |-> c, ack |-> a, ien |-> ien])
              /\ asked' = [cmd |-> c, ack |-> a, ien |-> ien, data |-> data_in]
    BY <1>1, Asking
  <2>2. data_in' = data_in /\ ~Commanded' /\ phase = "ready"
    BY <1>1, Asking
  <2>3. data_in \in Byte
    BY DEF TypeInv, I2cTypeOK, InterfaceTypeOK
  <2>4. asked' \in [cmd : Command, ack : Bit, ien : BOOLEAN, data : Byte]
    BY <2>1, <2>3
  <2>5. /\ asked'.cmd = c /\ asked'.ack = a /\ asked'.data = data_in
        /\ bus'.val.cmd = c /\ bus'.val.ack = a
    BY <2>1 DEF BusWrite
  <2>6. /\ c \cap {"read", "write"} # {} /\ ~({"read", "write"} \subseteq c)
        /\ "start" \in c => "write" \in c
        /\ "stop" \in c /\ "read" \in c => a = 1
    BY <2>1 DEF Legal, LegalAck
  <2>7. {"start", "stop"} \subseteq c => Direction = 0
    <3>1. Direction \in {0, 1}
      BY <2>3, DataBitsAssumption DEF Direction, Byte, Bits, Bit
    <3> QED BY <3>1, <2>1 DEF Legal
  <2>8. Direction' = Direction
    BY <2>2 DEF Direction
  <2>9. {"start", "stop"} \subseteq asked'.cmd => Direction' = 0
    BY <2>5, <2>7, <2>8
  <2>10. /\ asked'.cmd \cap {"read", "write"} # {}
         /\ ~({"read", "write"} \subseteq asked'.cmd)
         /\ "start" \in asked'.cmd => "write" \in asked'.cmd
         /\ "stop" \in asked'.cmd /\ "read" \in asked'.cmd => asked'.ack = 1
    BY <2>5, <2>6
  <2>11. asked'.data = data_in'
    BY <2>2, <2>5
  <2>12. bus'.val.cmd = asked'.cmd /\ bus'.val.ack = asked'.ack
    BY <2>5
  <2>13. CommandInv'
    BY <2>2, <2>4, <2>9, <2>10, <2>11, <2>12, Zenon DEF CommandInv
  <2> QED BY <2>2, <2>13, <1>1
<1>2. CASE phase = "ready" /\ ~Ask
  <2>1. AtRest /\ bus.op \in {"none", "write"} /\ (bus.op = "write" => bus.reg # "CR")
    BY <1>2 DEF EndInv, Chooses
  <2>2. phase' = "ready"
    BY <1>0, <1>2, <2>1 DEF HostClock, Issues, Ready, Poll, Interrupted, Collect,
       Sleeps, Waits, Wrote, Holds, Captures, host_vars
  <2>3. ~Commanded'
    BY <1>0, <2>1, InterfaceSteps DEF AtRest
  <2> QED BY <1>2, <2>2, <2>3 DEF CommandInv
<1>3. CASE phase # "ready"
  <2>1. /\ bus.op = "write" => Commits /\ AtRest /\ phase = "waiting"
        /\ phase \in {"waiting", "collecting"}
    BY <1>3 DEF EndInv, PollsTip, Polls, Fetches
  <2>2. bus'.op # "write" /\ (phase' = "ready" \/ asked' = asked)
    BY <1>0, <1>3 DEF HostClock, Issues, Ready, Ask, Poll, Interrupted, Collect,
       Sleeps, Waits, Wrote, Holds, Captures, host_vars, BusRead, NoAccess
  <2>3. ~Writes(bus, "DR")
    BY <2>1 DEF Writes, Commits
  <2>4. data_in' = data_in
    BY <1>0, <2>3 DEF InterfaceClock
  <2>5. CASE bus.op = "write"
    <3>1. Writes(bus, "CR")
      BY <2>1, <2>5, Zenon DEF Commits, AtRest, Writes, i_tip_reg
    <3>2. cmd' = asked.cmd /\ ack_in' = asked.ack
      BY <1>0, <1>3, <2>5, <3>1 DEF InterfaceClock, CommandInv
    <3>3. phase' = "waiting"
      BY <1>0, <2>1, <2>5, HostSteps
    <3>4. Direction' = Direction
      BY <2>4 DEF Direction
    <3> QED BY <1>3, <2>2, <2>4, <3>2, <3>3, <3>4 DEF CommandInv
  <2>6. CASE bus.op # "write"
    <3>1. ~Writes(bus, "CR")
      BY <2>6 DEF Writes
    <3>2. Commanded' => Commanded /\ cmd' = cmd /\ ack_in' = ack_in
      BY <1>0, <3>1 DEF InterfaceClock, Commanded
    <3>3. Direction' = Direction
      BY <2>4 DEF Direction
    <3>4. Commanded' => phase' = "waiting" /\ asked' = asked
      <4>1. Commanded => phase = "waiting" /\ ~irq /\ PollsTip
        BY <1>3, <2>6 DEF EndInv, AtRest, Running, Finished, Acked, Trailing, Quiet, Commits
      <4>2. Commanded => phase' = "waiting"
        BY <1>0, <4>1, HostSteps DEF PollsTip, Polls
      <4> QED BY <2>2, <3>2, <4>2
    <3> QED BY <1>3, <2>2, <2>4, <3>2, <3>3, <3>4 DEF CommandInv
  <2> QED BY <1>3, <2>2, <2>5, <2>6
<1> QED BY <1>1, <1>2, <1>3, Asking

LEMMA OutputsNext ==
  ASSUME p_state' \in CoreState, (Kind \in BitKind)'
  PROVE  i_sda_out' = IF Kind' = "wdata" THEN data_in'[i_ctr']
                      ELSE IF Kind' = "rack" THEN ack_in' ELSE 1
<1>1. CASE Kind' = "wdata"
  BY <1>1 DEF Kind, WriteData, WriteAck, ReadData, ReadAck, Starting, Stopping,
              i_sda_out, Waiting
<1>2. CASE Kind' = "wack"
  BY <1>2 DEF Kind, WriteData, WriteAck, ReadData, ReadAck, Starting, Stopping,
              i_sda_out, Waiting
<1>3. CASE Kind' = "rdata"
  BY <1>3 DEF Kind, WriteData, WriteAck, ReadData, ReadAck, Starting, Stopping,
              i_sda_out, Waiting
<1>4. CASE Kind' = "rack"
  BY <1>4 DEF Kind, WriteData, WriteAck, ReadData, ReadAck, Starting, Stopping,
              i_sda_out, Waiting
<1> QED BY <1>1, <1>2, <1>3, <1>4 DEF BitKind

\* What a bit's step starts from.
LEMMA InBit ==
  ASSUME TypeInv, EndInv, LineInv, NEW act \in BOOLEAN, Tick(act), Kind \in BitKind
  PROVE  /\ UNCHANGED <<cmd, ack_in, data_in, asked>>
         /\ phase = "waiting" /\ phase' = "waiting" /\ bus'.op # "write"
         /\ Commanded /\ Commanded' /\ ~Collected
         /\ cmd = asked.cmd /\ ack_in = asked.ack /\ data_in = asked.data
         /\ p_state \in CoreState /\ BitInv
         /\ Level \in {"first", "rising", "top", "falling", "over"}
<1>1. p_state \in CoreState
  BY DEF TypeInv, I2cTypeOK, CoreTypeOK
<1>2. Kind # "rest"
  BY DEF BitKind
<1>3. p_state \notin Resting
  BY <1>1, <1>2, Groups
<1>4. p_state \notin {"Reset", "Idle", "DoneAck"}
  BY <1>3 DEF Resting
<1>5. Level \in {"first", "rising", "top", "falling", "over"}
  BY <1>1, Groups
<1> QED BY <1>1, <1>4, <1>5, Steady DEF LineInv, AskedInv, CommandInv, SdaInv

\* A step that neither ends nor begins a bit.
LEMMA BitKeeps ==
  ASSUME TypeInv, EndInv, LineInv, NEW act \in BOOLEAN, Tick(act), Kind \in BitKind,
         UNCHANGED <<Kind, i_ctr, Taken, t_dir, t_bits, t_sda, marked>>,
         Low' \/ (Level \in {"rising", "top", "falling"}),
         Level' \in {"first", "over"} => Low',
         Level' = "rising" => (Low' /\ ~sclk') \/ Rises' \/ High',
         Level' = "top" => High',
         Level' = "falling" => (High' /\ ~sclk') \/ Falls' \/ Low',
         Level' \in {"first", "rising", "top", "falling", "over"},
         Level' = "over" => Level = "over",
         Symbol(scl, SdaLine) = <<>>
  PROVE  LineInv' /\ Emits
<1>1. /\ UNCHANGED <<cmd, ack_in, data_in, asked>>
      /\ phase' = "waiting" /\ Commanded /\ Commanded' /\ ~Collected
      /\ p_state \in CoreState /\ BitInv /\ CommandInv /\ StateInv /\ SclInv
  BY InBit DEF LineInv, AskedInv
<1>2. CommandInv'
  BY <1>1, CommandSteps
<1>e. /\ {sclk, sclk'} \subseteq BOOLEAN /\ (sclk' => clk_ctr' = 0)
      /\ scl_in' = last_scl' /\ sda_in' = last_sda' /\ last_sda' = SdaLine
      /\ sda_out' = i_sda_out /\ scl_out' = i_scl_out /\ CoreClock
  BY <1>1, Edge
<1>p. p_state' \in CoreState
  BY <1>1, <1>e, CoreSteps
<1>k. /\ Kind' \in BitKind /\ Kind' \notin {"start", "stop", "rest"}
  BY DEF BitKind
<1>s. p_state' \notin Resting \cup {"Start_A", "Reset"} \cup Starting \cup Stopping
  BY <1>k DEF Kind, Resting, Starting, Stopping, WriteData, WriteAck, ReadData, ReadAck, BitKind
<1>3. StateInv'
  BY <1>1, <1>k DEF StateInv, BitKind, LastBit
<1>4. SclInv'
  BY <1>e, <1>s DEF SclInv, Starting, Stopping
<1>5. i_sda_out' = i_sda_out
  BY <1>1, <1>p, <1>k, Outputs, OutputsNext
<1>6. BitInv'
  <2>1. Slot' = Slot /\ (LastBit <=> LastBit') /\ Direction' = Direction
    BY <1>1 DEF Slot, LastBit, Direction
  <2>2. ~Low' => last_sda' = SdaLine'
    <3>1. SUFFICES ASSUME ~Low' PROVE last_sda' = SdaLine'
      OBVIOUS
    <3>2. Level \in {"rising", "top", "falling"}
      BY <3>1
    <3>3. sda_out' = sda_out
      BY <1>1, <1>e, <3>2 DEF BitInv
    <3> QED BY <1>e, <3>3 DEF SdaLine, sda
  <2>3. t_bits' = IF ~Taken' THEN Slot' ELSE IF Slot' = DataBits THEN 0 ELSE Slot' + 1
    BY <1>1, <2>1 DEF BitInv
  <2>4. DirOK(Taken, t_dir, t_sda)'
    BY <1>1, <2>1 DEF BitInv, DirOK
  <2>5. ~marked'
    BY <1>1, Zenon DEF BitInv
  <2> QED BY <1>e, <1>5, <2>2, <2>3, <2>4, <2>5 DEF BitInv
<1>7. SdaInv'
  BY <1>6, <1>k DEF SdaInv
<1>8. Emits
  <2>1. Slot' = Slot /\ Base' = Base
    BY <1>1 DEF Slot, Base
  <2>2. /\ Sent = Base + Slot + (IF Taken THEN 1 ELSE 0)
        /\ Sent' = Base' + Slot' + (IF Taken' THEN 1 ELSE 0)
    BY <1>k, Zenon DEF Sent
  <2> QED BY <2>1, <2>2 DEF Emits
<1> QED BY <1>2, <1>3, <1>4, <1>7, <1>8 DEF LineInv, AskedInv

LEMMA BitBefore ==
  ASSUME TypeInv, EndInv, LineInv, NEW act \in BOOLEAN, Tick(act), Kind \in BitKind,
         Level \in {"first", "rising", "top"} \/ (Level = "falling" /\ High)
  PROVE  LineInv' /\ Emits
<1>1. /\ p_state \in CoreState /\ BitInv /\ StateInv /\ SclInv
  BY InBit DEF LineInv, AskedInv
<1>e. /\ {sclk, sclk'} \subseteq BOOLEAN /\ (sclk => ~sclk')
      /\ last_scl' = scl_out /\ last_sda' = SdaLine
      /\ scl_out' = i_scl_out /\ CoreClock /\ TargetClock(scl, SdaLine)
  BY <1>1, Edge
<1>o. i_scl_out = IF Level \in {"rising", "top"} THEN 1 ELSE 0
  BY <1>1, Outputs
<1>2. last_scl = 0 \/ (scl_out = 1 /\ SdaLine = last_sda)
  BY <1>1 DEF SclInv, BitInv, Low, High, Rises
<1>3. UNCHANGED <<t_dir, t_bits, t_sda, marked>> /\ Symbol(scl, SdaLine) = <<>>
  BY <1>2, <1>e, NoEvent
<1>4. /\ UNCHANGED <<Kind, i_ctr>>
      /\ Level = "first" => Level' = "first" \/ (sclk /\ Level' = "rising")
      /\ Level = "rising" => Level' = IF sclk THEN "top" ELSE "rising"
      /\ Level = "top" => Level' = "top" \/ (sclk /\ Level' = "falling")
      /\ Level = "falling" => Level' = "falling" /\ ~sclk
  <2>1. Level = "falling" => ~sclk
    BY <1>1 DEF SclInv, High, Low, Falls
  <2> QED BY <1>1, <1>e, <2>1, BitMoves
<1>5. UNCHANGED Taken
  <2>1. ~Taken
    BY DEF Taken, High, Low
  <2>2. ~Taken'
    <3>1. Level' = "falling" => last_scl' = 1
      BY <1>1, <1>4, <1>e DEF SclInv, High
    <3> QED BY <1>4, <3>1 DEF Taken, Low
  <2>3. Taken \in BOOLEAN /\ Taken' \in BOOLEAN
    BY Zenon DEF Taken
  <2> QED BY <2>1, <2>2, <2>3
<1>6. /\ Low' \/ (Level \in {"rising", "top", "falling"})
      /\ Level' \in {"first", "over"} => Low'
      /\ Level' = "rising" => (Low' /\ ~sclk') \/ Rises' \/ High'
      /\ Level' = "top" => High'
      /\ Level' = "falling" => (High' /\ ~sclk') \/ Falls' \/ Low'
      /\ Level' \in {"first", "rising", "top", "falling", "over"}
      /\ Level' = "over" => Level = "over"
  BY <1>1, <1>4, <1>e, <1>o DEF SclInv, High, Low, Rises, Falls
<1> QED BY <1>3, <1>4, <1>5, <1>6, BitKeeps

\* The bit is taken where SCL falls.
LEMMA BitTaken ==
  ASSUME TypeInv, EndInv, LineInv, NEW act \in BOOLEAN, Tick(act), Kind \in BitKind,
         Level = "falling", ~High
  PROVE  /\ Low' /\ ~marked'
         /\ t_bits' = IF Slot = DataBits THEN 0 ELSE Slot + 1
         /\ DirOK(TRUE, t_dir', t_sda')
         /\ \/ Taken /\ Symbol(scl, SdaLine) = <<>>
            \/ /\ ~Taken /\ Symbol(scl, SdaLine) = <<last_sda>>
               /\ last_sda \in Bit /\ Fits(Base + Slot + 1, last_sda)
<1>1. /\ p_state \in CoreState /\ BitInv /\ StateInv /\ SclInv
      /\ cmd = asked.cmd /\ ack_in = asked.ack /\ data_in = asked.data
  BY InBit DEF LineInv, AskedInv
<1>e. /\ last_scl' = scl_out /\ last_sda' = SdaLine
      /\ scl_out' = i_scl_out /\ CoreClock /\ TargetClock(scl, SdaLine)
  BY <1>1, Edge
<1>t. /\ i_ctr \in Bits /\ data_in \in Byte /\ ack_in \in Bit /\ sda_out \in Bit
      /\ t_sda \in Bit /\ marked \in BOOLEAN /\ last_sda \in Bit
  BY DEF TypeInv, I2cTypeOK, CoreTypeOK, InterfaceTypeOK, TargetTypeOK
<1>2. Low'
  BY <1>1, <1>e, Outputs DEF SclInv, Low, High, Falls
<1>3. CASE Low
  <2>1. UNCHANGED <<t_dir, t_bits, t_sda, marked>> /\ Symbol(scl, SdaLine) = <<>>
    BY <1>3, <1>e, NoEvent DEF Low
  <2>2. Taken
    BY <1>3 DEF Taken
  <2>3. ~marked' /\ DirOK(TRUE, t_dir', t_sda')
    <3>1. DirOK(TRUE, t_dir, t_sda)
      BY <1>1, <2>2 DEF BitInv, DirOK
    <3> QED BY <1>1, <2>1, <3>1 DEF BitInv
  <2> QED BY <1>1, <1>2, <2>1, <2>2, <2>3 DEF BitInv
<1>4. CASE ~Low
  <2>1. Falls /\ SdaLine = last_sda /\ ~Taken
    BY <1>1, <1>4 DEF SclInv, BitInv, Taken
  <2>2. t_dir # "idle" /\ t_bits = Slot /\ ~marked /\ DirOK(FALSE, t_dir, t_sda)
    BY <1>1, <2>1 DEF BitInv, DirOK, BitKind
  <2>3. ~marked' /\ TakeBit /\ Symbol(scl, SdaLine) = <<last_sda>>
    BY <1>e, <2>1, <2>2, FallEvent
  <2>4. Slot \in 0 .. DataBits /\ (Slot = DataBits <=> Kind \in {"wack", "rack"})
    BY <1>t, DataBitsAssumption DEF Slot, Bits, BitKind
  <2>5. sda_out = IF Kind = "wdata" THEN data_in[i_ctr]
                  ELSE IF Kind = "rack" THEN ack_in ELSE 1
    BY <1>1, Outputs DEF BitInv
  <2>6. Kind \in {"wdata", "rack"} => last_sda = sda_out
    BY <1>t, <2>1, <2>2 DEF DirOK, SdaLine, sda, Bit, LastBit
  <2>7. t_bits' = IF Slot = DataBits THEN 0 ELSE Slot + 1
    BY <2>2, <2>3, <2>4, DataBitsAssumption DEF TakeBit
  <2>8. DirOK(TRUE, t_dir', t_sda')
    <3>1. CASE Kind = "wdata" /\ ~LastBit
      <4>1. t_bits + 1 < DataBits /\ t_bits + 1 # DataBits
        BY <1>t, <2>2, <3>1, DataBitsAssumption DEF Slot, LastBit, Bits
      <4>2. t_dir' = t_dir /\ t_sda' = 1
        BY <2>2, <2>3, <3>1, <4>1 DEF TakeBit, DirOK
      <4> QED BY <2>2, <3>1, <4>2 DEF DirOK
    <3>2. CASE Kind = "wdata" /\ LastBit
      <4>1. t_bits + 1 = DataBits
        BY <1>t, <2>2, <3>2, DataBitsAssumption DEF Slot, LastBit, Bits
      <4>2. t_dir' = IF t_dir # "addressed" THEN t_dir
                     ELSE IF last_sda = 1 THEN "tx" ELSE "rx"
        BY <2>3, <4>1 DEF TakeBit
      <4>3. last_sda = Direction
        BY <2>5, <2>6, <3>2 DEF LastBit, Direction
      <4> QED BY <2>2, <3>2, <4>2, <4>3 DEF DirOK
    <3>3. CASE Kind \in {"wack", "rack"}
      <4>1. /\ t_dir' = IF last_sda = 1 THEN "off" ELSE t_dir
            /\ t_sda' \in IF t_dir' = "tx" THEN {0, 1} ELSE {1}
        BY <2>2, <2>3, <2>4, <3>3, DataBitsAssumption DEF TakeBit
      <4>2. Kind = "rack" /\ ack_in = 1 => t_dir' = "off"
        BY <2>5, <2>6, <4>1
      <4> QED BY <2>2, <3>3, <4>1, <4>2 DEF DirOK
    <3>4. CASE Kind = "rdata" /\ ~LastBit
      <4>1. t_bits + 1 < DataBits /\ t_bits + 1 # DataBits
        BY <1>t, <2>2, <3>4, DataBitsAssumption DEF Slot, LastBit, Bits
      <4>2. t_dir' = t_dir /\ t_sda' \in IF t_dir = "tx" THEN {0, 1} ELSE {1}
        BY <2>3, <4>1 DEF TakeBit
      <4> QED BY <2>2, <3>4, <4>2 DEF DirOK
    <3>5. CASE Kind = "rdata" /\ LastBit
      <4>1. t_bits + 1 = DataBits
        BY <1>t, <2>2, <3>5, DataBitsAssumption DEF Slot, LastBit, Bits
      <4>2. /\ t_dir' = IF t_dir # "addressed" THEN t_dir
                        ELSE IF last_sda = 1 THEN "tx" ELSE "rx"
            /\ t_sda' \in IF t_dir \in {"addressed", "rx"} THEN {0, 1} ELSE {1}
        BY <2>3, <4>1 DEF TakeBit
      <4> QED BY <2>2, <3>5, <4>2 DEF DirOK
    <3> QED BY <3>1, <3>2, <3>3, <3>4, <3>5 DEF BitKind
  <2>9. Fits(Base + Slot + 1, last_sda)
    <3>0. Base \in Nat
      BY DEF Base
    <3>1. CASE Kind \in {"wdata", "rdata"}
      <4>1. Slot = i_ctr /\ Slot < DataBits /\ Slot \in Nat
        BY <1>t, <3>1, DataBitsAssumption DEF Slot, Bits
      <4>2. "write" \in asked.cmd => Kind = "wdata"
        BY <1>1, <3>1 DEF StateInv
      <4>3. Base + Slot + 1 - Base - 1 = i_ctr
        BY <3>0, <4>1
      <4> QED BY <1>1, <1>t, <2>5, <2>6, <3>0, <4>1, <4>2, <4>3, DataBitsAssumption DEF Fits
    <3>2. CASE Kind \in {"wack", "rack"}
      <4>1. Slot = DataBits
        BY <3>2 DEF Slot
      <4>2. "write" \in asked.cmd <=> Kind = "wack"
        BY <1>1, <3>2 DEF StateInv
      <4> QED BY <1>1, <1>t, <2>5, <2>6, <3>0, <3>2, <4>1, <4>2, DataBitsAssumption DEF Fits
    <3> QED BY <3>1, <3>2 DEF BitKind
  <2> QED BY <1>2, <1>t, <2>1, <2>3, <2>7, <2>8, <2>9
<1> QED BY <1>3, <1>4

\* Into a state of a bit in which SCL is low.
LEMMA BitLow ==
  ASSUME TypeInv, EndInv, LineInv, NEW act \in BOOLEAN, Tick(act),
         Commanded, p_state # "DoneAck",
         Kind' \in BitKind, Level' \in {"first", "falling", "over"},
         Level' = "falling" => Level = "falling" /\ UNCHANGED <<Kind, i_ctr>>,
         StateInv', Low', ~marked',
         t_bits' = IF ~Taken' THEN Slot' ELSE IF Slot' = DataBits THEN 0 ELSE Slot' + 1,
         DirOK(Taken, t_dir, t_sda)'
  PROVE  LineInv'
<1>1. /\ UNCHANGED <<cmd, ack_in, data_in, asked>> /\ CommandInv /\ SclInv /\ SdaInv
  BY Steady DEF LineInv, AskedInv
<1>e. /\ {sclk, sclk'} \subseteq BOOLEAN /\ (sclk' => clk_ctr' = 0)
      /\ scl_in' = last_scl' /\ sda_in' = last_sda'
      /\ sda_out' = i_sda_out /\ CoreClock /\ p_state \in CoreState
  BY <1>1, Edge
<1>2. CommandInv'
  BY <1>1, CommandSteps
<1>p. p_state' \in CoreState
  BY <1>e, CoreSteps
<1>k. /\ Kind' \in BitKind /\ Kind' \notin {"start", "stop", "rest"}
  BY DEF BitKind
<1>s. p_state' \notin Resting \cup {"Start_A", "Reset"} \cup Starting \cup Stopping
  BY <1>k DEF Kind, Resting, Starting, Stopping, WriteData, WriteAck, ReadData, ReadAck, BitKind
<1>3. SclInv'
  BY <1>e, <1>s DEF SclInv, Starting, Stopping
<1>4. Level' = "falling" => sda_out' = i_sda_out'
  BY <1>1, <1>e, <1>p, <1>k, Outputs, OutputsNext
<1>5. BitInv'
  BY <1>4 DEF BitInv
<1> QED BY <1>2, <1>3, <1>5, <1>k DEF LineInv, AskedInv, SdaInv

\* How many symbols are out in a state of a bit.
LEMMA SentInBit ==
         /\ Kind \in BitKind => Sent = Base + Slot + (IF Taken THEN 1 ELSE 0)
         /\ (Kind \in BitKind)' => Sent' = Base' + Slot' + (IF Taken' THEN 1 ELSE 0)
BY Zenon DEF Sent

LEMMA BitOver ==
  ASSUME TypeInv, EndInv, LineInv, NEW act \in BOOLEAN, Tick(act), Kind \in BitKind,
         Level = "over"
  PROVE  LineInv' /\ Emits
<1>1. /\ UNCHANGED <<cmd, ack_in, data_in, asked>> /\ Commanded
      /\ p_state \in CoreState /\ BitInv /\ StateInv /\ SclInv
  BY InBit DEF LineInv, AskedInv
<1>e. /\ last_scl' = scl_out /\ scl_out' = i_scl_out
      /\ CoreClock /\ TargetClock(scl, SdaLine)
  BY <1>1, Edge
<1>t. i_ctr \in Bits
  BY DEF TypeInv, I2cTypeOK, CoreTypeOK
<1>2. Low /\ Low'
  BY <1>1, <1>e, Outputs DEF SclInv, Low
<1>3. UNCHANGED <<t_dir, t_bits, t_sda, marked>> /\ Symbol(scl, SdaLine) = <<>>
  BY <1>2, <1>e, NoEvent DEF Low
<1>4. /\ Kind' = Kind /\ Level' = "first" /\ i_ctr' = (i_ctr + 1) % DataBits
      /\ Kind \in {"wdata", "rdata"} /\ ~LastBit
  BY <1>1, <1>e, BitMoves, Groups DEF StateInv
<1>5. i_ctr' = i_ctr + 1
  BY <1>4, <1>t, DataBitsAssumption DEF Bits, LastBit
<1>6. /\ Taken /\ ~Taken' /\ Slot = i_ctr /\ Slot' = i_ctr + 1 /\ Slot # DataBits
      /\ Base' = Base /\ Direction' = Direction /\ Base \in Nat
  BY <1>1, <1>4, <1>5, <1>t, DataBitsAssumption DEF Taken, Slot, Base, Direction, Bits
<1>7. StateInv'
  BY <1>1, <1>4 DEF StateInv
<1>8. DirOK(Taken, t_dir, t_sda)'
  BY <1>1, <1>3, <1>4, <1>6 DEF BitInv, DirOK
<1>9. /\ ~marked'
      /\ t_bits' = IF ~Taken' THEN Slot' ELSE IF Slot' = DataBits THEN 0 ELSE Slot' + 1
  BY <1>1, <1>3, <1>6 DEF BitInv
<1>10. p_state # "DoneAck"
  BY <1>4 DEF Kind, WriteData, ReadData, WriteAck, ReadAck, Starting, Stopping
<1>11. LineInv'
  BY <1>1, <1>2, <1>4, <1>7, <1>8, <1>9, <1>10, BitLow
<1>12. Sent' = Sent
  BY <1>4, <1>6, <1>t, DataBitsAssumption, SentInBit DEF Bits
<1> QED BY <1>3, <1>11, <1>12 DEF Emits

\* The end of a bit, and of the last one: of the byte, of the command.
LEMMA BitAfter ==
  ASSUME TypeInv, EndInv, LineInv, NEW act \in BOOLEAN, Tick(act), Kind \in BitKind,
         Level = "falling", ~High
  PROVE  LineInv' /\ Emits
<1>1. /\ UNCHANGED <<cmd, ack_in, data_in, asked>> /\ Commanded /\ ~Collected
      /\ p_state \in CoreState /\ BitInv /\ StateInv /\ SclInv
      /\ cmd = asked.cmd /\ ack_in = asked.ack /\ CommandInv
      /\ phase = "waiting" /\ phase' = "waiting"
  BY InBit DEF LineInv, AskedInv
<1>e. /\ {sclk, sclk'} \subseteq BOOLEAN /\ (sclk' => clk_ctr' = 0) /\ CoreClock
      /\ scl_in' = last_scl' /\ sda_in' = last_sda'
  BY <1>1, Edge
<1>t. i_ctr \in Bits /\ i_ctr \in Nat /\ DataBits \in Nat
  BY DataBitsAssumption DEF TypeInv, I2cTypeOK, CoreTypeOK, Bits
<1>2. /\ Low' /\ ~marked'
      /\ t_bits' = IF Slot = DataBits THEN 0 ELSE Slot + 1
      /\ DirOK(TRUE, t_dir', t_sda')
      /\ \/ Taken /\ Symbol(scl, SdaLine) = <<>>
         \/ /\ ~Taken /\ Symbol(scl, SdaLine) = <<last_sda>>
            /\ last_sda \in Bit /\ Fits(Base + Slot + 1, last_sda)
  BY BitTaken
<1>b. /\ Base' = Base /\ Total' = Total /\ Base \in Nat /\ Direction' = Direction
      /\ Slot \in Nat /\ Slot <= DataBits /\ Total \in Nat /\ Base + Slot < Total
  BY <1>1, <1>t, DataBitsAssumption DEF Base, Total, Direction, Slot, Bits
<1>d. p_state # "DoneAck"
  BY DEF Level
<1>s. Sent' = Base + Slot + 1 => Emits
  <2>1. Sent = Base + Slot + (IF Taken THEN 1 ELSE 0)
    BY SentInBit
  <2>2. last_sda \in Bit => last_sda \in Symbols
    BY DEF Symbols
  <2> QED BY <1>2, <1>b, <2>1, <2>2 DEF Emits
<1>c. CommandInv'
  BY <1>1, CommandSteps
<1>3. CASE ~sclk
  <2>1. UNCHANGED <<Kind, Level, i_ctr>>
    BY <1>1, <1>e, <1>3, BitMoves
  <2>2. Slot' = Slot /\ Taken' /\ StateInv' /\ (LastBit <=> LastBit')
    BY <1>1, <1>2, <2>1 DEF Slot, Taken, StateInv, LastBit, BitKind
  <2>3. DirOK(Taken, t_dir, t_sda)'
    BY <1>1, <1>2, <1>b, <2>1, <2>2 DEF DirOK
  <2>4. LineInv'
    BY <1>1, <1>2, <1>d, <2>1, <2>2, <2>3, BitLow
  <2>5. Sent' = Base + Slot + 1
    BY <1>b, <2>1, <2>2, SentInBit
  <2> QED BY <1>s, <2>4, <2>5
<1>4. CASE sclk /\ Kind \in {"wdata", "rdata"} /\ ~LastBit
  <2>1. Kind' = Kind /\ Level' = "over" /\ i_ctr' = i_ctr
    BY <1>1, <1>e, <1>4, BitMoves
  <2>2. Slot' = Slot /\ Taken' /\ StateInv' /\ ~LastBit' /\ Slot = i_ctr
    BY <1>1, <1>4, <2>1 DEF Slot, Taken, StateInv, LastBit, BitKind
  <2>3. DirOK(Taken, t_dir, t_sda)'
    BY <1>1, <1>2, <1>b, <1>4, <2>1, <2>2 DEF DirOK
  <2>4. LineInv'
    BY <1>1, <1>2, <1>d, <2>1, <2>2, <2>3, BitLow
  <2>5. Sent' = Base + Slot + 1
    BY <1>b, <2>1, <2>2, SentInBit
  <2> QED BY <1>s, <2>4, <2>5
<1>5. CASE sclk /\ Kind \in {"wdata", "rdata"} /\ LastBit
  <2>1. /\ Kind = "wdata" => Kind' = "wack"
        /\ Kind = "rdata" => Kind' = "rack"
        /\ Level' = "first" /\ i_ctr' = i_ctr
    BY <1>1, <1>e, <1>5, BitMoves
  <2>2. /\ Slot' = DataBits /\ ~Taken' /\ StateInv' /\ LastBit' /\ Slot + 1 = DataBits
        /\ Kind' \in BitKind
    BY <1>1, <1>t, <1>5, <2>1 DEF Slot, Taken, StateInv, LastBit, BitKind
  <2>3. DirOK(Taken, t_dir, t_sda)'
    BY <1>1, <1>2, <1>b, <1>5, <2>1, <2>2 DEF DirOK
  <2>4. LineInv'
    BY <1>1, <1>2, <1>b, <1>t, <1>d, <2>1, <2>2, <2>3, BitLow
  <2>5. Sent' = Base + Slot + 1
    BY <1>b, <1>t, <2>1, <2>2, SentInBit
  <2> QED BY <1>s, <2>4, <2>5
<1>6. CASE sclk /\ Kind \in {"wack", "rack"}
  <2>1. /\ p_state' = IF "stop" \in cmd THEN "Stop_A" ELSE "Done"
        /\ Slot = DataBits /\ t_bits' = 0
    BY <1>1, <1>e, <1>2, <1>6, BitMoves DEF IfStop, Slot
  <2>2. CASE "stop" \in cmd
    <3>1. p_state' = "Stop_A" /\ Kind' = "stop" /\ Level' = "none"
      BY <2>1, <2>2 DEF Kind, Level, WriteData, WriteAck, ReadData, ReadAck, Starting,
         Stopping
    <3>2. StateInv'
      BY <1>1, <2>2, <3>1 DEF StateInv
    <3>3. SclInv'
      BY <1>e, <1>2, <3>1 DEF SclInv, Resting
    <3>4. t_sda' = 1 /\ t_dir' # "idle"
      <4>1. Kind = "wack" => t_dir' # "tx"
        BY <1>1, <1>2, <2>2 DEF DirOK, CommandInv
      <4>2. Kind = "rack" => ack_in = 1
        BY <1>1, <2>2 DEF StateInv, CommandInv, Commanded
      <4> QED BY <1>2, <1>6, <4>1, <4>2 DEF DirOK
    <3>5. StopInv'
      BY <1>2, <2>1, <3>1, <3>4 DEF StopInv
    <3>6. LineInv'
      BY <1>c, <3>1, <3>2, <3>3, <3>5 DEF LineInv, AskedInv, SdaInv, BitKind
    <3>7. Sent' = Base' + DataBits + 1
      BY <3>1 DEF Sent, BitKind
    <3> QED BY <1>s, <1>b, <2>1, <3>6, <3>7
  <2>3. CASE "stop" \notin cmd
    <3>1. p_state' = "Done" /\ Kind' = "rest" /\ Level' = "none"
      BY <2>1, <2>3 DEF Kind, Level, WriteData, WriteAck, ReadData, ReadAck, Starting,
         Stopping
    <3>2. StateInv'
      BY <3>1 DEF StateInv
    <3>3. SclInv'
      BY <1>e, <1>2, <3>1 DEF SclInv, Resting
    <3>4. RestInv'
      BY <1>2, <1>6, <2>1, <3>1 DEF RestInv, DirOK, Free, High, Low
    <3>5. LineInv'
      BY <1>c, <3>1, <3>2, <3>3, <3>4 DEF LineInv, AskedInv, SdaInv, BitKind
    <3>6. Sent' = Base' + DataBits + 1
      BY <1>1, <1>t, <1>b, <2>3, <3>1 DEF Sent, BitKind, Total
    <3> QED BY <1>s, <1>b, <2>1, <3>5, <3>6
  <2> QED BY <2>2, <2>3
<1> QED BY <1>e, <1>3, <1>4, <1>5, <1>6 DEF BitKind

LEMMA BitSteps ==
  ASSUME TypeInv, EndInv, LineInv, NEW act \in BOOLEAN, Tick(act), Kind \in BitKind
  PROVE  LineInv' /\ Emits
BY InBit, BitBefore, BitOver, BitAfter

-----------------------------------------------------------------------------
(* START and STOP.                                                         *)

\* What a step inside of a command, but outside of a bit, starts from.
LEMMA InCommand ==
  ASSUME TypeInv, EndInv, LineInv, NEW act \in BOOLEAN, Tick(act),
         Commanded, p_state # "DoneAck"
  PROVE  /\ UNCHANGED <<cmd, ack_in, data_in, asked>> /\ ~Collected
         /\ phase = "waiting" /\ phase' = "waiting"
         /\ cmd = asked.cmd /\ CommandInv' /\ Base' = Base /\ Total' = Total
         /\ {sclk, sclk'} \subseteq BOOLEAN /\ (sclk => ~sclk') /\ (sclk' => clk_ctr' = 0)
         /\ scl_in = last_scl /\ sda_in = last_sda
         /\ scl_in' = scl_out /\ last_scl' = scl_out
         /\ sda_in' = SdaLine /\ last_sda' = SdaLine
         /\ sda_out' = i_sda_out /\ scl_out' = i_scl_out
         /\ CoreClock /\ TargetClock(scl, SdaLine) /\ p_state \in CoreState
         /\ StateInv /\ SclInv
<1>1. CommandInv /\ StateInv /\ SclInv
  BY DEF LineInv, AskedInv
<1>2. /\ UNCHANGED <<cmd, ack_in, data_in, asked>> /\ ~Collected
      /\ phase = "waiting" /\ phase' = "waiting" /\ Commanded
  BY Steady
<1>3. cmd = asked.cmd /\ CommandInv' /\ Base' = Base /\ Total' = Total
  BY <1>1, <1>2, CommandSteps DEF CommandInv, Base, Total
<1> QED BY <1>1, <1>2, <1>3, Edge

LEMMA KindOf ==
  /\ p_state \in Resting => Kind = "rest" /\ Level = "none"
  /\ p_state \in Starting => Kind = "start" /\ Level = "none"
  /\ p_state \in Stopping => Kind = "stop" /\ Level = "none"
  /\ p_state = "Wr_A" => Kind = "wdata" /\ Level = "first"
  /\ p_state = "Rd_A" => Kind = "rdata" /\ Level = "first"
BY DEF Kind, Level, Resting, Starting, Stopping, WriteData, WriteAck, ReadData, ReadAck
LEMMA KindNext ==
  /\ p_state' \in Resting => Kind' = "rest" /\ Level' = "none"
  /\ p_state' \in Starting => Kind' = "start" /\ Level' = "none"
  /\ p_state' \in Stopping => Kind' = "stop" /\ Level' = "none"
  /\ p_state' = "Wr_A" => Kind' = "wdata" /\ Level' = "first"
  /\ p_state' = "Rd_A" => Kind' = "rdata" /\ Level' = "first"
BY DEF Kind, Level, Resting, Starting, Stopping, WriteData, WriteAck, ReadData, ReadAck

\* Into the first state of a byte.
LEMMA ByteBegins ==
  ASSUME TypeInv, EndInv, LineInv, NEW act \in BOOLEAN, Tick(act),
         Commanded, p_state # "DoneAck", p_state' = Transfer, i_ctr' = 0,
         Low', ~marked', t_bits' = 0,
         IF "write" \in cmd
         THEN /\ IF "start" \in cmd THEN t_dir' = "addressed" ELSE t_dir' \in {"rx", "off"}
              /\ t_sda' = 1
         ELSE t_dir' \in {"tx", "off"} /\ (t_dir' # "tx" => t_sda' = 1)
  PROVE  LineInv' /\ Sent' = Base
<1>1. cmd' = cmd /\ Base' = Base /\ Base \in Nat
  BY InCommand DEF Base
<1>2. /\ Kind' = IF "write" \in cmd THEN "wdata" ELSE "rdata"
      /\ Kind' \in BitKind /\ Level' = "first"
  BY KindNext DEF Transfer, BitKind
<1>3. Slot' = 0 /\ ~Taken' /\ DataBits # 0
  BY <1>2, DataBitsAssumption DEF Slot, Taken
<1>4. StateInv'
  BY <1>1, <1>2 DEF StateInv
<1>5. DirOK(Taken, t_dir, t_sda)'
  BY <1>1, <1>2, <1>3 DEF DirOK
<1>6. LineInv'
  BY <1>2, <1>3, <1>4, <1>5, BitLow
<1>7. Sent' = Base
  BY <1>1, <1>2, <1>3, SentInBit
<1> QED BY <1>6, <1>7

LEMMA StartSteps ==
  ASSUME TypeInv, EndInv, LineInv, NEW act \in BOOLEAN, Tick(act), Kind = "start"
  PROVE  LineInv' /\ Emits
<1>0. p_state \in Starting /\ p_state # "DoneAck" /\ Commanded
  <2>1. p_state \in CoreState
    BY DEF TypeInv, I2cTypeOK, CoreTypeOK
  <2>2. p_state \in Starting
    BY <2>1, Groups
  <2> QED BY <2>2, Steady DEF Starting
<1>1. /\ cmd' = cmd /\ cmd = asked.cmd /\ CommandInv' /\ Base' = Base /\ CoreClock
      /\ Total' = Total
      /\ {sclk, sclk'} \subseteq BOOLEAN /\ (sclk => ~sclk') /\ (sclk' => clk_ctr' = 0)
      /\ scl_in = last_scl /\ sda_in = last_sda
      /\ scl_in' = last_scl' /\ last_scl' = scl_out
      /\ sda_in' = last_sda' /\ last_sda' = SdaLine
      /\ sda_out' = i_sda_out /\ scl_out' = i_scl_out
      /\ TargetClock(scl, SdaLine) /\ StateInv /\ SclInv
  BY <1>0, InCommand
<1>2. StartInv /\ "start" \in cmd /\ i_ctr = 0 /\ t_sda = 1 /\ i_ctr' = 0
      /\ SdaLine = IF sda_out = 1 THEN 1 ELSE 0
  <2>1. StartInv
    BY DEF LineInv, SdaInv
  <2>2. p_state \in CoreState
    BY DEF TypeInv, I2cTypeOK, CoreTypeOK
  <2> QED BY <1>0, <1>1, <2>1, <2>2, OtherMoves DEF StateInv, StartInv, SdaLine, sda
<1>m. /\ p_state = "Start_A"
         => /\ i_scl_out = scl_in /\ i_sda_out = 1
            /\ p_state' = IF sclk THEN "Start_B" ELSE "Start_A"
      /\ p_state = "Start_B"
         => /\ i_scl_out = 1 /\ i_sda_out = 1
            /\ p_state' = IF sclk THEN "Start_C" ELSE "Start_B"
      /\ p_state = "Start_C"
         => /\ i_scl_out = 1 /\ i_sda_out = 0
            /\ p_state' = IF sclk THEN "Start_D" ELSE "Start_C"
      /\ p_state = "Start_D"
         => /\ i_scl_out = 0 /\ i_sda_out = 0
            /\ p_state' = IF sclk THEN Transfer ELSE "Start_D"
  <2>1. p_state \in CoreState
    BY DEF TypeInv, I2cTypeOK, CoreTypeOK
  <2> QED BY <1>0, <1>1, <2>1, OtherMoves
<1>l. p_state' \in Starting /\ SclInv' /\ StartInv' => LineInv'
  <2> SUFFICES ASSUME p_state' \in Starting, SclInv', StartInv' PROVE LineInv'
    OBVIOUS
  <2>1. Kind' = "start" /\ Level' = "none"
    BY KindNext
  <2>2. StateInv'
    BY <1>1, <1>2, <2>1 DEF StateInv
  <2> QED BY <1>1, <2>1, <2>2 DEF LineInv, AskedInv, SdaInv, BitKind
<1>b. Base = 1 /\ Total \in Nat /\ Total > 1 /\ Base + DataBits + 1 # 1
      /\ DataBits \in Nat
  BY <1>1, <1>2, DataBitsAssumption DEF Base, Total
<1>s. /\ p_state \in {"Start_A", "Start_B"} => Sent = 0
      /\ p_state = "Start_C" => Sent = 1 - last_sda
      /\ p_state = "Start_D" => Sent = 1
      /\ p_state' \in {"Start_A", "Start_B"} => Sent' = 0
      /\ p_state' = "Start_C" => Sent' = 1 - last_sda'
      /\ p_state' = "Start_D" => Sent' = 1
  <2>1. /\ p_state \in Starting => ~(Kind \in BitKind)
        /\ p_state' \in Starting => ~(Kind' \in BitKind)
    BY KindOf, KindNext DEF BitKind
  <2> QED BY <2>1 DEF Sent, Starting
<1>3. CASE p_state \in {"Start_A", "Start_B"}
  <2>1. UNCHANGED <<t_dir, t_bits, t_sda, marked>> /\ Symbol(scl, SdaLine) = <<>>
    <3>1. last_scl = 0 \/ (scl_out = 1 /\ SdaLine = last_sda)
      BY <1>1, <1>2, <1>3 DEF SclInv, StartInv, Low, High, Rises
    <3> QED BY <1>1, <3>1, NoEvent
  <2>2. CASE p_state = "Start_A"
    <3>1. StartInv'
      BY <1>1, <1>2, <1>m, <2>1, <2>2 DEF StartInv, SclInv, Low, High, Resting
    <3>2. SclInv'
      BY <1>1, <1>m, <2>2 DEF SclInv, Low, High, Rises, Resting, Level
    <3> QED BY <1>l, <1>m, <1>s, <2>1, <2>2, <3>1, <3>2 DEF Starting, Emits
  <2>3. CASE p_state = "Start_B"
    <3>1. StartInv'
      BY <1>1, <1>2, <1>m, <2>1, <2>3 DEF StartInv, SclInv, Low, High, Rises
    <3>2. SclInv'
      BY <1>1, <1>m, <2>3 DEF SclInv, Low, High, Rises, Resting, Level
    <3>3. p_state' = "Start_C" => last_sda' = 1
      BY <1>1, <1>2, <2>3 DEF StartInv
    <3> QED BY <1>l, <1>m, <1>s, <2>1, <2>3, <3>1, <3>2, <3>3 DEF Starting, Emits
  <2> QED BY <1>3, <2>2, <2>3
<1>4. CASE p_state = "Start_C"
  <2>0. /\ High /\ High' /\ sda_out' = 0
        /\ p_state' = IF sclk THEN "Start_D" ELSE "Start_C"
    BY <1>1, <1>m, <1>4 DEF SclInv, High
  <2>1. SclInv'
    BY <1>1, <2>0 DEF SclInv, Resting, Level
  <2>2. CASE sda_out = 1 /\ last_sda = 1 /\ ~sclk
    <3>1. UNCHANGED <<t_dir, t_bits, t_sda, marked>> /\ Symbol(scl, SdaLine) = <<>>
      BY <1>1, <1>2, <2>0, <2>2, NoEvent DEF High
    <3>2. StartInv'
      BY <1>1, <1>2, <2>0, <2>2, <3>1 DEF StartInv
    <3> QED BY <1>1, <1>2, <1>4, <1>l, <1>s, <2>0, <2>1, <2>2, <3>1, <3>2
            DEF Starting, Emits
  <2>3. CASE sda_out = 0 /\ last_sda = 1
    <3>1. /\ marked' /\ t_dir' = "addressed" /\ t_bits' = 0 /\ t_sda' = 1
          /\ Symbol(scl, SdaLine) = <<START>>
      BY <1>1, <1>2, <2>0, <2>3, StartEvent
    <3>2. StartInv'
      BY <1>1, <1>2, <2>0, <2>3, <3>1 DEF StartInv, High, Low
    <3>3. Sent = 0 /\ Sent' = 1
      BY <1>1, <1>2, <1>4, <1>s, <2>0, <2>3
    <3>4. Fits(1, START) /\ START \in Symbols
      BY <1>b DEF Fits, Symbols
    <3> QED BY <1>b, <1>l, <2>0, <2>1, <3>1, <3>2, <3>3, <3>4 DEF Starting, Emits
  <2>4. CASE sda_out = 0 /\ last_sda = 0 /\ marked /\ t_dir = "addressed" /\ t_bits = 0
    <3>1. UNCHANGED <<t_dir, t_bits, t_sda, marked>> /\ Symbol(scl, SdaLine) = <<>>
      BY <1>1, <1>2, <2>0, <2>4, NoEvent DEF High
    <3>2. StartInv'
      BY <1>1, <1>2, <2>0, <2>4, <3>1 DEF StartInv, High, Low
    <3> QED BY <1>1, <1>2, <1>4, <1>l, <1>s, <2>0, <2>1, <2>4, <3>1, <3>2
            DEF Starting, Emits
  <2> QED BY <1>2, <1>4, <2>2, <2>3, <2>4 DEF StartInv
<1>5. CASE p_state = "Start_D"
  <2>1. /\ UNCHANGED <<t_dir, t_bits, t_sda>> /\ Symbol(scl, SdaLine) = <<>>
        /\ IF High THEN marked' ELSE ~marked'
    <3>1. CASE High
      <4>1. SdaLine = last_sda /\ marked
        BY <1>2, <1>5, <3>1 DEF StartInv, High, Low
      <4> QED BY <1>1, <3>1, <4>1, NoEvent DEF High
    <3>2. CASE Falls
      <4>1. SdaLine = last_sda /\ marked /\ ~High
        BY <1>2, <1>5, <3>2 DEF StartInv, Falls, Low, High
      <4> QED BY <1>1, <3>2, <4>1, FallEvent
    <3>3. CASE Low
      <4>1. last_scl = 0 /\ ~marked /\ ~High
        BY <1>2, <1>5, <3>3 DEF StartInv, Low, High
      <4> QED BY <1>1, <4>1, NoEvent
    <3> QED BY <1>1, <1>5, <3>1, <3>2, <3>3 DEF SclInv
  <2>2. /\ sda_out' = 0 /\ scl_out' = 0 /\ (High => Falls') /\ (~High => Low')
        /\ (High => ~sclk) /\ t_dir = "addressed" /\ t_bits = 0
        /\ (~Low => last_sda' = 0)
    BY <1>1, <1>2, <1>5, <1>m DEF SclInv, StartInv, High, Falls, Low
  <2>3. CASE ~sclk
    <3>1. p_state' = "Start_D"
      BY <1>5, <1>m, <2>3
    <3>2. SclInv'
      BY <1>1, <2>2, <3>1 DEF SclInv, Resting, Level
    <3>3. StartInv'
      <4>1. Falls' => ~Low'
        BY DEF Falls, Low
      <4>2. High => last_sda' = 0
        BY <2>2 DEF High, Low
      <4> QED BY <1>2, <2>1, <2>2, <3>1, <4>1, <4>2 DEF StartInv
    <3> QED BY <1>5, <1>l, <1>s, <2>1, <3>1, <3>2, <3>3 DEF Starting, Emits
  <2>4. CASE sclk
    <3>1. p_state' = Transfer /\ Low' /\ ~marked' /\ "write" \in cmd
      <4>1. "write" \in cmd
        <5>1. phase = "waiting" /\ CommandInv
          BY <1>0, InCommand DEF LineInv, AskedInv
        <5> QED BY <1>1, <1>2, <5>1 DEF CommandInv
      <4> QED BY <1>5, <1>m, <2>1, <2>2, <2>4, <4>1
    <3>2. LineInv' /\ Sent' = Base
      BY <1>0, <1>2, <2>1, <2>2, <3>1, ByteBegins
    <3> QED BY <1>5, <1>b, <1>s, <2>1, <3>2 DEF Emits
  <2> QED BY <1>1, <2>3, <2>4
<1> QED BY <1>0, <1>3, <1>4, <1>5 DEF Starting

LEMMA StopSteps ==
  ASSUME TypeInv, EndInv, LineInv, NEW act \in BOOLEAN, Tick(act), Kind = "stop"
  PROVE  LineInv' /\ Emits
<1>t. p_state \in CoreState
  BY DEF TypeInv, I2cTypeOK, CoreTypeOK
<1>0. p_state \in Stopping /\ p_state # "DoneAck" /\ Commanded
  <2>1. p_state \in Stopping
    BY <1>t, Groups
  <2> QED BY <2>1, Steady DEF Stopping
<1>1. /\ cmd' = cmd /\ cmd = asked.cmd /\ CommandInv' /\ Base' = Base /\ CoreClock
      /\ Total' = Total
      /\ {sclk, sclk'} \subseteq BOOLEAN /\ (sclk => ~sclk') /\ (sclk' => clk_ctr' = 0)
      /\ scl_in' = last_scl' /\ last_scl' = scl_out
      /\ sda_in' = last_sda' /\ last_sda' = SdaLine
      /\ sda_out' = i_sda_out /\ scl_out' = i_scl_out
      /\ TargetClock(scl, SdaLine) /\ StateInv /\ SclInv
  BY <1>0, InCommand
<1>2. StopInv /\ "stop" \in cmd /\ t_sda = 1 /\ SdaLine = IF sda_out = 1 THEN 1 ELSE 0
  <2>1. StopInv
    BY DEF LineInv, SdaInv
  <2> QED BY <1>1, <2>1 DEF StateInv, StopInv, SdaLine, sda
<1>m. /\ p_state = "Stop_A"
         => /\ i_scl_out = 0 /\ i_sda_out = 0
            /\ p_state' = IF sclk THEN "Stop_B" ELSE "Stop_A"
      /\ p_state = "Stop_B"
         => /\ i_scl_out = 1 /\ i_sda_out = 0
            /\ p_state' = IF sclk THEN "Stop_C" ELSE "Stop_B"
      /\ p_state = "Stop_C"
         => /\ i_scl_out = 1 /\ i_sda_out = 1
            /\ p_state' = IF sclk THEN "Done" ELSE "Stop_C"
  BY <1>t, <1>1, OtherMoves
<1>l. p_state' \in Stopping /\ SclInv' /\ StopInv' => LineInv'
  <2> SUFFICES ASSUME p_state' \in Stopping, SclInv', StopInv' PROVE LineInv'
    OBVIOUS
  <2>1. Kind' = "stop" /\ Level' = "none"
    BY KindNext
  <2>2. StateInv'
    BY <1>1, <1>2, <2>1 DEF StateInv
  <2> QED BY <1>1, <2>1, <2>2 DEF LineInv, AskedInv, SdaInv, BitKind
<1>d. p_state' = "Done" /\ SclInv' /\ RestInv' => LineInv'
  <2> SUFFICES ASSUME p_state' = "Done", SclInv', RestInv' PROVE LineInv'
    OBVIOUS
  <2>1. Kind' = "rest" /\ Level' = "none"
    BY KindNext DEF Resting
  <2>2. StateInv'
    BY <2>1 DEF StateInv
  <2> QED BY <1>1, <2>1, <2>2 DEF LineInv, AskedInv, SdaInv, BitKind
<1>b. /\ Base \in {0, 1} /\ Total = Base + DataBits + 2 /\ DataBits \in Nat \ {0}
  BY <1>1, <1>2, DataBitsAssumption DEF Base, Total
<1>s. /\ p_state \in {"Stop_A", "Stop_B"} => Sent = Base + DataBits + 1
      /\ p_state = "Stop_C" => Sent = Base + DataBits + 1 + last_sda
      /\ p_state' \in {"Stop_A", "Stop_B"} => Sent' = Base + DataBits + 1
      /\ p_state' = "Stop_C" => Sent' = Base + DataBits + 1 + last_sda'
      /\ p_state' = "Done" => Sent' = Base + DataBits + 2
  <2>1. /\ p_state \in Stopping => ~(Kind \in BitKind)
        /\ p_state' \in Stopping \cup {"Done"} => ~(Kind' \in BitKind)
    BY KindOf, KindNext DEF BitKind, Resting
  <2> QED BY <1>1, <1>b, <2>1 DEF Sent, Stopping
<1>3. CASE p_state \in {"Stop_A", "Stop_B"}
  <2>1. UNCHANGED <<t_dir, t_bits, t_sda, marked>> /\ Symbol(scl, SdaLine) = <<>>
    <3>1. last_scl = 0 \/ (scl_out = 1 /\ SdaLine = last_sda)
      BY <1>1, <1>2, <1>3 DEF SclInv, StopInv, Low, High, Rises
    <3> QED BY <1>1, <3>1, NoEvent
  <2>2. CASE p_state = "Stop_A"
    <3>1. StopInv'
      BY <1>1, <1>2, <1>m, <2>1, <2>2 DEF StopInv
    <3>2. SclInv'
      BY <1>1, <1>m, <2>2 DEF SclInv, Low, High, Rises, Resting, Level
    <3> QED BY <1>l, <1>m, <1>s, <2>1, <2>2, <3>1, <3>2 DEF Stopping, Emits
  <2>3. CASE p_state = "Stop_B"
    <3>1. StopInv'
      BY <1>1, <1>2, <1>m, <2>1, <2>3 DEF StopInv, SclInv, Low, High, Rises
    <3>2. SclInv'
      BY <1>1, <1>m, <2>3 DEF SclInv, Low, High, Rises, Resting, Level
    <3>3. last_sda' = 0
      BY <1>1, <1>2, <2>3 DEF StopInv
    <3> QED BY <1>b, <1>l, <1>m, <1>s, <2>1, <2>3, <3>1, <3>2, <3>3 DEF Stopping, Emits
  <2> QED BY <1>3, <2>2, <2>3
<1>4. CASE p_state = "Stop_C"
  <2>0. /\ High /\ High' /\ sda_out' = 1
        /\ p_state' = IF sclk THEN "Done" ELSE "Stop_C"
    BY <1>1, <1>m, <1>4 DEF SclInv, High
  <2>1. SclInv'
    BY <1>1, <2>0 DEF SclInv, Resting, Level
  <2>2. CASE sda_out = 0 /\ last_sda = 0 /\ ~marked /\ ~sclk
    <3>1. UNCHANGED <<t_dir, t_bits, t_sda, marked>> /\ Symbol(scl, SdaLine) = <<>>
      BY <1>1, <1>2, <2>0, <2>2, NoEvent DEF High
    <3>2. StopInv'
      BY <1>1, <1>2, <2>0, <2>2, <3>1 DEF StopInv
    <3> QED BY <1>1, <1>2, <1>4, <1>l, <1>s, <2>0, <2>1, <2>2, <3>1, <3>2
            DEF Stopping, Emits
  <2>3. CASE sda_out = 1 /\ last_sda = 0 /\ ~marked
    <3>1. /\ marked' /\ t_dir' = "idle" /\ t_bits' = 0 /\ t_sda' = 1
          /\ Symbol(scl, SdaLine) = <<STOP>>
      BY <1>1, <1>2, <2>0, <2>3, StopEvent
    <3>2. last_sda' = 1
      BY <1>1, <1>2, <2>3
    <3>3. LineInv'
      <4>1. p_state' = "Stop_C" => StopInv'
        BY <2>0, <3>1, <3>2 DEF StopInv
      <4>2. p_state' = "Done" => RestInv'
        BY <2>0, <3>1, <3>2 DEF RestInv, High, Low
      <4> QED BY <1>1, <1>l, <1>d, <2>0, <2>1, <4>1, <4>2 DEF Stopping
    <3>4. Sent = Base + DataBits + 1 /\ Sent' = Sent + 1 /\ Sent < Total
      BY <1>b, <1>4, <1>s, <2>0, <2>3, <3>2
    <3>5. Fits(Sent + 1, STOP) /\ STOP \in Symbols
      BY <1>b, <3>4 DEF Fits, Symbols
    <3> QED BY <3>1, <3>3, <3>4, <3>5 DEF Emits
  <2>4. CASE sda_out = 1 /\ last_sda = 1 /\ marked /\ t_dir = "idle" /\ t_bits = 0
    <3>1. UNCHANGED <<t_dir, t_bits, t_sda, marked>> /\ Symbol(scl, SdaLine) = <<>>
      BY <1>1, <1>2, <2>0, <2>4, NoEvent DEF High
    <3>2. last_sda' = 1
      BY <1>1, <1>2, <2>4
    <3>3. LineInv'
      <4>1. p_state' = "Stop_C" => StopInv'
        BY <1>2, <2>0, <2>4, <3>1, <3>2 DEF StopInv
      <4>2. p_state' = "Done" => RestInv'
        BY <1>2, <2>0, <2>4, <3>1, <3>2 DEF RestInv, High, Low
      <4> QED BY <1>1, <1>l, <1>d, <2>0, <2>1, <4>1, <4>2 DEF Stopping
    <3>4. Sent' = Sent
      BY <1>b, <1>4, <1>s, <2>0, <2>4, <3>2
    <3> QED BY <3>1, <3>3, <3>4 DEF Emits
  <2> QED BY <1>2, <1>4, <2>2, <2>3, <2>4 DEF StopInv
<1> QED BY <1>0, <1>3, <1>4 DEF Stopping

-----------------------------------------------------------------------------
(* Between commands.                                                       *)

\* What the host may ask for next is what the target is ready for.
LEMMA RestEntry ==
  ASSUME TypeInv, EndInv, LineInv, NEW act \in BOOLEAN, Tick(act), Kind = "rest",
         p_state' \in {"Reset", "Idle"}, t_dir' = t_dir, Entering'
  PROVE  Allowed(asked.cmd)'
<1>t. p_state \in CoreState
  BY DEF TypeInv, I2cTypeOK, CoreTypeOK
<1>0. p_state \in Resting /\ RestInv /\ CoreClock /\ CommandInv
  BY <1>t, Groups DEF LineInv, SdaInv, AskedInv, Tick
<1>1. HostClock(act) /\ InterfaceClock(bus, t_sda)
  BY DEF Tick
<1>2. phase' = "waiting" /\ (bus'.op = "write" \/ Commanded')
  BY DEF Entering
<1>3. CASE Ask
  <2>1. PICK c \in Command, a \in Bit, ien \in BOOLEAN :
              /\ Legal(c)
              /\ asked' = [cmd |-> c, ack |-> a, ien |-> ien, data |-> data_in]
    BY <1>3, Asking
  <2>2. asked'.cmd = c
    BY <2>1
  <2>3. /\ "start" \in c => t_dir # "tx"
        /\ "start" \notin c /\ "write" \in c => t_dir \in {"rx", "off"}
        /\ "write" \notin c => t_dir \in {"tx", "off"}
    BY <2>1 DEF Legal
  <2> QED BY <2>2, <2>3 DEF Allowed
<1>4. CASE ~Ask
  <2>1. phase # "ready" /\ asked' = asked
    BY <1>0, <1>2, <1>4, CommandSteps
  <2>2. bus'.op # "write"
    BY <1>1, <1>4, <2>1 DEF HostClock, Issues, Ready, Poll, Interrupted, Collect,
       Sleeps, Waits, Wrote, Holds, Captures, host_vars, BusRead, NoAccess, EndInv,
       PollsTip, Polls, Fetches
  <2>3. Commanded' /\ phase' = "waiting"
    BY <1>2, <2>2
  <2>4. EndInv'
    BY TickEnd
  <2>5. ~cmd_done'
    BY <2>3, <2>4, <2>1, <2>2 DEF EndInv, AtRest, Running, Finished, Acked, Trailing
  <2>6. p_state \in {"Reset", "Idle"}
    <3>1. p_state \notin {"Done", "DoneAck"}
      BY <1>t, <1>0, <2>5, CoreSteps
    <3> QED BY <1>0, <3>1 DEF Resting
  <2>7. phase = "waiting" /\ (Commanded \/ bus.op = "write")
    <3>1. Commanded \/ (bus.op = "write" /\ bus.reg = "CR")
      BY <1>1, <2>3, InterfaceSteps
    <3> QED BY <2>1, <3>1 DEF EndInv, Running, Finished, AtRest, Acked, Trailing, Fetches
  <2>8. Allowed(asked.cmd)
    BY <1>0, <2>6, <2>7 DEF RestInv, Entering
  <2> QED BY <2>1, <2>8 DEF Allowed
<1> QED BY <1>3, <1>4

LEMMA RestSent ==
  ASSUME TypeInv, EndInv, LineInv, NEW act \in BOOLEAN, Tick(act),
         p_state \in Resting, p_state' \in Resting
  PROVE  IF Collected THEN Sent = Total /\ Sent' = 0 ELSE Sent' = Sent
<1>t. p_state \in CoreState /\ CoreClock /\ CommandInv /\ HostClock(act)
      /\ InterfaceClock(bus, t_sda)
  BY DEF TypeInv, I2cTypeOK, CoreTypeOK, LineInv, AskedInv, Tick
<1>0. ~(Kind \in BitKind) /\ ~(Kind' \in BitKind)
  BY KindOf, KindNext DEF BitKind
<1>e. EndInv'
  BY TickEnd
<1>a. asked' = asked => Total' = Total
  BY DEF Total, Base
<1>s. /\ Sent = IF p_state \in {"Done", "DoneAck"} THEN Total
                ELSE IF phase = "ready" \/ Commanded \/ bus.op = "write" THEN 0 ELSE Total
      /\ Sent' = IF p_state' \in {"Done", "DoneAck"} THEN Total'
                 ELSE IF phase' = "ready" \/ Commanded' \/ bus'.op = "write"
                      THEN 0 ELSE Total'
  BY <1>0 DEF Sent, Resting
<1>1. CASE p_state \in {"Done", "DoneAck"}
  <2>1. phase = "waiting" /\ ~irq /\ PollsTip /\ cmd_done'
    BY <1>1, <1>t, CoreSteps DEF EndInv, AtRest, Running, Finished, Acked, Trailing, Quiet
  <2>2. phase' = "waiting"
    BY <1>t, <2>1, HostSteps DEF PollsTip, Polls
  <2>3. asked' = asked /\ ~Collected
    BY <1>t, <2>1, <2>2, CommandSteps DEF Collected
  <2>4. p_state' \in {"Done", "DoneAck"} \/ (~Commanded' /\ bus'.op # "write")
    BY <1>e, <2>1, <2>2 DEF EndInv, AtRest, Running, Finished, Acked, Trailing,
       Resting, Polls
  <2> QED BY <1>1, <1>a, <1>s, <2>2, <2>3, <2>4
<1>2. CASE p_state \in {"Reset", "Idle"}
  <2>0. p_state' \notin {"Done", "DoneAck"}
    <3>1. p_state' # "DoneAck"
      BY <1>t, <1>2, CoreSteps
    <3>2. p_state' # "Done"
      <4>1. p_state' \in {"Idle", "Start_A", "Wr_A", "Rd_A"}
        BY <1>2, <1>t, OtherMoves DEF Transfer
      <4> QED BY <4>1
    <3> QED BY <3>1, <3>2
  <2>1. CASE phase = "ready"
    <3>1. phase' = "ready" \/ bus'.op = "write"
      BY <1>t, <2>1, CommandSteps, Asking DEF BusWrite
    <3> QED BY <1>2, <1>s, <2>0, <2>1, <3>1 DEF Collected
  <2>2. CASE phase # "ready" /\ (Commanded \/ bus.op = "write")
    <3>1. phase = "waiting" /\ (Commits \/ (Running /\ Quiet /\ PollsTip))
      BY <1>2, <2>2 DEF EndInv, AtRest, Running, Finished, Acked, Trailing, Polls, Fetches
    <3>2. Commanded' /\ phase' = "waiting"
      <4>1. CASE Commits
        <5>1. ~Commanded => Commanded'
          BY <1>t, <4>1, InterfaceSteps DEF Commits
        <5>2. Commanded => FALSE
          BY <1>2, <4>1 DEF EndInv, AtRest, Running, Finished, Acked, Trailing, PollsTip,
             Polls, Commits, Fetches, Chooses
        <5>3. phase' = "waiting"
          BY <1>t, <3>1, <4>1, HostSteps DEF Commits
        <5> QED BY <5>1, <5>2, <5>3
      <4>2. CASE Running /\ Quiet /\ PollsTip
        BY <1>2, <4>2, Steady DEF Running
      <4> QED BY <3>1, <4>1, <4>2
    <3> QED BY <1>2, <1>s, <2>0, <2>2, <3>1, <3>2 DEF Collected
  <2>3. CASE phase # "ready" /\ ~Commanded /\ bus.op # "write"
    <3>1. ~Commanded' /\ bus'.op # "write"
      <4>1. ~Commanded'
        BY <1>t, <2>3, InterfaceSteps
      <4>2. bus'.op # "write"
        BY <1>t, <2>3 DEF HostClock, Issues, Ready, Ask, Poll, Interrupted, Collect,
           Sleeps, Waits, Wrote, Holds, Captures, host_vars, BusRead, NoAccess
      <4> QED BY <4>1, <4>2
    <3>2. phase' = "ready" => phase = "collecting"
      <4>1. phase = "waiting" /\ bus.op = "capture" => bus.reg = "SR"
        BY <1>2, <2>3 DEF EndInv, Polls, PollsTip, Commits
      <4>2. phase = "waiting" => phase' # "ready"
        BY <1>t, <2>3, <4>1, HostSteps
      <4>3. phase \in {"waiting", "collecting"}
        BY <2>3 DEF EndInv
      <4> QED BY <4>2, <4>3
    <3>3. phase' # "ready" => asked' = asked
      BY <1>t, <2>3, CommandSteps
    <3> QED BY <1>2, <1>a, <1>s, <2>0, <2>3, <3>1, <3>2, <3>3 DEF Collected
  <2> QED BY <2>1, <2>2, <2>3
<1> QED BY <1>1, <1>2 DEF Resting

LEMMA RestSteps ==
  ASSUME TypeInv, EndInv, LineInv, NEW act \in BOOLEAN, Tick(act), Kind = "rest"
  PROVE  /\ LineInv' /\ Symbol(scl, SdaLine) = <<>>
         /\ IF Collected THEN Sent = Total /\ Sent' = 0 ELSE Sent' = Sent
<1>t. p_state \in CoreState /\ CoreClock /\ CommandInv /\ CommandInv' /\ SclInv
      /\ t_sda \in Bit /\ p_state' \in CoreState
  BY CommandSteps, CoreSteps
     DEF TypeInv, I2cTypeOK, CoreTypeOK, TargetTypeOK, LineInv, AskedInv, Tick
<1>0. p_state \in Resting /\ RestInv
  BY <1>t, Groups DEF LineInv, SdaInv
<1>e. /\ {sclk, sclk'} \subseteq BOOLEAN /\ (sclk => ~sclk') /\ (sclk' => clk_ctr' = 0)
      /\ scl_in = last_scl /\ sda_in = last_sda
      /\ scl_in' = last_scl' /\ last_scl' = scl_out
      /\ sda_in' = last_sda' /\ last_sda' = SdaLine
      /\ sda_out' = i_sda_out /\ scl_out' = i_scl_out
      /\ TargetClock(scl, SdaLine)
  BY <1>t, Edge
<1>l. (Low \/ High) /\ (p_state = "Reset" => High)
  BY <1>0, <1>t DEF SclInv
<1>1. UNCHANGED <<t_dir, t_bits, t_sda, marked>> /\ Symbol(scl, SdaLine) = <<>>
  <2>1. CASE Low
    BY <1>e, <2>1, NoEvent DEF Low
  <2>2. CASE High
    <3>1. SdaLine = 1 /\ last_sda = 1
      BY <1>0, <2>2 DEF RestInv, SdaLine, sda
    <3> QED BY <1>e, <2>2, <3>1, NoEvent DEF High
  <2> QED BY <1>l, <2>1, <2>2
<1>2. /\ i_scl_out = scl_out
      /\ High => i_sda_out = 1 /\ SdaLine = 1
  <2>1. CASE p_state = "Reset"
    BY <1>t, <1>0, <1>l, <2>1, OtherMoves DEF High, RestInv, SdaLine, sda
  <2>2. CASE p_state \in {"Idle", "Done", "DoneAck"}
    BY <1>t, <1>0, <1>e, <1>l, <2>2, OtherMoves DEF High, Low, RestInv, SdaLine, sda
  <2> QED BY <1>0, <2>1, <2>2 DEF Resting
<1>3. /\ (Low => Low') /\ (High => High') /\ (Low' \/ High') /\ (Low' => ~High')
      /\ (High' => High) /\ (Low' => Low)
  BY <1>e, <1>l, <1>2 DEF Low, High
<1>4. p_state' \in Resting \/ (p_state = "Idle" /\ Commanded)
  BY <1>t, <1>0, OtherMoves DEF Resting
<1>5. CASE p_state' \in Resting
  <2>1. Kind' = "rest" /\ Level' = "none"
    BY <1>5, KindNext
  <2>2. StateInv'
    BY <2>1 DEF StateInv
  <2>3. p_state' # "Reset"
    BY <1>t, <1>0, OtherMoves DEF Resting, Transfer
  <2>4. SclInv'
    <3>1. p_state' \notin {"Start_A", "Start_B", "Start_C", "Start_D", "Stop_A",
                           "Stop_B", "Stop_C"}
      BY <1>5 DEF Resting
    <3> QED BY <1>e, <1>3, <2>1, <2>3, <3>1 DEF SclInv
  <2>5. RestInv'
    <3>1. Entering' /\ p_state' \in {"Reset", "Idle"} => Allowed(asked.cmd)'
      BY <1>1, RestEntry
    <3>2. High' => /\ marked' /\ sda_out' = 1 /\ last_sda' = 1 /\ t_sda' = 1
                   /\ t_dir' = "idle"
      BY <1>0, <1>1, <1>2, <1>3, <1>e DEF RestInv
    <3>3. Low' => ~marked' /\ t_dir' \in {"rx", "off", "tx"} /\ Free'
      BY <1>0, <1>1, <1>3 DEF RestInv, Free
    <3> QED BY <1>0, <1>1, <3>1, <3>2, <3>3 DEF RestInv
  <2>6. LineInv'
    BY <1>t, <2>1, <2>2, <2>4, <2>5 DEF LineInv, AskedInv, SdaInv, BitKind
  <2> QED BY <1>0, <1>1, <1>5, <2>6, RestSent
<1>6. CASE p_state = "Idle" /\ Commanded
  <2>0. p_state # "DoneAck"
    BY <1>6
  <2>1. /\ cmd' = cmd /\ cmd = asked.cmd /\ phase = "waiting" /\ phase' = "waiting"
        /\ ~Collected /\ Base' = Base
    BY <1>6, <2>0, InCommand
  <2>2. /\ p_state' = (IF "start" \in cmd THEN "Start_A" ELSE Transfer) /\ i_ctr' = 0
    BY <1>6, <1>t, OtherMoves
  <2>3. Allowed(cmd)
    BY <1>0, <1>6, <2>1 DEF RestInv, Entering
  <2>4. Sent = 0
    <3>1. ~(Kind \in BitKind)
      BY <1>0, KindOf DEF BitKind
    <3> QED BY <1>6, <3>1 DEF Sent
  <2>5. CASE "start" \in cmd
    <3>1. p_state' = "Start_A" /\ Kind' = "start" /\ Level' = "none"
      BY <2>2, <2>5, KindNext DEF Starting
    <3>2. StateInv'
      BY <2>1, <2>2, <2>5, <3>1 DEF StateInv
    <3>3. SclInv'
      BY <1>e, <1>3, <3>1 DEF SclInv, Resting
    <3>4. t_sda' = 1
      BY <1>0, <1>1, <1>l, <2>3, <2>5 DEF Allowed, RestInv, Free
    <3>5. StartInv'
      BY <1>0, <1>1, <1>2, <1>3, <1>e, <3>1, <3>4 DEF StartInv, RestInv, High, Low
    <3>6. LineInv'
      BY <1>t, <3>1, <3>2, <3>3, <3>5 DEF LineInv, AskedInv, SdaInv, BitKind
    <3>7. Sent' = 0
      BY <3>1 DEF Sent, BitKind
    <3> QED BY <1>1, <2>1, <2>4, <3>6, <3>7
  <2>6. CASE "start" \notin cmd
    <3>1. t_dir \in {"rx", "tx", "off"} /\ Low /\ t_bits = 0 /\ ~marked /\ Free
      BY <1>0, <1>l, <2>3, <2>6 DEF Allowed, RestInv
    <3>2. IF "write" \in cmd
          THEN /\ IF "start" \in cmd THEN t_dir' = "addressed" ELSE t_dir' \in {"rx", "off"}
               /\ t_sda' = 1
          ELSE t_dir' \in {"tx", "off"} /\ (t_dir' # "tx" => t_sda' = 1)
      BY <1>1, <2>3, <2>6, <3>1 DEF Allowed, Free
    <3>3. p_state' = Transfer /\ i_ctr' = 0 /\ Low' /\ ~marked' /\ t_bits' = 0
      BY <1>1, <1>3, <2>2, <2>6, <3>1
    <3>4. LineInv' /\ Sent' = Base
      BY <1>6, <2>0, <3>2, <3>3, ByteBegins
    <3>5. Base = 0
      BY <2>1, <2>6 DEF Base
    <3> QED BY <1>1, <2>1, <2>4, <3>4, <3>5
  <2> QED BY <2>5, <2>6
<1> QED BY <1>4, <1>5, <1>6

-----------------------------------------------------------------------------
LEMMA InitLine == Init => LineInv
<1> SUFFICES ASSUME Init PROVE LineInv
  OBVIOUS
<1>1. /\ p_state = "Reset" /\ phase = "ready" /\ bus.op = "none" /\ cmd = {}
      /\ scl_out = 1 /\ last_scl = 1 /\ sda_out = 1 /\ last_sda = 1
      /\ scl_in = 1 /\ sda_in = 1 /\ clk_ctr = 0 /\ t_sda = 1 /\ marked
      /\ t_dir = "idle" /\ t_bits = 0
  BY DEF Init, CoreInit, ClkgenInit, InterfaceInit, TargetInit, HostInit, NoAccess
<1>2. Kind = "rest" /\ Level = "none" /\ ~Commanded
  BY <1>1, KindOf DEF Resting, Commanded
<1>3. CommandInv
  BY <1>1, <1>2 DEF CommandInv
<1>4. StateInv
  BY <1>2 DEF StateInv
<1>5. SclInv
  BY <1>1, <1>2 DEF SclInv, Resting, High
<1>6. RestInv
  BY <1>1, <1>2 DEF RestInv, High, Low, Entering
<1> QED BY <1>2, <1>3, <1>4, <1>5, <1>6 DEF LineInv, AskedInv, SdaInv, BitKind

\* What an edge does: at most one symbol, the next of the command.
LEMMA LineSteps ==
  ASSUME TypeInv, EndInv, LineInv, NEW act \in BOOLEAN, Tick(act)
  PROVE  /\ LineInv'
         /\ IF Collected
            THEN Symbol(scl, SdaLine) = <<>> /\ Sent = Total /\ Sent' = 0
            ELSE Emits
<1>1. Kind \in BitKind \cup {"start", "stop", "rest"}
  BY Groups DEF TypeInv, I2cTypeOK, CoreTypeOK
<1>2. CASE Kind \in BitKind
  BY <1>2, BitSteps, InBit
<1>3. CASE Kind \in {"start", "stop"}
  <2>1. p_state \in Starting \cup Stopping
    BY <1>3, Groups DEF TypeInv, I2cTypeOK, CoreTypeOK
  <2>2. ~Collected
    BY <2>1, Steady DEF Starting, Stopping
  <2> QED BY <1>3, <2>2, StartSteps, StopSteps
<1>4. CASE Kind = "rest"
  BY <1>4, RestSteps DEF Emits
<1> QED BY <1>1, <1>2, <1>3, <1>4

-----------------------------------------------------------------------------
(* The symbols on the wire.                                                *)

\* Only a host that has collected is ready again.
LEMMA PhaseSteps ==
  ASSUME EndInv, NEW act \in BOOLEAN, Tick(act)
  PROVE  phase' = "ready" /\ ~Collected => phase = "ready"
<1>1. HostClock(act) /\ phase \in {"ready", "waiting", "collecting"}
  BY DEF Tick, EndInv
<1>2. phase = "waiting" /\ bus.op = "capture" => bus.reg = "SR"
  BY DEF EndInv, Polls, PollsTip, Commits
<1>3. phase = "waiting" => phase' # "ready"
  BY <1>1, <1>2, HostSteps
<1> QED BY <1>1, <1>3 DEF Collected

LEMMA WireSteps ==
  ASSUME TypeInv, EndInv, LineInv, WireInv, NEW act \in BOOLEAN, Tick(act)
  PROVE  /\ WireInv'
         /\ Collected => Len(wire) = Total /\ wire' = <<>>
         /\ phase = "ready" => wire = <<>> /\ wire' = <<>>
         /\ phase # "ready" /\ ~Collected
            => /\ phase' # "ready" /\ asked' = asked
               /\ \/ wire' = wire
                  \/ Len(wire') = Len(wire) + 1 /\ Len(wire) < Total
<1>1. /\ wire \in Seq(Symbols) /\ CommandInv
      /\ wire' = (IF Collected THEN <<>> ELSE wire) \o Symbol(scl, SdaLine)
      /\ IF Collected
         THEN Symbol(scl, SdaLine) = <<>> /\ Sent = Total /\ Sent' = 0
         ELSE Emits
  BY LineSteps DEF TypeInv, I2cTypeOK, TargetTypeOK, LineInv, AskedInv, Tick
<1>2. Len(wire) = Sent /\ \A i \in 1 .. Len(wire) : Fits(i, wire[i])
  BY DEF WireInv
<1>3. CASE Collected
  <2>1. wire' = <<>> /\ Len(wire) = Total
    BY <1>1, <1>2, <1>3
  <2> QED BY <1>1, <1>3, <2>1 DEF WireInv, Collected
<1>4. CASE phase = "ready"
  <2>1. p_state \in {"Reset", "Idle"} /\ ~Collected
    BY <1>4 DEF EndInv, AtRest, Collected
  <2>2. Kind = "rest" /\ ~(Kind \in BitKind)
    BY <2>1, KindOf DEF Resting, BitKind
  <2>3. Symbol(scl, SdaLine) = <<>> /\ Sent' = Sent
    BY <2>1, <2>2, RestSteps
  <2>4. Sent = 0
    BY <1>4, <2>1, <2>2 DEF Sent
  <2>5. wire = <<>> /\ wire' = <<>>
    BY <1>1, <1>2, <2>1, <2>3, <2>4
  <2> QED BY <1>4, <2>1, <2>3, <2>4, <2>5 DEF WireInv
<1>5. CASE phase # "ready" /\ ~Collected
  <2>1. phase' # "ready" /\ asked' = asked
    BY <1>1, <1>5, PhaseSteps, CommandSteps
  <2>3. CASE Symbol(scl, SdaLine) = <<>> /\ Sent' = Sent
    <3>1. wire' = wire
      BY <1>1, <1>5, <2>3
    <3>2. WireInv'
      BY <1>1, <1>2, <2>1, <2>3, <3>1 DEF WireInv, Fits, Base
    <3> QED BY <1>5, <2>1, <3>1, <3>2
  <2>4. CASE \E x \in Symbols : /\ Symbol(scl, SdaLine) = <<x>> /\ Sent' = Sent + 1
                                /\ Sent < Total /\ Fits(Sent + 1, x)
    <3>1. PICK x \in Symbols : /\ Symbol(scl, SdaLine) = <<x>> /\ Sent' = Sent + 1
                               /\ Sent < Total /\ Fits(Sent + 1, x)
      BY <2>4
    <3>2. wire' = wire \o <<x>>
      BY <1>1, <1>5, <3>1
    <3>3. /\ Len(wire') = Len(wire) + 1 /\ Len(wire) \in Nat
          /\ \A i \in 1 .. Len(wire') :
               wire'[i] = IF i <= Len(wire) THEN wire[i] ELSE x
      BY <1>1, <3>2
    <3>4. \A i \in 1 .. Len(wire') : Fits(i, wire'[i])
      <4> SUFFICES ASSUME NEW i \in 1 .. Len(wire') PROVE Fits(i, wire'[i])
        OBVIOUS
      <4>1. CASE i <= Len(wire)
        <5>1. i \in 1 .. Len(wire) /\ wire'[i] = wire[i]
          BY <3>3, <4>1
        <5> QED BY <1>2, <5>1
      <4>2. CASE ~(i <= Len(wire))
        <5>1. i = Sent + 1 /\ wire'[i] = x
          BY <1>2, <3>3, <4>2
        <5> QED BY <3>1, <5>1
      <4> QED BY <4>1, <4>2
    <3>5. WireInv'
      BY <1>2, <2>1, <3>1, <3>3, <3>4 DEF WireInv, Fits, Base
    <3> QED BY <1>2, <1>5, <2>1, <3>1, <3>3, <3>5
  <2> QED BY <1>1, <1>5, <2>3, <2>4 DEF Emits
<1> QED BY <1>3, <1>4, <1>5 DEF Collected

LEMMA OneSymbol ==
  /\ <<>> \in Seq(Symbols) /\ Len(<<>>) = 0
  /\ \A x \in Symbols : <<x>> \in Seq(Symbols) /\ Len(<<x>>) = 1 /\ <<x>>[1] = x
OBVIOUS

\* A sequence that fits, from the first symbol to the last, is the command's.
LEMMA FullWire ==
  ASSUME CommandInv, phase # "ready", NEW w \in Seq(Symbols), Len(w) = Total,
         \A i \in 1 .. Total : Fits(i, w[i])
  PROVE  w \in Service!Wires(asked)
<1> DEFINE p    == [b \in 1 .. DataBits + 1 |-> w[Base + b]]
           head == IF "start" \in asked.cmd THEN <<START>> ELSE <<>>
           tail == IF "stop" \in asked.cmd THEN <<STOP>> ELSE <<>>
<1>t. /\ DataBits \in Nat \ {0} /\ Base \in {0, 1} /\ asked.ack \in Bit
      /\ asked.data \in Byte
      /\ Total = Base + DataBits + 1 + (IF "stop" \in asked.cmd THEN 1 ELSE 0)
  BY DataBitsAssumption DEF CommandInv, Base, Total
<1>1. \A b \in 1 .. DataBits + 1 :
        /\ Base + b \in 1 .. Total
        /\ w[Base + b] \in IF "write" \in asked.cmd
                           THEN IF b <= DataBits THEN {asked.data[b - 1]} ELSE Bit
                           ELSE IF b <= DataBits THEN Bit ELSE {asked.ack}
  <2> SUFFICES ASSUME NEW b \in 1 .. DataBits + 1
               PROVE  /\ Base + b \in 1 .. Total
                      /\ w[Base + b] \in IF "write" \in asked.cmd
                           THEN IF b <= DataBits THEN {asked.data[b - 1]} ELSE Bit
                           ELSE IF b <= DataBits THEN Bit ELSE {asked.ack}
    OBVIOUS
  <2>1. Base + b \in 1 .. Total /\ Base + b \in Int
    BY <1>t
  <2>2. Fits(Base + b, w[Base + b])
    BY <2>1
  <2>3. CASE b <= DataBits
    <3>1. PICK i \in Int : i = Base + b
      BY <2>1
    <3>2. i \in Base + 1 .. Base + DataBits /\ i - Base - 1 = b - 1
      BY <1>t, <2>3, <3>1
    <3>3. w[i] \in IF "write" \in asked.cmd THEN {asked.data[i - Base - 1]} ELSE Bit
      BY <2>2, <3>1, <3>2 DEF Fits
    <3>4. w[Base + b] \in IF "write" \in asked.cmd THEN {asked.data[b - 1]} ELSE Bit
      BY <3>1, <3>2, <3>3
    <3> QED BY <2>1, <2>3, <3>4
  <2>4. CASE ~(b <= DataBits)
    <3>1. Base + b = Base + DataBits + 1
      BY <1>t, <2>4
    <3> QED BY <2>1, <2>2, <2>4, <3>1 DEF Fits
  <2> QED BY <2>3, <2>4
<1>2. p \in Service!Payloads(asked)
  <2>1. CASE "write" \in asked.cmd
    <3>1. w[Base + DataBits + 1] \in Bit
      <4>1. DataBits + 1 \in 1 .. DataBits + 1 /\ ~(DataBits + 1 <= DataBits)
        BY <1>t
      <4>2. Base + (DataBits + 1) = Base + DataBits + 1
        BY <1>t
      <4> QED BY <1>1, <2>1, <4>1, <4>2
    <3>2. p = [b \in 1 .. DataBits + 1 |->
                 IF b <= DataBits THEN asked.data[b - 1] ELSE w[Base + DataBits + 1]]
      <4>1. \A b \in 1 .. DataBits + 1 :
              w[Base + b] = IF b <= DataBits THEN asked.data[b - 1]
                            ELSE w[Base + DataBits + 1]
        <5> SUFFICES ASSUME NEW b \in 1 .. DataBits + 1
                     PROVE  w[Base + b] = IF b <= DataBits THEN asked.data[b - 1]
                                          ELSE w[Base + DataBits + 1]
          OBVIOUS
        <5>1. CASE b <= DataBits
          BY <1>1, <2>1, <5>1
        <5>2. CASE ~(b <= DataBits)
          <6>1. Base + b = Base + DataBits + 1
            BY <1>t, <5>2
          <6> QED BY <5>2, <6>1
        <5> QED BY <5>1, <5>2
      <4> QED BY <4>1
    <3> HIDE DEF p
    <3> QED BY <2>1, <3>1, <3>2, Zenon DEF Service!Payloads, Service!Bit, Bit
  <2>2. CASE "write" \notin asked.cmd
    <3>1. p \in [1 .. DataBits + 1 -> Bit]
      BY <1>1, <1>t, <2>2
    <3>2. p[DataBits + 1] = asked.ack
      <4>1. DataBits + 1 \in 1 .. DataBits + 1 /\ ~(DataBits + 1 <= DataBits)
        BY <1>t
      <4> QED BY <1>1, <2>2, <4>1
    <3> HIDE DEF p
    <3> QED BY <2>2, <3>1, <3>2, Zenon DEF Service!Payloads, Service!Bit, Bit
  <2> QED BY <2>1, <2>2
<1>3. p \in Seq(Symbols) /\ Len(p) = DataBits + 1
  <2>1. \A b \in 1 .. DataBits + 1 : w[Base + b] \in Symbols
    BY <1>1, ElementOfSeq
  <2>2. p \in [1 .. DataBits + 1 -> Symbols] /\ DataBits + 1 \in Nat
    BY <1>t, <2>1
  <2>3. p \in Seq(Symbols)
    BY <2>2, SeqDef
  <2>4. DOMAIN p = 1 .. Len(p) /\ Len(p) \in Nat /\ DOMAIN p = 1 .. DataBits + 1
    BY <2>3, LenProperties
  <2> QED BY <1>t, <2>3, <2>4
<1>4. /\ head \in Seq(Symbols) /\ Len(head) = Base
      /\ \A i \in 1 .. Len(head) : head[i] = START
  <2>1. START \in Symbols
    BY DEF Symbols
  <2> QED BY <2>1, OneSymbol DEF Base
<1>5. /\ tail \in Seq(Symbols) /\ Len(tail) = Total - (Base + DataBits + 1)
      /\ \A i \in 1 .. Len(tail) : tail[i] = STOP
  <2>1. STOP \in Symbols
    BY DEF Symbols
  <2> QED BY <1>t, <2>1, OneSymbol
<1> HIDE DEF p, head, tail
<1>6. w = (head \o p) \o tail
  <2>1. /\ head \o p \in Seq(Symbols) /\ Len(head \o p) = Base + DataBits + 1
        /\ \A i \in 1 .. Base + DataBits + 1 :
             (head \o p)[i] = IF i <= Base THEN head[i] ELSE p[i - Base]
    <3>1. Len(head) + Len(p) = Base + DataBits + 1
      BY <1>3, <1>4, <1>t
    <3>2. /\ head \o p \in Seq(Symbols) /\ Len(head \o p) = Len(head) + Len(p)
          /\ \A i \in 1 .. Len(head) + Len(p) :
               (head \o p)[i] = IF i <= Len(head) THEN head[i] ELSE p[i - Len(head)]
      BY <1>3, <1>4, ConcatProperties
    <3> QED BY <1>4, <3>1, <3>2
  <2>2. /\ (head \o p) \o tail \in Seq(Symbols) /\ Len((head \o p) \o tail) = Total
        /\ \A i \in 1 .. Total :
             ((head \o p) \o tail)[i] = IF i <= Base + DataBits + 1 THEN (head \o p)[i]
                                        ELSE tail[i - (Base + DataBits + 1)]
    <3>1. Len(head \o p) + Len(tail) = Total
      BY <1>t, <1>5, <2>1
    <3>2. /\ (head \o p) \o tail \in Seq(Symbols)
          /\ Len((head \o p) \o tail) = Len(head \o p) + Len(tail)
          /\ \A i \in 1 .. Len(head \o p) + Len(tail) :
               ((head \o p) \o tail)[i] = IF i <= Len(head \o p) THEN (head \o p)[i]
                                          ELSE tail[i - Len(head \o p)]
      BY <1>5, <2>1, ConcatProperties
    <3> QED BY <2>1, <3>1, <3>2
  <2>3. \A i \in 1 .. Total : w[i] = ((head \o p) \o tail)[i]
    <3> SUFFICES ASSUME NEW i \in 1 .. Total PROVE w[i] = ((head \o p) \o tail)[i]
      OBVIOUS
    <3>0. Fits(i, w[i]) /\ i \in Int
      OBVIOUS
    <3>1. CASE i <= Base
      <4>1. i \in 1 .. Base + DataBits + 1 /\ i \in 1 .. Len(head)
        BY <1>t, <1>4, <3>1
      <4> QED BY <1>4, <1>t, <2>1, <2>2, <3>0, <3>1, <4>1 DEF Fits
    <3>2. CASE i > Base /\ i <= Base + DataBits + 1
      <4>1. i \in 1 .. Base + DataBits + 1 /\ i - Base \in 1 .. DataBits + 1
            /\ Base + (i - Base) = i /\ ~(i <= Base)
        BY <1>t, <3>2
      <4>2. p[i - Base] = w[i]
        BY <4>1 DEF p
      <4> QED BY <2>1, <2>2, <3>2, <4>1, <4>2
    <3>3. CASE i > Base + DataBits + 1
      <4>1. i = Base + DataBits + 2 /\ i - (Base + DataBits + 1) \in 1 .. Len(tail)
        BY <1>t, <1>5, <3>3
      <4>2. ~(i <= Base + DataBits + 1)
        BY <1>t, <3>3
      <4> QED BY <1>5, <2>2, <3>0, <4>1, <4>2 DEF Fits
    <3>4. i <= Base \/ (i > Base /\ i <= Base + DataBits + 1) \/ i > Base + DataBits + 1
      BY <1>t
    <3> QED BY <3>1, <3>2, <3>3, <3>4
  <2> QED BY <2>2, <2>3, SeqEqual
<1> QED BY <1>2, <1>6, Zenon DEF Service!Wires, head, tail,
    Service!START, START, Service!STOP, STOP

\* And one that fits so far is the beginning of one of the command's.
LEMMA Completes ==
  ASSUME CommandInv, phase # "ready", NEW s \in Seq(Symbols), Len(s) <= Total,
         \A i \in 1 .. Len(s) : Fits(i, s[i])
  PROVE  \E w \in Service!Wires(asked) : Len(w) = Total /\ s = SubSeq(w, 1, Len(s))
<1> DEFINE rest(i) == IF i <= Base THEN START
                      ELSE IF i = Base + DataBits + 2 THEN STOP
                      ELSE IF i = Base + DataBits + 1
                      THEN IF "write" \in asked.cmd THEN 0 ELSE asked.ack
                      ELSE IF "write" \in asked.cmd THEN asked.data[i - Base - 1] ELSE 0
           w == [i \in 1 .. Total |-> IF i <= Len(s) THEN s[i] ELSE rest(i)]
<1>t. /\ DataBits \in Nat \ {0} /\ Base \in {0, 1} /\ asked.ack \in Bit
      /\ asked.data \in Byte /\ Total \in Nat /\ Total <= Base + DataBits + 2
      /\ Len(s) \in Nat
  BY DataBitsAssumption DEF CommandInv, Base, Total
<1>1. \A i \in 1 .. Total : rest(i) \in Symbols /\ Fits(i, rest(i))
  <2> SUFFICES ASSUME NEW i \in 1 .. Total PROVE rest(i) \in Symbols /\ Fits(i, rest(i))
    OBVIOUS
  <2>0. i \in Int /\ DataBits \in Int /\ Base \in Int
    BY <1>t
  <2>1. CASE i <= Base
    <3>1. rest(i) = START
      BY <2>1
    <3> QED BY <1>t, <2>0, <2>1, <3>1 DEF Fits, Symbols
  <2>2. CASE i = Base + DataBits + 2
    <3>1. rest(i) = STOP
      BY <1>t, <2>2
    <3> QED BY <1>t, <2>0, <2>2, <3>1 DEF Fits, Symbols
  <2>3. CASE i = Base + DataBits + 1
    <3>1. rest(i) = IF "write" \in asked.cmd THEN 0 ELSE asked.ack
      BY <1>t, <2>3
    <3> QED BY <1>t, <2>0, <2>3, <3>1 DEF Fits, Symbols, Bit
  <2>4. CASE i > Base /\ i < Base + DataBits + 1
    <3>1. rest(i) = IF "write" \in asked.cmd THEN asked.data[i - Base - 1] ELSE 0
      BY <1>t, <2>4
    <3>2. i - Base - 1 \in Bits
      BY <1>t, <2>4 DEF Bits
    <3>3. rest(i) \in Bit
      BY <1>t, <3>1, <3>2 DEF Byte, Bit
    <3> HIDE DEF rest
    <3> QED BY <1>t, <2>0, <2>4, <3>1, <3>3 DEF Fits, Symbols, Bit
  <2> QED BY <1>t, <2>1, <2>2, <2>3, <2>4
<1>2. \A i \in 1 .. Total : w[i] \in Symbols /\ Fits(i, w[i])
  <2> HIDE DEF rest
  <2> SUFFICES ASSUME NEW i \in 1 .. Total PROVE w[i] \in Symbols /\ Fits(i, w[i])
    OBVIOUS
  <2>1. CASE i <= Len(s)
    <3>1. i \in 1 .. Len(s) /\ w[i] = s[i]
      BY <1>t, <2>1
    <3>2. s[i] \in Symbols
      BY <3>1, ElementOfSeq
    <3> QED BY <3>1, <3>2
  <2>2. CASE ~(i <= Len(s))
    <3>1. w[i] = rest(i)
      BY <2>2
    <3> QED BY <1>1, <3>1
  <2> QED BY <2>1, <2>2
<1>3. w \in Seq(Symbols) /\ Len(w) = Total
  <2> HIDE DEF rest
  <2>1. w \in [1 .. Total -> Symbols]
    BY <1>2
  <2>2. w \in Seq(Symbols)
    BY <1>t, <2>1, SeqDef
  <2>3. DOMAIN w = 1 .. Len(w) /\ Len(w) \in Nat /\ DOMAIN w = 1 .. Total
    BY <2>2, LenProperties
  <2> QED BY <1>t, <2>2, <2>3
<1>4. \A i \in 1 .. Len(s) : w[i] = s[i]
  BY <1>t
<1> HIDE DEF w
<1>5. w \in Service!Wires(asked)
  BY <1>2, <1>3, FullWire
<1>6. s = SubSeq(w, 1, Len(s))
  <2>1. \A i \in 1 .. Len(s) : w[i] \in Symbols
    BY <1>t, <1>2
  <2>2. /\ SubSeq(w, 1, Len(s)) \in Seq(Symbols)
        /\ Len(SubSeq(w, 1, Len(s))) = IF 1 <= Len(s) THEN Len(s) - 1 + 1 ELSE 0
        /\ \A i \in 1 .. Len(s) - 1 + 1 : SubSeq(w, 1, Len(s))[i] = w[1 + i - 1]
    BY <1>t, <2>1, SubSeqProperties
  <2>3. Len(SubSeq(w, 1, Len(s))) = Len(s)
    BY <1>t, <2>2
  <2>4. \A i \in 1 .. Len(s) : SubSeq(w, 1, Len(s))[i] = s[i]
    BY <1>t, <1>4, <2>2
  <2> QED BY <2>2, <2>3, <2>4, SeqEqual
<1> QED BY <1>3, <1>5, <1>6

-----------------------------------------------------------------------------
LEMMA InitWire == Init => WireInv
<1> SUFFICES ASSUME Init PROVE WireInv
  OBVIOUS
<1>1. p_state = "Reset" /\ phase = "ready" /\ wire = <<>>
  BY DEF Init, CoreInit, HostInit, TargetInit
<1>2. ~(Kind \in BitKind)
  BY <1>1, KindOf DEF Resting, BitKind
<1>3. Sent = 0
  BY <1>1, <1>2 DEF Sent
<1> QED BY <1>1, <1>3 DEF WireInv

LEMMA Stutter ==
  ASSUME UNCHANGED vars
  PROVE  (TypeInv => TypeInv') /\ (EndInv => EndInv')
<1>0. /\ UNCHANGED clkgen_vars /\ UNCHANGED core_vars /\ UNCHANGED interface_vars
      /\ UNCHANGED target_vars /\ UNCHANGED host_vars
  BY DEF vars
<1>1. TypeInv => TypeInv'
  BY <1>0
  DEF clkgen_vars, core_vars, interface_vars, target_vars, host_vars,
      TypeInv, I2cTypeOK, CoreTypeOK, InterfaceTypeOK, TargetTypeOK
<1>2. EndInv => EndInv'
  BY <1>0, Zenon
  DEF core_vars, interface_vars, host_vars, EndInv, AtRest, Running, Finished, Acked,
      Trailing, Quiet, Polls, PollsTip, Chooses, Commits, Fetches, Commanded
<1> QED BY <1>1, <1>2

LEMMA WireStutter ==
  ASSUME UNCHANGED vars
  PROVE  (LineInv => LineInv') /\ (WireInv => WireInv')
<1>0. /\ UNCHANGED clkgen_vars /\ UNCHANGED core_vars /\ UNCHANGED interface_vars
      /\ UNCHANGED target_vars /\ UNCHANGED host_vars
  BY DEF vars
<1>1. /\ UNCHANGED <<p_state, i_ctr, sda_out, scl_out, sclk, clk_ctr, sda_in, scl_in>>
      /\ UNCHANGED <<ack_in, data_in, cmd, t_sda, last_scl, last_sda, marked, t_dir>>
      /\ UNCHANGED <<t_bits, wire, bus, asked, phase>>
  BY <1>0 DEF clkgen_vars, core_vars, interface_vars, target_vars, host_vars
<1>2. /\ UNCHANGED <<Kind, Level>>
      /\ UNCHANGED <<Direction, Base>>
      /\ UNCHANGED SdaLine
  BY <1>1 DEF Kind, Level, Direction, Base, SdaLine, sda
<1>3. UNCHANGED <<Total, Slot>>
  BY <1>1, <1>2 DEF Total, Slot
<1>4. UNCHANGED i_sda_out
  BY <1>1, Zenon DEF i_sda_out
<1>5. /\ (Low' <=> Low)
      /\ (High' <=> High)
      /\ (Rises' <=> Rises)
      /\ (Falls' <=> Falls)
  BY <1>1 DEF Low, High, Rises, Falls
<1>6. /\ (Taken' <=> Taken)
      /\ (LastBit' <=> LastBit)
      /\ (Commanded' <=> Commanded)
  BY <1>1, <1>2, <1>5 DEF Taken, LastBit, Commanded
<1>7. CommandInv => CommandInv'
  BY <1>1, <1>2, <1>6 DEF CommandInv
<1>8. StateInv => StateInv'
  BY <1>1, <1>2, <1>6 DEF StateInv
<1>9. SclInv => SclInv'
  BY <1>1, <1>2, <1>5 DEF SclInv
<1>10. SdaInv => SdaInv'
  <2>1. RestInv => RestInv'
    BY <1>1, <1>5, <1>6 DEF RestInv, Free, Entering, Allowed
  <2>2. StartInv => StartInv'
    BY <1>1, <1>5 DEF StartInv
  <2>3. BitInv => BitInv'
    BY <1>1, <1>2, <1>3, <1>4, <1>5, <1>6 DEF BitInv, DirOK
  <2>4. StopInv => StopInv'
    BY <1>1 DEF StopInv
  <2> QED BY <1>2, <2>1, <2>2, <2>3, <2>4 DEF SdaInv
<1>11. Sent' = Sent
  BY <1>1, <1>2, <1>3, <1>6, Zenon DEF Sent
<1>12. WireInv => WireInv'
  BY <1>1, <1>2, <1>11 DEF WireInv, Fits
<1> QED BY <1>7, <1>8, <1>9, <1>10, <1>12 DEF LineInv, AskedInv

LEMMA WireAlways == Spec => [](TypeInv /\ EndInv /\ LineInv /\ WireInv)
<1>1. TypeInv /\ EndInv /\ LineInv /\ WireInv /\ [Next]_vars
      => (TypeInv /\ EndInv /\ LineInv /\ WireInv)'
  <2>1. CASE Next
    BY <2>1, TypeTick, TickEnd, LineSteps, WireSteps DEF Next
  <2>2. CASE UNCHANGED vars
    BY <2>2, Stutter, WireStutter
  <2> QED BY <2>1, <2>2
<1>2. Init => TypeInv /\ EndInv /\ LineInv /\ WireInv
  BY TypeInit, InitEnd, InitLine, InitWire
<1> QED BY <1>1, <1>2, PTL DEF Spec

\* A host that is ready has nothing asked.
LEMMA EndAsked ==
  ASSUME EndInv, NEW act \in BOOLEAN, Tick(act)
  PROVE  /\ phase = "ready" /\ phase' = "ready" => asked' = asked
         /\ Collected => asked' = NothingAsked
<1>1. HostClock(act)
  BY DEF Tick
<1>2. phase = "ready" => bus.op # "capture"
  BY DEF EndInv, Chooses
<1> QED BY <1>1, <1>2 DEF HostClock, Issues, Ready, Ask, Poll, Interrupted, Collect,
     Sleeps, Waits, Wrote, Holds, Captures, host_vars, Collected

LEMMA ServiceInit == Init => Service!Init
BY DEF Init, HostInit, NothingAsked, TargetInit, Service!Init

\* A host that learns, or has learned, that its command is over finds all of
\* its symbols out.
LEMMA LearnsAtTheEnd ==
  ASSUME TypeInv, EndInv, NEW act \in BOOLEAN, Tick(act),
         phase # "ready", phase' # "waiting"
  PROVE  Sent = Total
<1>1. /\ HostClock(act) /\ phase \in {"waiting", "collecting"}
      /\ bus.op \in {"none", "write", "read", "capture"}
  BY DEF Tick, EndInv, TypeInv, I2cTypeOK
<1>a. ASSUME p_state \in {"Reset", "Idle"}, ~Commanded, bus.op # "write"
      PROVE  Sent = Total
  <2>1. Kind = "rest" /\ ~(Kind \in BitKind)
    BY <1>a, KindOf DEF Resting, BitKind
  <2> QED BY <1>a, <2>1 DEF Sent
<1>2. CASE phase = "collecting"
  BY <1>2, <1>a DEF EndInv, AtRest, Fetches
<1>3. CASE phase = "waiting"
  <2>1. irq \/ (bus.op = "capture" /\ ~(bus.reg = "SR" /\ readdata.sr.tip))
    BY <1>1, <1>3 DEF HostClock, Issues, Ready, Ask, Poll, Interrupted, Collect,
       Sleeps, Waits, Wrote, Holds, Captures, host_vars
  <2>2. (Trailing \/ AtRest) /\ Polls
    BY <1>3, <2>1 DEF EndInv, Quiet, Commits, PollsTip, Polls
  <2> QED BY <1>a, <2>2 DEF Trailing, AtRest, Polls
<1> QED BY <1>1, <1>2, <1>3

\* The host's moves: it goes from one phase to the next.
LEMMA PhaseOrder ==
  ASSUME EndInv, NEW act \in BOOLEAN, Tick(act)
  PROVE  /\ phase = "ready" => phase' \in {"ready", "waiting"}
         /\ phase = "waiting" => phase' \in {"waiting", "collecting"}
         /\ phase = "collecting" => phase' \in {"collecting", "ready"}
<1>1. HostClock(act) /\ phase \in {"ready", "waiting", "collecting"}
  BY DEF Tick, EndInv
<1>2. /\ phase = "ready" => bus.op # "capture"
      /\ phase = "waiting" /\ bus.op = "capture" => bus.reg = "SR"
  BY DEF EndInv, Chooses, Polls, PollsTip, Commits
<1> QED BY <1>1, <1>2 DEF HostClock, Issues, Ready, Ask, Poll, Interrupted, Collect,
     Sleeps, Waits, Wrote, Holds, Captures, host_vars

\* A step of the master is one of its service's, or none.
LEMMA ServiceSteps ==
  ASSUME TypeInv, EndInv, LineInv, WireInv, NEW act \in BOOLEAN, Tick(act)
  PROVE  [Service!Next]_<<asked, phase = "waiting", wire>>
<1>1. /\ WireInv' /\ CommandInv /\ CommandInv' /\ wire \in Seq(Symbols)
      /\ wire' \in Seq(Symbols)
      /\ Collected => Len(wire) = Total /\ wire' = <<>>
      /\ phase = "ready" => wire = <<>> /\ wire' = <<>>
      /\ phase # "ready" /\ ~Collected
         => /\ phase' # "ready" /\ asked' = asked
            /\ \/ wire' = wire
               \/ Len(wire') = Len(wire) + 1 /\ Len(wire) < Total
  BY WireSteps, CommandSteps, TypeTick
     DEF LineInv, AskedInv, TypeInv, I2cTypeOK, TargetTypeOK
<1>2. /\ \A i \in 1 .. Len(wire) : Fits(i, wire[i])
      /\ Len(wire) \in Nat /\ Len(wire') \in Nat /\ Total \in Nat /\ Total > 0
  BY <1>1, DataBitsAssumption DEF WireInv, Total, Base
<1>3. CASE phase = "ready" /\ phase' = "ready"
  <2>1. asked' = asked
    BY <1>3, EndAsked
  <2>2. wire' = wire
    BY <1>1, <1>3
  <2>3. (phase = "waiting")' = (phase = "waiting")
    BY <1>3
  <2> QED BY <2>1, <2>2, <2>3
<1>4. CASE phase = "ready" /\ phase' = "waiting"
  <2>1. asked'.cmd \cap {"read", "write"} # {}
    BY <1>1, <1>4 DEF CommandInv
  <2>2. wire = <<>> /\ wire' = wire
    BY <1>1, <1>4
  <2>3. (phase = "waiting")' = TRUE /\ ~(phase = "waiting")
    BY <1>4
  <2>4. Service!Ask
    BY <2>1, <2>2, <2>3 DEF Service!Ask
  <2> QED BY <2>4 DEF Service!Next
<1>5. ASSUME phase # "ready", phase' # "waiting"
      PROVE  Len(wire) = Total /\ wire \in Service!Wires(asked)
             /\ (~Collected => wire' = wire)
  <2>1. Len(wire) = Total
    BY <1>5, LearnsAtTheEnd DEF WireInv
  <2>2. wire \in Service!Wires(asked)
    BY <2>1, <1>1, <1>2, <1>5, FullWire
  <2> QED BY <2>1, <2>2, <1>1, <1>2, <1>5
<1>6. CASE Collected
  <2>1. wire # <<>> /\ wire' = <<>>
    BY <1>1, <1>2, <1>6
  <2>2. asked' = [cmd |-> {}]
    BY <1>6, EndAsked DEF NothingAsked
  <2>3. (phase = "waiting")' = (phase = "waiting") /\ ~(phase = "waiting")
    BY <1>6 DEF Collected
  <2>4. Service!Collect
    BY <2>1, <2>2, <2>3 DEF Service!Collect
  <2> QED BY <2>4 DEF Service!Next
<1>7. CASE phase = "collecting" /\ ~Collected
  <2>1. phase' = "collecting"
    BY <1>7, PhaseOrder DEF Collected
  <2>2. asked' = asked /\ wire' = wire
    BY <2>1, <1>1, <1>5, <1>7
  <2> QED BY <2>1, <2>2, <1>7
<1>8. CASE phase = "waiting" /\ phase' # "waiting"
  <2>1. asked' = asked /\ wire' = wire /\ wire \in Service!Wires(asked)
    BY <1>1, <1>5, <1>8 DEF Collected
  <2>2. (phase = "waiting")' = FALSE /\ phase = "waiting"
    BY <1>8
  <2>3. Service!Learn
    BY <2>1, <2>2 DEF Service!Learn
  <2> QED BY <2>3 DEF Service!Next
<1>9. CASE phase = "waiting" /\ phase' = "waiting"
  <2>1. /\ asked' = asked /\ (phase = "waiting")' = (phase = "waiting")
        /\ wire' = wire \/ (Len(wire') = Len(wire) + 1 /\ Len(wire) < Total)
    BY <1>1, <1>9 DEF Collected
  <2>2. CASE wire' = wire
    BY <2>1, <2>2
  <2>3. CASE Len(wire') = Len(wire) + 1 /\ Len(wire) < Total
    <3>1. \A i \in 1 .. Len(wire') : Fits(i, wire'[i])
      BY <1>1, <2>1 DEF WireInv, Fits, Base
    <3>2. PICK w \in Service!Wires(asked) :
             Len(w) = Total /\ wire' = SubSeq(w, 1, Len(wire'))
      BY <1>1, <1>2, <1>9, <2>3, <3>1, Completes
    <3>3. Len(wire) < Len(w) /\ wire' = SubSeq(w, 1, Len(wire) + 1)
      BY <2>3, <3>2
    <3>4. Service!Progress
      BY <1>9, <2>1, <3>2, <3>3 DEF Service!Progress
    <3> QED BY <3>4 DEF Service!Next
  <2> QED BY <2>1, <2>2, <2>3
<1>10. phase \in {"ready", "waiting", "collecting"}
  BY DEF EndInv
<1> QED BY <1>3, <1>4, <1>6, <1>7, <1>8, <1>9, <1>10, PhaseOrder

\* The master implements its service (i2c_core.vhd:187-684): a command puts on
\* the two lines its START, its data, its acknowledge and its STOP, each once
\* and in this order, nothing is there between commands, and the host learns
\* that a command is over (i2c_interface.vhd:310-322) only when all of its
\* symbols are out.
THEOREM WireOfCommands == Spec => WireService
<1>1. TypeInv /\ EndInv /\ LineInv /\ WireInv /\ [Next]_vars
      => [Service!Next]_<<asked, phase = "waiting", wire>>
  <2>1. CASE Next
    BY <2>1, ServiceSteps DEF Next
  <2>2. CASE UNCHANGED vars
    BY <2>2 DEF vars, target_vars, host_vars
  <2> QED BY <2>1, <2>2
<1> QED BY <1>1, WireAlways, ServiceInit, PTL DEF Spec, WireService, Service!Spec

-----------------------------------------------------------------------------
(* What the host reads.                                                    *)

\* Where a received bit is stored, and how it leaves the core.
LEMMA CoreReceives ==
  ASSUME CoreClock, p_state \in CoreState
  PROVE  /\ data_out' = i_dout /\ ack_out' = i_ack_out
         /\ p_state = "Rd_C" => /\ p_state' = "Rd_D"
                                /\ i_dout' = [i_dout EXCEPT ![i_ctr] = sda_in]
         /\ p_state # "Rd_C" => i_dout' = i_dout
         /\ p_state' = "Rd_D" => p_state \in {"Rd_C", "Rd_D"}
         /\ p_state' = "Rd_E" => p_state \in {"Rd_D", "Rd_E"}
         /\ p_state = "RdAck_C" => p_state' = "RdAck_D" /\ i_ack_out' = sda_in
         /\ p_state # "RdAck_C" => i_ack_out' = i_ack_out
         /\ p_state' = "RdAck_D" => p_state \in {"RdAck_C", "RdAck_D"}
         /\ p_state' = "RdAck_E" => p_state \in {"RdAck_D", "RdAck_E"}
<1>0. /\ p_state' = IF i_sclk_en => sclk THEN n_state ELSE p_state
      /\ data_out' = i_dout /\ ack_out' = i_ack_out
      /\ i_dout' = IF p_state = "Rd_C" THEN [i_dout EXCEPT ![i_ctr] = sda_in] ELSE i_dout
      /\ i_ack_out' = IF p_state = "RdAck_C" THEN sda_in ELSE i_ack_out
  BY DEF CoreClock, ReceivedBit
<1>1. CASE p_state \in {"Idle", "Start_D", "Rd_E", "Wr_D", "WrAck_D", "RdAck_E", "DoneAck"}
  BY <1>0, <1>1 DEF n_state, Transfer, IfStop
<1>2. CASE p_state \notin {"Idle", "Start_D", "Rd_E", "Wr_D", "WrAck_D", "RdAck_E", "DoneAck"}
  <2>1. n_state = Successor[p_state]
    BY <1>2 DEF n_state
  <2>2. p_state \in {"Rd_C", "RdAck_C"} => ~i_sclk_en
    BY DEF i_sclk_en, Waiting
  <2> QED BY <1>0, <1>2, <2>1, <2>2 DEF Successor, CoreState
<1> QED BY <1>1, <1>2

\* No symbol of a bit but where SCL falls.
LEMMA QuietBit ==
  ASSUME TypeInv, EndInv, LineInv, NEW act \in BOOLEAN, Tick(act), Kind \in BitKind,
         ~(Level = "falling" /\ ~High /\ ~Taken)
  PROVE  /\ Symbol(scl, SdaLine) = <<>>
         /\ Level \in {"top", "falling"} /\ ~Taken => sda_in = SdaLine /\ SdaLine' = SdaLine
<1>1. /\ BitInv /\ SclInv /\ Level \in {"first", "rising", "top", "falling", "over"}
      /\ TargetClock(scl, SdaLine) /\ sda_in = last_sda /\ sda_out' = i_sda_out
  BY InBit, Edge DEF LineInv
<1>2. last_scl = 0 \/ (scl_out = 1 /\ SdaLine = last_sda)
  BY <1>1 DEF SclInv, BitInv, Low, High, Rises, Falls, Taken
<1>3. t_sda' = t_sda /\ Symbol(scl, SdaLine) = <<>>
  BY <1>1, <1>2, NoEvent
<1>4. Level \in {"top", "falling"} /\ ~Taken => sda_in = SdaLine /\ SdaLine' = SdaLine
  BY <1>1, <1>3 DEF BitInv, SclInv, SdaLine, sda, High, Low, Taken
<1> QED BY <1>3, <1>4

\* When a symbol comes, and which.
LEMMA Appending ==
  ASSUME TypeInv, EndInv, LineInv, WireInv, NEW act \in BOOLEAN, Tick(act), ~Collected
  PROVE  \/ wire' = wire
         \/ /\ Kind \in BitKind /\ Level = "falling" /\ ~High /\ ~Taken
            /\ wire' = wire \o <<last_sda>> /\ Len(wire) = Base + Slot
            /\ SdaLine = last_sda
         \/ /\ Kind = "start" /\ Base = 1 /\ "start" \in asked.cmd
            /\ Len(wire) <= 1 /\ \E x \in Symbols : wire' = wire \o <<x>>
         \/ /\ Kind = "stop" /\ Len(wire) >= Base + DataBits + 1
            /\ \E x \in Symbols : wire' = wire \o <<x>>
<1>0. /\ wire' = wire \o Symbol(scl, SdaLine) /\ wire \in Seq(Symbols) /\ last_sda \in Bit
      /\ Kind \in BitKind \cup {"start", "stop", "rest"} /\ p_state \in CoreState
      /\ Emits /\ Len(wire) = Sent
  BY LineSteps, Groups DEF Tick, TypeInv, I2cTypeOK, TargetTypeOK, CoreTypeOK, WireInv
<1>1. Symbol(scl, SdaLine) = <<>> => wire' = wire
  BY <1>0
<1>2. CASE Kind = "rest"
  BY <1>1, <1>2, RestSteps
<1>3. CASE Kind \in BitKind
  <2>1. CASE Level = "falling" /\ ~High /\ ~Taken
    <3>1. Symbol(scl, SdaLine) = <<last_sda>>
      BY <1>3, <2>1, BitTaken
    <3>2. Sent = Base + Slot + 0
      BY <1>3, <2>1, SentInBit
    <3>3. Base + Slot + 0 = Base + Slot
      BY DataBitsAssumption DEF Base, Slot, TypeInv, I2cTypeOK, CoreTypeOK, Bits
    <3>4. SdaLine = last_sda
      BY <1>3, <2>1, InBit DEF BitInv, Taken
    <3> QED BY <1>0, <1>3, <2>1, <3>1, <3>2, <3>3, <3>4
  <2>2. CASE ~(Level = "falling" /\ ~High /\ ~Taken)
    BY <1>1, <1>3, <2>2, QuietBit
  <2> QED BY <2>1, <2>2
<1>4. CASE Kind \in {"start", "stop"}
  <2>1. wire' = wire \/ \E x \in Symbols : wire' = wire \o <<x>>
    BY <1>0, <1>1 DEF Emits
  <2>2. p_state \in Starting \cup Stopping /\ p_state # "DoneAck"
    BY <1>0, <1>4, Groups DEF Starting, Stopping
  <2>3. /\ ~(Kind \in BitKind) /\ (Kind = "start" => p_state \in Starting)
        /\ (Kind = "stop" => p_state \in Stopping)
    BY <1>0, <1>4, Groups DEF BitKind
  <2>4. Commanded /\ cmd = asked.cmd /\ StateInv
    BY <2>2, Steady, InCommand DEF Starting, Stopping
  <2>5. Kind = "start" => Base = 1 /\ "start" \in asked.cmd /\ Sent <= 1
    BY <1>0, <2>3, <2>4 DEF StateInv, Base, Sent, Starting, Bit
  <2>6. Kind = "stop" => Sent >= Base + DataBits + 1
    BY <1>0, <2>3, DataBitsAssumption DEF Sent, Stopping, Bit, Base
  <2> QED BY <1>0, <1>4, <2>1, <2>5, <2>6
<1> QED BY <1>0, <1>2, <1>3, <1>4

\* The levels the core stores are those that the bits' symbols will say.
LEMMA ReadSteps ==
  ASSUME TypeInv, EndInv, LineInv, WireInv, ReadInv, NEW act \in BOOLEAN, Tick(act),
         phase' # "ready", "read" \in asked'.cmd
  PROVE  /\ \A b \in Bits : b + 1 <= Len(wire') => i_dout'[b] = wire'[b + 1]
         /\ p_state' = "Rd_D" \/ (p_state' = "Rd_E" /\ ~Taken')
            => i_dout'[i_ctr'] = SdaLine'
<1>0. /\ p_state \in CoreState /\ CoreClock /\ wire \in Seq(Symbols) /\ i_ctr \in Bits
      /\ i_dout \in Byte /\ DataBits \in Nat \ {0} /\ last_sda \in Bit
      /\ Len(wire) = Sent /\ Len(wire) \in Nat /\ StateInv /\ CommandInv
  BY DataBitsAssumption DEF TypeInv, I2cTypeOK, CoreTypeOK, TargetTypeOK, Tick, WireInv,
     LineInv, AskedInv
<1>r. /\ p_state = "Rd_C" => /\ p_state' = "Rd_D"
                             /\ i_dout' = [i_dout EXCEPT ![i_ctr] = sda_in]
      /\ p_state # "Rd_C" => i_dout' = i_dout
      /\ p_state' = "Rd_D" => p_state \in {"Rd_C", "Rd_D"}
      /\ p_state' = "Rd_E" => p_state \in {"Rd_D", "Rd_E"}
  BY <1>0, CoreReceives
<1>1. CASE phase = "ready"
  <2>1. wire' = <<>> /\ p_state \in {"Reset", "Idle"}
    BY <1>1, WireSteps DEF EndInv, AtRest
  <2>2. Len(wire') = 0
    BY <2>1
  <2> QED BY <1>0, <1>r, <2>1, <2>2 DEF Bits
<1>2. CASE phase # "ready"
  <2>1. ~Collected /\ asked' = asked /\ "read" \in asked.cmd /\ "write" \notin asked.cmd
    BY <1>0, <1>2, WireSteps DEF Collected, CommandInv
  <2>2. Base = 0 /\ ~("start" \in asked.cmd)
    BY <1>0, <1>2, <2>1 DEF CommandInv, Base
  <2>3. /\ \A b \in Bits : b + 1 <= Len(wire) => i_dout[b] = wire[b + 1]
        /\ p_state = "Rd_D" \/ (p_state = "Rd_E" /\ ~Taken) => i_dout[i_ctr] = SdaLine
    BY <1>2, <2>1 DEF ReadInv
  <2>4. p_state \in {"Rd_C", "Rd_D", "Rd_E"}
        => /\ Kind = "rdata" /\ Kind \in BitKind /\ Slot = i_ctr
           /\ Level = IF p_state = "Rd_E" THEN "falling" ELSE "top"
    BY DEF Kind, BitKind, Slot, Level, WriteData, WriteAck, ReadData, ReadAck, Starting, Stopping
  <2>5. \A b \in Bits : b + 1 <= Len(wire') => i_dout'[b] = wire'[b + 1]
    <3>1. CASE p_state = "Rd_C"
      <4>1. ~Taken
        BY <2>4, <3>1 DEF Taken
      <4>2. wire' = wire
        BY <2>1, <2>4, <3>1, Appending
      <4>3. Sent = Base + Slot + 0
        BY <2>4, <3>1, <4>1, SentInBit
      <4>4. Len(wire) = i_ctr
        BY <1>0, <2>2, <2>4, <3>1, <4>3 DEF Bits
      <4>5. \A b \in Bits : b # i_ctr => i_dout'[b] = i_dout[b]
        BY <1>0, <1>r, <3>1 DEF Byte
      <4> QED BY <1>0, <2>3, <4>2, <4>4, <4>5 DEF Bits
    <3>2. CASE p_state # "Rd_C"
      <4>1. i_dout' = i_dout
        BY <1>r, <3>2
      <4>2. CASE wire' = wire
        BY <2>3, <4>1, <4>2
      <4>3. CASE \E x \in Symbols : wire' = wire \o <<x>>
        <5>1. PICK x \in Symbols : wire' = wire \o <<x>>
          BY <4>3
        <5>2. /\ Len(wire') = Len(wire) + 1
              /\ \A i \in 1 .. Len(wire) : wire'[i] = wire[i]
              /\ wire'[Len(wire) + 1] = x
          BY <1>0, <5>1
        <5>3. Len(wire) >= DataBits \/ (Len(wire) \in Bits /\ i_dout[Len(wire)] = x)
          <6>1. CASE wire' = wire
            BY <1>0, <5>2, <6>1
          <6>2. CASE /\ Kind \in BitKind /\ Level = "falling" /\ ~High /\ ~Taken
                     /\ wire' = wire \o <<last_sda>> /\ Len(wire) = Base + Slot
                     /\ SdaLine = last_sda
            <7>1. Kind \in {"rdata", "rack"}
              <8>1. cmd = asked.cmd
                BY <6>2, InBit
              <8> QED BY <1>0, <2>1, <6>2, <8>1 DEF StateInv, BitKind
            <7>2. CASE Kind = "rack"
              BY <1>0, <2>2, <6>2, <7>2 DEF Slot
            <7>3. CASE Kind = "rdata"
              <8>1. p_state = "Rd_E"
                BY <6>2, <7>3 DEF Kind, Level, WriteData, WriteAck, Starting, Stopping,
                   ReadData, ReadAck
              <8>2. Len(wire) = i_ctr /\ i_dout[i_ctr] = SdaLine
                BY <1>0, <2>2, <2>3, <2>4, <6>2, <8>1 DEF Bits
              <8>3. x = last_sda
                <9>1. wire'[Len(wire) + 1] = last_sda
                  BY <1>0, <6>2
                <9> QED BY <5>2, <9>1
              <8> QED BY <1>0, <6>2, <8>2, <8>3
            <7> QED BY <7>1, <7>2, <7>3
          <6>3. CASE Kind = "start" /\ "start" \in asked.cmd
            BY <2>2, <6>3
          <6>4. CASE Kind = "stop" /\ Len(wire) >= Base + DataBits + 1
            BY <1>0, <2>2, <6>4
          <6> QED BY <2>1, <6>1, <6>2, <6>3, <6>4, Appending
        <5> SUFFICES ASSUME NEW b \in Bits, b + 1 <= Len(wire')
                     PROVE  i_dout'[b] = wire'[b + 1]
          OBVIOUS
        <5>4. CASE b + 1 <= Len(wire)
          <6>1. b + 1 \in 1 .. Len(wire)
            BY <1>0, <5>4 DEF Bits
          <6> QED BY <2>3, <4>1, <5>2, <5>4, <6>1
        <5>5. CASE ~(b + 1 <= Len(wire))
          <6>1. b = Len(wire)
            BY <1>0, <5>2, <5>5 DEF Bits
          <6> QED BY <1>0, <4>1, <5>2, <5>3, <6>1 DEF Bits
        <5> QED BY <5>4, <5>5
      <4> QED BY <1>0, <2>1, <4>2, <4>3, Appending DEF Symbols
    <3> QED BY <3>1, <3>2
  <2>6. p_state' = "Rd_D" \/ (p_state' = "Rd_E" /\ ~Taken')
        => i_dout'[i_ctr'] = SdaLine'
    <3> SUFFICES ASSUME p_state' = "Rd_D" \/ (p_state' = "Rd_E" /\ ~Taken')
                 PROVE  i_dout'[i_ctr'] = SdaLine'
      OBVIOUS
    <3>1. p_state \in {"Rd_C", "Rd_D", "Rd_E"} /\ Level' \in {"top", "falling"}
      BY <1>r DEF Level
    <3>2. i_ctr' = i_ctr
      BY <1>0, <2>4, <3>1, BitMoves
    <3>3. ~Taken /\ ~(Level = "falling" /\ ~High /\ ~Taken)
      <4>1. CASE p_state = "Rd_E"
        <5>1. p_state' = "Rd_E"
          BY <1>r, <4>1
        <5>2. Level = "falling" /\ Level' = "falling"
          BY <4>1, <5>1 DEF Level
        <5>3. ~Low'
          BY <5>1, <5>2 DEF Taken
        <5>4. High
          BY <2>4, <4>1, <5>2, <5>3, BitTaken
        <5> QED BY <5>2, <5>4 DEF Taken, High, Low
      <4>2. CASE p_state # "Rd_E"
        BY <2>4, <3>1, <4>2 DEF Taken
      <4> QED BY <4>1, <4>2
    <3>4. sda_in = SdaLine /\ SdaLine' = SdaLine
      BY <2>4, <3>1, <3>3, QuietBit
    <3>5. CASE p_state = "Rd_C"
      BY <1>0, <1>r, <3>2, <3>4, <3>5 DEF Byte
    <3>6. CASE p_state # "Rd_C"
      BY <1>r, <2>3, <3>1, <3>2, <3>3, <3>4, <3>6
    <3> QED BY <3>5, <3>6
  <2> QED BY <2>5, <2>6
<1> QED BY <1>1, <1>2

LEMMA AckSteps ==
  ASSUME TypeInv, EndInv, LineInv, WireInv, AckInv, NEW act \in BOOLEAN, Tick(act),
         phase' # "ready", "write" \in asked'.cmd
  PROVE  /\ Len(wire') > Base' + DataBits => i_ack_out' = wire'[Base' + DataBits + 1]
         /\ p_state' = "RdAck_D" \/ (p_state' = "RdAck_E" /\ ~Taken')
            => i_ack_out' = SdaLine'
<1>0. /\ p_state \in CoreState /\ CoreClock /\ wire \in Seq(Symbols) /\ i_ctr \in Bits
      /\ DataBits \in Nat \ {0} /\ last_sda \in Bit
      /\ Len(wire) = Sent /\ Len(wire) \in Nat /\ StateInv /\ CommandInv
      /\ Base \in {0, 1} /\ Base' \in {0, 1}
  BY DataBitsAssumption DEF TypeInv, I2cTypeOK, CoreTypeOK, TargetTypeOK, Tick, WireInv,
     LineInv, AskedInv, Base
<1>r. /\ p_state = "RdAck_C" => p_state' = "RdAck_D" /\ i_ack_out' = sda_in
      /\ p_state # "RdAck_C" => i_ack_out' = i_ack_out
      /\ p_state' = "RdAck_D" => p_state \in {"RdAck_C", "RdAck_D"}
      /\ p_state' = "RdAck_E" => p_state \in {"RdAck_D", "RdAck_E"}
  BY <1>0, CoreReceives
<1>1. CASE phase = "ready"
  <2>1. wire' = <<>> /\ p_state \in {"Reset", "Idle"}
    BY <1>1, WireSteps DEF EndInv, AtRest
  <2>2. Len(wire') = 0
    BY <2>1
  <2> QED BY <1>0, <1>r, <2>1, <2>2
<1>2. CASE phase # "ready"
  <2>1. ~Collected /\ asked' = asked /\ "write" \in asked.cmd /\ Base' = Base
    BY <1>0, <1>2, WireSteps DEF Collected, Base
  <2>3. /\ Len(wire) > Base + DataBits => i_ack_out = wire[Base + DataBits + 1]
        /\ p_state = "RdAck_D" \/ (p_state = "RdAck_E" /\ ~Taken) => i_ack_out = SdaLine
    BY <1>2, <2>1 DEF AckInv
  <2>4. p_state \in {"RdAck_C", "RdAck_D", "RdAck_E"}
        => /\ Kind = "wack" /\ Kind \in BitKind /\ Slot = DataBits
           /\ Level = IF p_state = "RdAck_E" THEN "falling" ELSE "top"
    BY DEF Kind, BitKind, Slot, Level, WriteData, WriteAck, ReadData, ReadAck, Starting,
       Stopping
  <2>5. Len(wire') > Base + DataBits => i_ack_out' = wire'[Base + DataBits + 1]
    <3>1. CASE p_state = "RdAck_C"
      <4>1. ~Taken
        BY <2>4, <3>1 DEF Taken
      <4>2. wire' = wire
        BY <2>1, <2>4, <3>1, Appending
      <4>3. Sent = Base + Slot + 0
        BY <2>4, <3>1, <4>1, SentInBit
      <4>4. Len(wire) = Base + DataBits
        BY <1>0, <2>4, <3>1, <4>3
      <4> QED BY <1>0, <4>2, <4>4
    <3>2. CASE p_state # "RdAck_C"
      <4>1. i_ack_out' = i_ack_out
        BY <1>r, <3>2
      <4>2. CASE wire' = wire
        BY <2>3, <4>1, <4>2
      <4>3. CASE \E x \in Symbols : wire' = wire \o <<x>>
        <5>1. PICK x \in Symbols : wire' = wire \o <<x>>
          BY <4>3
        <5>2. /\ Len(wire') = Len(wire) + 1
              /\ \A i \in 1 .. Len(wire) : wire'[i] = wire[i]
              /\ wire'[Len(wire) + 1] = x
          BY <1>0, <5>1
        <5>3. Len(wire) = Base + DataBits => i_ack_out = x
          <6>1. CASE wire' = wire
            BY <1>0, <5>2, <6>1
          <6>2. CASE /\ Kind \in BitKind /\ Level = "falling" /\ ~High /\ ~Taken
                     /\ wire' = wire \o <<last_sda>> /\ Len(wire) = Base + Slot
                     /\ SdaLine = last_sda
            <7>1. Kind \in {"wdata", "wack"}
              <8>1. cmd = asked.cmd
                BY <6>2, InBit
              <8> QED BY <1>0, <2>1, <6>2, <8>1 DEF StateInv, BitKind
            <7>2. CASE Kind = "wdata"
              BY <1>0, <6>2, <7>2 DEF Slot, Bits
            <7>3. CASE Kind = "wack"
              <8>1. p_state = "RdAck_E"
                BY <6>2, <7>3 DEF Kind, Level, WriteData, WriteAck, Starting, Stopping,
                   ReadData, ReadAck
              <8>2. i_ack_out = SdaLine
                BY <2>3, <6>2, <8>1
              <8>3. x = last_sda
                <9>1. wire'[Len(wire) + 1] = last_sda
                  BY <1>0, <6>2
                <9> QED BY <5>2, <9>1
              <8> QED BY <6>2, <8>2, <8>3
            <7> QED BY <7>1, <7>2, <7>3
          <6>3. CASE Base = 1 /\ Len(wire) <= 1
            BY <1>0, <6>3
          <6>4. CASE Kind = "stop" /\ Len(wire) >= Base + DataBits + 1
            BY <1>0, <6>4
          <6> QED BY <2>1, <6>1, <6>2, <6>3, <6>4, Appending
        <5>4. CASE Len(wire) > Base + DataBits
          <6>1. Base + DataBits + 1 \in 1 .. Len(wire)
            BY <1>0, <5>4
          <6> QED BY <2>3, <4>1, <5>2, <5>4, <6>1
        <5>5. CASE Len(wire) = Base + DataBits
          BY <4>1, <5>2, <5>3, <5>5
        <5>6. CASE Len(wire) < Base + DataBits
          BY <1>0, <5>2, <5>6
        <5> QED BY <1>0, <5>4, <5>5, <5>6
      <4> QED BY <1>0, <2>1, <4>2, <4>3, Appending DEF Symbols
    <3> QED BY <3>1, <3>2
  <2>6. p_state' = "RdAck_D" \/ (p_state' = "RdAck_E" /\ ~Taken')
        => i_ack_out' = SdaLine'
    <3> SUFFICES ASSUME p_state' = "RdAck_D" \/ (p_state' = "RdAck_E" /\ ~Taken')
                 PROVE  i_ack_out' = SdaLine'
      OBVIOUS
    <3>1. p_state \in {"RdAck_C", "RdAck_D", "RdAck_E"} /\ Level' \in {"top", "falling"}
      BY <1>r DEF Level
    <3>3. ~Taken /\ ~(Level = "falling" /\ ~High /\ ~Taken)
      <4>1. CASE p_state = "RdAck_E"
        <5>1. p_state' = "RdAck_E"
          BY <1>r, <4>1
        <5>2. Level = "falling" /\ Level' = "falling"
          BY <4>1, <5>1 DEF Level
        <5>3. ~Low'
          BY <5>1, <5>2 DEF Taken
        <5>4. High
          BY <2>4, <4>1, <5>2, <5>3, BitTaken
        <5> QED BY <5>2, <5>4 DEF Taken, High, Low
      <4>2. CASE p_state # "RdAck_E"
        BY <2>4, <3>1, <4>2 DEF Taken
      <4> QED BY <4>1, <4>2
    <3>4. sda_in = SdaLine /\ SdaLine' = SdaLine
      BY <2>4, <3>1, <3>3, QuietBit
    <3>5. CASE p_state = "RdAck_C"
      BY <1>r, <3>4, <3>5
    <3>6. CASE p_state # "RdAck_C"
      BY <1>r, <2>3, <3>1, <3>3, <3>4, <3>6
    <3> QED BY <3>5, <3>6
  <2> QED BY <2>1, <2>5, <2>6
<1> QED BY <1>1, <1>2

\* At rest what the core received stands in its output registers, and the host
\* fetches it from there.
LEMMA FetchSteps ==
  ASSUME TypeInv, EndInv, LineInv, OutInv, FetchInv, NEW act \in BOOLEAN, Tick(act)
  PROVE  OutInv' /\ FetchInv'
<1>0. /\ p_state \in CoreState /\ CoreClock /\ HostClock(act)
      /\ InterfaceClock(bus, t_sda) /\ CommandInv
  BY DEF TypeInv, I2cTypeOK, CoreTypeOK, Tick, LineInv, AskedInv
<1>1. OutInv'
  BY <1>0, CoreReceives DEF OutInv
<1>2. /\ p_state # "Rd_D" => data_out' = data_out
      /\ p_state # "RdAck_D" => ack_out' = ack_out
  BY <1>0, CoreReceives DEF OutInv
<1>3. /\ Reads(bus, "SR") => /\ readdata'.sr.lar = ack_out
                             /\ (readdata'.sr.tip <=> Commanded)
      /\ ~Reads(bus, "SR") => readdata'.sr = readdata.sr
      /\ Reads(bus, "DR") => readdata'.dr = data_out
  BY <1>0 DEF InterfaceClock, ReadMux, i_tip_reg
<1>4. ASSUME phase' # "ready", ~asked'.ien,
             phase' = "collecting" \/ (bus'.op = "capture" /\ ~readdata'.sr.tip)
      PROVE  readdata'.sr.lar = ack_out'
  <2>1. phase # "ready"
    <3>1. phase = "ready" => phase' # "collecting" /\ bus'.op \in {"none", "write"}
      BY <1>0, HostSteps DEF EndInv, Chooses, Commits
    <3> QED BY <1>4, <3>1
  <2>2. asked' = asked /\ ~asked.ien
    BY <1>0, <1>4, <2>1, CommandSteps
  <2>3. CASE phase = "collecting"
    <3>1. p_state \in {"Reset", "Idle"} /\ ~Reads(bus, "SR")
      BY <2>3 DEF EndInv, AtRest, Fetches, Reads
    <3> QED BY <1>2, <1>3, <2>1, <2>2, <2>3, <3>1 DEF FetchInv
  <2>4. CASE phase = "waiting" /\ bus.op = "capture"
    <3>1. Reads(bus, "SR")
      BY <2>4 DEF EndInv, Polls, PollsTip, Commits, Reads
    <3>2. bus'.op = "none"
      BY <1>0, <2>4, HostSteps
    <3>3. ~readdata.sr.tip
      <4>1. phase' = "collecting"
        BY <1>4, <3>2
      <4>2. bus.reg # "DR"
        BY <2>4 DEF EndInv, Polls, PollsTip, Commits
      <4> QED BY <1>0, <2>4, <4>1, <4>2, HostSteps
    <3>4. p_state # "RdAck_D"
      BY <2>4, <3>3 DEF EndInv, PollsTip, Finished, Acked, Trailing, AtRest, Commits
    <3> QED BY <1>2, <1>3, <3>1, <3>4
  <2>5. CASE phase = "waiting" /\ bus.op # "capture"
    <3>1. phase' = "waiting" /\ bus.op = "read" /\ bus'.op = "capture"
      <4>1. ~(bus.op = "none" /\ irq /\ phase' = "collecting" /\ bus' = BusRead("DR"))
            \/ bus'.op # "capture"
        BY DEF BusRead
      <4>2. Interrupted => asked.ien
        BY DEF Interrupted
      <4>3. phase' = "collecting" => Interrupted
        BY <1>0, <2>5 DEF HostClock, Issues, Ready, Ask, Poll, Collect, Sleeps, Waits,
           Wrote, Holds, Captures, host_vars
      <4>4. phase' = "waiting"
        BY <1>0, <1>4, <2>2, <2>5, <4>2, <4>3, HostTypeSteps
      <4> QED BY <1>0, <1>4, <2>5, <4>4, HostSteps DEF BusRead
    <3>2. Reads(bus, "SR")
      BY <2>5, <3>1 DEF EndInv, Polls, PollsTip, Commits, Reads
    <3>3. ~Commanded
      BY <1>3, <1>4, <3>1, <3>2
    <3>4. p_state # "RdAck_D"
      BY <2>5, <3>3 DEF EndInv, Running, Finished, Acked, Trailing, AtRest, Commits
    <3> QED BY <1>2, <1>3, <3>2, <3>4
  <2> QED BY <2>1, <2>3, <2>4, <2>5 DEF TypeInv, I2cTypeOK
<1>5. ASSUME phase' = "collecting", bus'.op = "capture"
      PROVE  readdata'.dr = data_out'
  <2>1. phase = "collecting" /\ bus.op = "read"
    <3>1. phase = "ready" => phase' # "collecting"
      BY <1>0, HostSteps DEF EndInv, Chooses
    <3>2. phase = "waiting" /\ phase' = "collecting" => bus'.op # "capture"
      BY <1>0, HostSteps DEF BusRead, EndInv, Polls, PollsTip, Commits
    <3> QED BY <1>0, <1>5, <3>1, <3>2, HostSteps DEF TypeInv, I2cTypeOK, BusRead, EndInv,
            Fetches
  <2>2. Reads(bus, "DR") /\ p_state \in {"Reset", "Idle"}
    BY <2>1 DEF EndInv, AtRest, Fetches, Reads
  <2> QED BY <1>2, <1>3, <2>2
<1> QED BY <1>1, <1>4, <1>5 DEF FetchInv

LEMMA InitResult == Init => ResultInv
<1> SUFFICES ASSUME Init PROVE ResultInv
  OBVIOUS
<1>1. /\ data_out = i_dout /\ ack_out = i_ack_out
      /\ phase = "ready"
  BY DEF Init, CoreInit, HostInit
<1> QED BY <1>1 DEF ResultInv, OutInv, ReadInv, AckInv, FetchInv

LEMMA ResultSteps ==
  ASSUME TypeInv, EndInv, LineInv, WireInv, ResultInv, NEW act \in BOOLEAN, Tick(act)
  PROVE  ResultInv'
<1>1. OutInv' /\ FetchInv'
  BY FetchSteps DEF ResultInv
<1>2. ReadInv'
  BY ReadSteps DEF ResultInv, ReadInv
<1>3. AckInv'
  BY AckSteps DEF ResultInv, AckInv
<1> QED BY <1>1, <1>2, <1>3 DEF ResultInv

LEMMA ResultStutter ==
  ASSUME UNCHANGED vars
  PROVE  ResultInv => ResultInv'
<1>0. /\ UNCHANGED clkgen_vars /\ UNCHANGED core_vars /\ UNCHANGED interface_vars
      /\ UNCHANGED target_vars /\ UNCHANGED host_vars
  BY DEF vars
<1>1. /\ UNCHANGED <<p_state, i_ctr, i_dout, i_ack_out, data_out, ack_out, readdata>>
      /\ UNCHANGED <<sda_out, scl_out, last_scl, t_sda, wire, bus, asked, phase>>
  BY <1>0 DEF core_vars, interface_vars, target_vars, host_vars
<1>2. UNCHANGED <<Level, Base, SdaLine>>
  BY <1>1 DEF Level, Base, SdaLine, sda
<1>3. Taken' <=> Taken
  BY <1>1, <1>2 DEF Taken, Low
<1>4. OutInv => OutInv'
  BY <1>1 DEF OutInv
<1>5. ReadInv => ReadInv'
  BY <1>1, <1>2, <1>3 DEF ReadInv
<1>6. AckInv => AckInv'
  BY <1>1, <1>2, <1>3 DEF AckInv
<1>7. FetchInv => FetchInv'
  BY <1>1 DEF FetchInv
<1> QED BY <1>4, <1>5, <1>6, <1>7 DEF ResultInv

\* What the host holds when it is done is what is on the wire.
LEMMA Collecting ==
  ASSUME TypeInv, EndInv, LineInv, WireInv, ResultInv, NEW act \in BOOLEAN, Tick(act),
         Collected
  PROVE  /\ "read" \in asked.cmd => \A b \in Bits : readdata.dr[b] = wire[b + 1]
         /\ "write" \in asked.cmd /\ ~asked.ien
            => readdata.sr.lar
                 = wire[DataBits + (IF "start" \in asked.cmd THEN 2 ELSE 1)]
<1>1. phase = "collecting" /\ HostClock(act) /\ phase' = "ready"
  BY DEF Collected, Tick
<1>2. AtRest /\ Fetches
  BY <1>1 DEF EndInv
<1>3. bus.op = "capture"
  BY <1>1, <1>2, HostSteps DEF Fetches
<1>4. readdata.dr = i_dout
  BY <1>1, <1>2, <1>3 DEF ResultInv, FetchInv, OutInv, AtRest
<1>5. ~asked.ien => readdata.sr.lar = i_ack_out
  BY <1>1, <1>2 DEF ResultInv, FetchInv, OutInv, AtRest
<1>6. Len(wire) = Total /\ DataBits \in Nat \ {0} /\ Base \in {0, 1}
  BY WireSteps, DataBitsAssumption DEF Base
<1>7. Len(wire) > Base + DataBits /\ Len(wire) > DataBits
  BY <1>6 DEF Total
<1>8. ASSUME "read" \in asked.cmd, NEW b \in Bits
      PROVE  readdata.dr[b] = wire[b + 1]
  <2>1. b + 1 <= Len(wire)
    BY <1>6, <1>7 DEF Bits, Total
  <2> QED BY <1>1, <1>4, <1>8, <2>1 DEF ResultInv, ReadInv
<1>9. ASSUME "write" \in asked.cmd, ~asked.ien
      PROVE  readdata.sr.lar
               = wire[DataBits + (IF "start" \in asked.cmd THEN 2 ELSE 1)]
  <2>1. readdata.sr.lar = wire[Base + DataBits + 1]
    BY <1>1, <1>5, <1>7, <1>9 DEF ResultInv, AckInv
  <2>2. Base + DataBits + 1 = DataBits + (IF "start" \in asked.cmd THEN 2 ELSE 1)
    BY <1>6 DEF Base
  <2> QED BY <2>1, <2>2
<1> QED BY <1>8, <1>9

\* What the host ends a command with (i2c_interface.vhd:235-256) is what was on
\* the wire: the byte of a read, which the core took bit by bit in the middle
\* of SCL's high phase (i2c_core.vhd:142-173), and the acknowledge of a write
\* that it polled for.
THEOREM HostReadsWire == Spec => ResultsMatchWire
<1> DEFINE Inv == TypeInv /\ EndInv /\ LineInv /\ WireInv /\ ResultInv
<1>1. Init => ResultInv
  BY InitResult
<1>2. Inv /\ [Next]_vars => ResultInv'
  BY ResultSteps, ResultStutter DEF Next
<1>3. Inv /\ [Next]_vars
      => [Collected
          => /\ "read" \in asked.cmd =>
                  \A b \in Bits : readdata.dr[b] = wire[b + 1]
             /\ "write" \in asked.cmd /\ ~asked.ien =>
                  readdata.sr.lar =
                    wire[DataBits + (IF "start" \in asked.cmd THEN 2 ELSE 1)]]_vars
  BY Collecting DEF Next
<1> QED BY <1>1, <1>2, <1>3, WireAlways, PTL DEF Spec, ResultsMatchWire
=============================================================================
