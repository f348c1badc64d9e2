----------------------------- MODULE I2cTarget -----------------------------
(***************************************************************************)
(* The other end of the two lines (external): a target that follows the    *)
(* I2C-bus specification, and its record of what it sees there.  It takes  *)
(* a bit when SCL falls, a change of SDA while SCL is high is a START or a *)
(* STOP, and one that comes with the falling edge is recorded as a Glitch. *)
(* It changes its own level one cycle after it has seen SCL fall.          *)
(***************************************************************************)
EXTENDS I2cTypes, Sequences

VARIABLES t_sda,               \* the level it allows on SDA
          last_scl, last_sda,  \* the lines in the cycle before
          marked,   \* this high phase of SCL has had its START or STOP
          t_dir,    \* idle, addressed (first byte), rx, tx, or off
          t_bits,   \* bits of the byte (and acknowledge) so far
          wire      \* symbols since the host's last command

target_vars == <<t_sda, last_scl, last_sda, marked, t_dir, t_bits, wire>>

TargetTypeOK ==
  /\ {t_sda, last_scl, last_sda} \subseteq Bit /\ marked \in BOOLEAN
  /\ t_dir \in {"idle", "addressed", "rx", "tx", "off"}
  /\ t_bits \in 0 .. DataBits
  /\ wire \in Seq(Symbols)

TargetInit ==
  /\ t_sda = 1 /\ last_scl = 1 /\ last_sda = 1 /\ marked = TRUE
  /\ t_dir = "idle" /\ t_bits = 0 /\ wire = <<>>

-----------------------------------------------------------------------------
Started(scl, sda) == last_scl = 1 /\ scl = 1 /\ last_sda = 1 /\ sda = 0
Stopped(scl, sda) == last_scl = 1 /\ scl = 1 /\ last_sda = 0 /\ sda = 1
Fell(scl)         == last_scl = 1 /\ scl = 0

\* The symbol that this cycle completes, if any.
Symbol(scl, sda) ==
  CASE Started(scl, sda)           -> <<START>>
    [] Stopped(scl, sda)           -> <<STOP>>
    [] Fell(scl) /\ sda # last_sda -> <<Glitch>>
    [] Fell(scl) /\ ~marked        -> <<last_sda>>
    [] OTHER                       -> <<>>

\* A bit of a byte.  In a byte it sends the target chooses every next bit; of
\* a byte it receives it chooses the acknowledge.
TakeBit ==
  LET n == t_bits + 1
  IN  CASE n < DataBits ->
             /\ t_bits' = n /\ UNCHANGED t_dir
             /\ t_sda' \in IF t_dir = "tx" THEN {0, 1} ELSE {1}
        [] n = DataBits ->
             /\ t_bits' = n
             /\ t_sda' \in IF t_dir \in {"addressed", "rx"} THEN {0, 1} ELSE {1}
             /\ t_dir' = IF t_dir # "addressed" THEN t_dir
                         ELSE IF last_sda = 1 THEN "tx" ELSE "rx"
        [] OTHER ->
             /\ t_bits' = 0
             /\ t_dir' = IF last_sda = 1 THEN "off" ELSE t_dir
             /\ t_sda' \in IF t_dir' = "tx" THEN {0, 1} ELSE {1}

TargetClock(scl, sda) ==
  /\ last_scl' = scl /\ last_sda' = sda
  /\ marked' = (\/ Started(scl, sda) \/ Stopped(scl, sda)
                \/ marked /\ ~Fell(scl))
  /\ IF Started(scl, sda) THEN t_dir' = "addressed" /\ t_bits' = 0 /\ t_sda' = 1
     ELSE IF Stopped(scl, sda) THEN t_dir' = "idle" /\ t_bits' = 0 /\ t_sda' = 1
     ELSE IF Fell(scl) /\ ~marked /\ t_dir # "idle" THEN TakeBit
     ELSE UNCHANGED <<t_dir, t_bits, t_sda>>
=============================================================================
