----------------------------- MODULE I2cClkgen -----------------------------
(***************************************************************************)
(* src/hw/quartus/ip/i2c/hdl/i2c_clkgen.vhd: one pulse of sclk every       *)
(* clk_cnt + 1 cycles.  Clock stretching is wired off (clk_wait <= '0').   *)
(***************************************************************************)
EXTENDS Integers

CONSTANT Divisors  \* the values software gives the clock divisor register

ASSUME DivisorsAssumption == Divisors \subseteq Nat \ {0} /\ Divisors # {}

VARIABLES clk_ctr, sclk

clkgen_vars == <<clk_ctr, sclk>>

ClkgenInit == clk_ctr = 0 /\ sclk = TRUE

ClkgenClockAtEquality(clk_cnt) ==
  /\ sclk' = (clk_ctr = clk_cnt)
  /\ clk_ctr' = IF clk_ctr = clk_cnt THEN 0 ELSE clk_ctr + 1
ClkgenClock(clk_cnt) ==
  /\ sclk' = (clk_ctr >= clk_cnt)
  /\ clk_ctr' = IF clk_ctr >= clk_cnt THEN 0 ELSE clk_ctr + 1
=============================================================================
