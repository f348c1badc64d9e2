---------------------------- MODULE AvalonMemory ----------------------------
(***************************************************************************)
(* The memory at the far end of the DMA's Avalon master: Qsys interconnect *)
(* (16 to 32 bit width adapter), address span extender and HPS SDRAM, none *)
(* of them under src/hw/hdl.  Modelled from how the master uses it         *)
(* (DMAController.vhd:80-98) and from its parameters in soc_system.qsys.   *)
(*                                                                         *)
(*   - A burst is accepted by lowering waitrequest, at any cycle, and only *)
(*     when no word is outstanding (the extender has one pending read).    *)
(*   - Words come back in address order after any delay, with any gaps,    *)
(*     except that the two halves of a 32-bit beat come back to back.      *)
(*   - The word stored at byte address a is modelled by a itself, so that  *)
(*     a misplaced, missing or repeated word shows.                        *)
(***************************************************************************)
EXTENDS Words

VARIABLES m_addr,  \* byte address of the next word to return
          m_left   \* words of the accepted burst not returned yet

mem_vars == <<m_addr, m_left>>

MemInit == m_addr = 0 /\ m_left = 0

\* The width adapter holds the upper half of a beat it has begun to return.
SecondHalf(burst) == 0 < m_left /\ m_left < burst /\ m_addr % 4 = 2

MemClock(read, address, burst, accept, deliver) ==
  /\ accept => read /\ m_left = 0
  /\ deliver => m_left > 0
  /\ SecondHalf(burst) => deliver
  /\ IF accept
     THEN m_addr' = address /\ m_left' = burst
     ELSE IF deliver
          THEN m_addr' = Plus2(m_addr) /\ m_left' = m_left - 1
          ELSE UNCHANGED mem_vars
=============================================================================
