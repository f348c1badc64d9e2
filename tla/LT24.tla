-------------------------------- MODULE LT24 --------------------------------
(***************************************************************************)
(* The LT24 display (external), as the controller's outputs serve it: it   *)
(* takes D and D_CX at every rising edge of WRX.  `out` is all it has      *)
(* taken, and `held` for how many cycles WRX has had its level, up to the  *)
(* five cycles (cc4 from 0 to 4) that the controller gives every phase.    *)
(***************************************************************************)
EXTENDS LCDController

VARIABLES out, held

display_vars == <<out, held>>

Phase == 5

DisplayInit == out = <<>> /\ held = Phase

Latch == ~WRX /\ WRX'

DisplayClock ==
  /\ out' = IF Latch THEN Append(out, [cx |-> D_CX', d |-> D']) ELSE out
  /\ held' = IF WRX' # WRX THEN 1
             ELSE IF held < Phase THEN held + 1 ELSE held
=============================================================================
