---------------------------- MODULE FetchService ----------------------------
(***************************************************************************)
(* What DMA, memory and FIFO together promise to software and to the LCD   *)
(* controller, without bursts, counters or memory timing: between the      *)
(* cycle that raises lcd_enable and the one that clears it, exactly the    *)
(* words of the image enter the queue, in order, none of them dropped.     *)
(***************************************************************************)
EXTENDS Words, Sequences

CONSTANTS Images,   \* the [address, length] pairs software may configure
          Capacity  \* of the queue

VARIABLES enabled,  \* an image is being fetched
          next,     \* address of its next word (0 while not enabled)
          left,     \* bytes not queued yet
          queue

service_vars == <<enabled, next, left, queue>>

Init == enabled = FALSE /\ next = 0 /\ left = 0 /\ queue = <<>>

\* The queue in one cycle: a word of the image may enter, the head may leave.
Move(push, pop) ==
  LET rest == IF pop /\ queue # <<>> THEN Tail(queue) ELSE queue
  IN  /\ push => left > 0
      /\ queue' = IF push THEN Append(rest, next) ELSE rest
      /\ Len(queue') <= Capacity

Begin ==
  /\ ~enabled /\ enabled' = TRUE
  /\ \E im \in Images : next' = im.address /\ left' = im.length

Fetch(push) ==
  /\ UNCHANGED enabled
  /\ next' = IF push THEN Plus2(next) ELSE next
  /\ left' = IF push THEN Minus2(left) ELSE left

Finish == enabled /\ left = 0 /\ enabled' = FALSE /\ next' = 0 /\ left' = 0

Next == \E push, pop \in BOOLEAN :
          /\ Move(push, pop)
          /\ \/ ~push /\ Begin
             \/ Fetch(push)
             \/ ~push /\ Finish

Spec == Init /\ [][Next]_service_vars
=============================================================================
