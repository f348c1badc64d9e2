----------------------------- MODULE LcdService -----------------------------
(***************************************************************************)
(* What the driver and the accelerator promise to main(): the display      *)
(* receives, in the order of the calls and with nothing lost, repeated or  *)
(* interleaved, the transfers that the calls stand for.  send_command      *)
(* returns when all of its transfers are done.  start_lcd returns earlier: *)
(* up to Behind transfers of its image may still be on their way.          *)
(***************************************************************************)
EXTENDS Integers, SequencesExt

CONSTANTS Program, WriteMemory, Behind

VARIABLES call, out

\* The image that a start_lcd at position n displays.
ImageAt(n) ==
  Program[CHOOSE i \in 1 .. n :
            /\ Program[i].op = "configure_image"
            /\ \A j \in i + 1 .. n : Program[j].op # "configure_image"]

\* The transfers of the n-th call.
Transfers(n) ==
  CASE Program[n].op = "send_command" ->
         <<[cx |-> 0, d |-> Program[n].cmd]>>
         \o [i \in 1 .. Len(Program[n].params) |->
               [cx |-> 1, d |-> Program[n].params[i]]]
    [] Program[n].op = "start_lcd" ->
         <<[cx |-> 0, d |-> WriteMemory]>>
         \o [i \in 1 .. ImageAt(n).size \div 2 |->
               [cx |-> 1, d |-> ImageAt(n).addr + 2 * (i - 1)]]
    [] OTHER -> <<>>

Stream(n) == FlattenSeq([i \in 1 .. n |-> Transfers(i)])
Done == call > Len(Program)
Begun == Stream(IF Done THEN Len(Program) ELSE call)

Init == call = 1 /\ out = <<>>

\* The call returns and the next one begins.
Return ==
  /\ ~Done /\ call' = call + 1
  /\ Program[call].op = "send_command" => out = Begun
  /\ Program[call].op = "start_lcd" => Len(out) + Behind >= Len(Begun)

\* The display takes the next transfer of a call that has begun.
Transfer ==
  /\ Len(out) < Len(Begun)
  /\ out' = Append(out, Begun[Len(out) + 1])

Next == \/ Return /\ UNCHANGED out
        \/ Transfer /\ UNCHANGED call
        \/ Return /\ Transfer

Spec == Init /\ [][Next]_<<call, out>>
=============================================================================
