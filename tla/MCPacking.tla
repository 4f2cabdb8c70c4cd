------------------------------ MODULE MCPacking -------------------------------
(***************************************************************************)
(* Packing for TLC: grey levels at every boundary of the arithmetic, and   *)
(* colours with three different components to tell the lanes apart.        *)
(***************************************************************************)
EXTENDS Packing

Levels ==
  {1, 15, 16, 17, 31, 32, 33, 63, 64, 223, 224, 225, 239, 240, 255, 256, 257, 288, 4095,
   32767, 32768, 65248, 65249, 65279, 65280, 65281, 65503, 65504, 65535}

Grey(v) == [c \in Components |-> v]

MCColors ==
  {Grey(v) : v \in Levels} \cup
  {[r |-> 40, g |-> 300, b |-> 5000], [r |-> 0, g |-> 65535, b |-> 1029],
   [r |-> 61234, g |-> 77, b |-> 0]}

===============================================================================
