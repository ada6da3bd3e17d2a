--------------------------- MODULE MC_EslTransfer ---------------------------
(* Small pictures for EslTransfer.  The first has a last packet that is not *)
(* full, so its index equals length / PacketBytes; the second fills its     *)
(* packets, and its last batch.                                             *)
EXTENDS EslTransfer

CONSTANTS p1, p2

MCPictures == {p1, p2}

MCLength == [p \in MCPictures |-> IF p = p1 THEN 9 ELSE 8]

MCBatch == [p \in MCPictures |-> 2]

=============================================================================
