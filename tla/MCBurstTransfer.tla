--------------------------- MODULE MCBurstTransfer ---------------------------
(* Small instances of BurstTransfer.                                         *)
EXTENDS BurstTransfer, TLC

\* No byte, one fragment, the longest Reed-Solomon block, the shortest behind it.
MCSizes == {0, 3, 5, 7}
==============================================================================
