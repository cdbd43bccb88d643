--------------------------- MODULE MCTransferQueue ---------------------------
(* Instances of TransferQueue for TLC.                                      *)
EXTENDS TransferQueue
CONSTANTS up, down, tab

OneTab == [j \in Jobs |-> tab]
==============================================================================
