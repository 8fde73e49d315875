---------------------------- MODULE MCSahlRestore ----------------------------
(* Instances of SahlRestore for TLC. *)
EXTENDS SahlRestore

CONSTANTS t1, sale, refund, c1, c2

\* Room to sell past the server's tip after a restore.
SellsTwo == [d \in Device |-> 2]
=============================================================================
