----------------------------- MODULE MCSahlSync -----------------------------
(* Instances of SahlSync for TLC. *)
EXTENDS SahlSync, TLC

CONSTANTS t1, t2, t3, sale, c1, c2, c3

Interchangeable == Permutations({c1, c2, c3} \cap Conn)

\* Where every till may do the same.
TillsToo == Interchangeable \cup Permutations(Device)

\* How many events each till records, by scenario.
BothSell == [d \in Device |-> IF d = t3 THEN 0 ELSE 2]
OneSells == [d \in Device |-> IF d = t1 THEN 2 ELSE 0]
EachSellsOne == [d \in Device |-> IF d = t3 THEN 0 ELSE 1]
=============================================================================
