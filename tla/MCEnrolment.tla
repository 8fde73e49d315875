----------------------------- MODULE MCEnrolment -----------------------------
(* Instance of Enrolment for TLC. *)
EXTENDS Enrolment, TLC

CONSTANTS t1, t2, k1, k2

\* One sound configuration, and the three Config::validate refuses.
Settings ==
    { [tag |-> "up", connections |-> n, ttl |-> l, skew |-> s, hour |-> 2] :
        <<n, l, s>> \in { <<2, 1, 1>>, <<0, 1, 1>>, <<2, 0, 1>>, <<2, 1, 3>> } }

Either == Permutations({t1, t2}) \cup Permutations({k1, k2})
=============================================================================
