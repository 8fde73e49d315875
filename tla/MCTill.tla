------------------------------- MODULE MCTill -------------------------------
(* Instances of Till for TLC. *)
EXTENDS Till, TLC

CONSTANTS s1, s2, s3, h1, h2, x, y

Symmetric == Permutations({s1, s2, s3} \cap Ticket) \cup Permutations({h1, h2} \cap Shift)

\* No sibling, one that sells, one that opens a shift of its own.
NoSibling == << >>
SiblingSells == << [kind |-> "sale_opened", ref |-> x],
                   [kind |-> "sale_completed", ref |-> x],
                   [kind |-> "invoice", ref |-> x] >>
SiblingWorks == << [kind |-> "shift_opened", ref |-> y] >>
=============================================================================
