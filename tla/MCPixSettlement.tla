-------------------------- MODULE MCPixSettlement --------------------------
(* Instances of PixSettlement small enough for TLC. *)
EXTENDS PixSettlement, TLC

CONSTANTS k1

MCContractOf == [c \in Charges |-> k1]
\* The first charge is a part of the debt, the second one covers it.
MCAmount == [c \in Charges |-> 2 * c - 1]
MCUpdatedValue == [k \in Contracts |-> 3]

MCSymmetry == Permutations(Webhooks) \cup Permutations(Cycles)
=============================================================================
