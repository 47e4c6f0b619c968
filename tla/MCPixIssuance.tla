--------------------------- MODULE MCPixIssuance ---------------------------
(* Instances of PixIssuance small enough for TLC. *)
EXTENDS PixIssuance, TLC

CONSTANTS k1, key1

MCContractOf == [r \in Requests |-> k1]
MCKeyOf == [r \in Requests |-> key1]
MCSymmetry == Permutations(Requests) \cup Permutations(Amounts)

\* "the user cannot generate duplicity by reloading the screen or repeating the
\* request": the look-up by key and the row that answers it are a request to the
\* bank apart, so two concurrent requests with one key leave two live charges at
\* the bank, one of them without a row.
OneChargePerKey ==
    \A q, r \in Requests :
        /\ q # r
        /\ req[q].kind = "charge" /\ req[r].kind = "charge"
        /\ KeyOf[q] = KeyOf[r]
        => cob[q] = NoAmount \/ cob[r] = NoAmount

=============================================================================
