-------------------------- MODULE PixExpectations --------------------------
(***************************************************************************)
(* What the requirements, the design document and the comments of the      *)
(* sources say of the settlement of a Pix charge and the code does not do. *)
(* Each statement is checked by a run of its own, which finds a behaviour  *)
(* of the code that contradicts it.                                        *)
(***************************************************************************)
EXTENDS MCPixSettlement

\* "process payment confirmations idempotently, never creating duplicate
\* settlements": the job books under the txid, the webhook under the bank's
\* end-to-end id, and neither looks for the other's settlement.
SettledOnce == \A c \in Charges : Cardinality(SettledBy(c)) <= 1

\* "a late payment confirmed by the provider takes precedence over the local
\* date": a resynchronisation writes PAID without advancing the version, so a
\* cycle that asked the bank before the payment still expires the charge.
ConfirmedBeatsExpiry ==
    [][\A c \in Charges : charge[c].status = "PAID"
                          => charge'[c].status # "EXPIRED"]_vars

\* "If the provider does not know the charge: FAILED, PROVIDER_NOT_PROCESSED":
\* the adapter turns the 404 into an exception and the row stays PENDING.
UnknownIsFailed ==
    \A c \in Charges :
        (charge[c].status = "PENDING" /\ cob[c] = "NONE")
            ~> (charge[c].status = "FAILED" \/ cob[c] # "NONE")

=============================================================================
