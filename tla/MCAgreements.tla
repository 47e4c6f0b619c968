---------------------------- MODULE MCAgreements ----------------------------
(* One agreement, its web-hooks served one after the other. *)
EXTENDS AgreementEvents, TLC

CONSTANTS g1

MCPartsOf == [d \in Deals |-> 2]
payload(kind, number) ==
    [kind |-> kind, deal |-> g1, number |-> number, named |-> TRUE, stamp |-> 0]
MCMessages == {payload("Closed", 0), payload("PaidInstallment", 1), payload("PaidAgreement", 0)}

=============================================================================
