--------------------------- MODULE PaymentLedger ---------------------------
(***************************************************************************)
(* What the payments subsystem promises, without versions, jobs, webhooks  *)
(* or retries: money reaches the bank for a charge, and the system records *)
(* it, once per charge, and never records money that did not arrive.       *)
(***************************************************************************)
CONSTANT Charges    \* the rows of PaymentCharge

VARIABLES received, \* charges the bank reports as paid
          recorded  \* charges with a confirmed PaymentSettlement

ledgerVars == <<received, recorded>>

LedgerInit ==
    /\ received = {}
    /\ recorded = {}

Receive(c) ==
    /\ c \notin received
    /\ received' = received \cup {c}
    /\ UNCHANGED recorded

Record(c) ==
    /\ c \in received \ recorded
    /\ recorded' = recorded \cup {c}
    /\ UNCHANGED received

LedgerNext == \E c \in Charges : Receive(c) \/ Record(c)

\* The safety half of the promise.
LedgerSpec == LedgerInit /\ [][LedgerNext]_ledgerVars

\* The whole promise: what is received is eventually recorded.
LiveLedgerSpec == LedgerSpec /\ \A c \in Charges : WF_ledgerVars(Record(c))
=============================================================================
