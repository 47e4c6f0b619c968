--------------------------- MODULE AgreementEvents ---------------------------
(***************************************************************************)
(* What Serasa reports of the agreements of one contract: the web-hook     *)
(* handler of providers/webhooks.service for agreements closed, breached   *)
(* and paid, and the settlement processor it books payments with.  The     *)
(* events of one agreement may be served at the same time, more than once  *)
(* and in any order; an event that fails is answered with 200 and stays    *)
(* RECEIVED, so nobody repeats it.                                         *)
(***************************************************************************)
EXTENDS Integers, FiniteSets, FiniteSetsExt

CONSTANTS Deals,       \* agreements, by their agreementId
          PartsOf,     \* the installments of each, of one unit of money each
          NoDeal,      \* no agreement
          Messages,    \* the payloads Serasa may send
          Listeners,   \* web-hooks served at a time
          MaxArrivals, \* web-hooks served in all
          MaxCrashes   \* events that fail, in all

Kinds == {"Closed", "Breached", "PaidInstallment", "PaidAgreement"}
\* number is the installment, 0 where the payload has none; named says that
\* the payload carries a debtId; stamp is its createdAt, which only the
\* web-hook's key looks at, and only a payment without a date differs by it.
Message == [kind : Kinds, deal : Deals, number : Nat, named : BOOLEAN, stamp : Nat]

ASSUME AgreementAssumption ==
    /\ PartsOf \in [Deals -> Nat \ {0}] /\ NoDeal \notin Deals
    /\ Messages \subseteq Message
    /\ MaxArrivals \in Nat /\ MaxCrashes \in Nat

VARIABLES
    account,  \* the contract's agreement, payment status and projections
    ledger,   \* table PaymentSettlement
    events,   \* table WebhookEvent: the status of each payload's row
    listener, \* the web-hooks in progress
    arrivals, \* how many were begun
    crashes   \* how many failed

agreementVars == <<account, ledger, events, listener, arrivals, crashes>>

Account == [status : {"PENDING", "IN_AGREEMENT", "INSTALLMENT", "AGREEMENT_BREACHED", "PAID"},
            reference : Deals \cup {NoDeal},
            plan : Deals \cup {NoDeal},  \* the agreement whose plan is stored
            paid : Nat,                  \* paidInstallments
            money : Nat]                 \* totalPaidAmount
Waiting == [at |-> "idle"]

\* The reference a payment is booked under: its agreement, event and number.
Reference(m) == <<m.deal, m.kind, m.number>>
RowsOf(ref) == {s \in ledger : s.reference = ref}
Money(rows) == MapThenSumSet(LAMBDA s : s.amount, rows)
Parts(deal) == IF deal = NoDeal THEN 0 ELSE PartsOf[deal]

-----------------------------------------------------------------------------
(* handleWebhook.                                                          *)

\* The payload has no row yet ...
Arrive(h) ==
    /\ listener[h] = Waiting /\ arrivals < MaxArrivals /\ arrivals' = arrivals + 1
    /\ \E m \in Messages : /\ events[m] = "NONE"
                           /\ listener' = [listener EXCEPT ![h] = [at |-> "row", message |-> m]]
    /\ UNCHANGED <<account, ledger, events, crashes>>

\* ... and gets one, unless another delivery was faster.
CreateRow(h) ==
    LET m == listener[h].message
    IN  /\ listener[h].at = "row"
        /\ IF events[m] = "NONE"
           THEN /\ events' = [events EXCEPT ![m] = "RECEIVED"]
                /\ listener' = [listener EXCEPT ![h].at = "match"]
           ELSE listener' = [listener EXCEPT ![h] = Waiting] /\ UNCHANGED events
        /\ UNCHANGED <<account, ledger, arrivals, crashes>>

\* The contract is found by its debt or by the agreement it refers to.
Correlate(h) ==
    LET m == listener[h].message
    IN  /\ listener[h].at = "match"
        /\ IF m.named \/ account.reference = m.deal
           THEN listener' = [listener EXCEPT ![h].at = "work"] /\ UNCHANGED events
           ELSE /\ events' = [events EXCEPT ![m] = "UNMATCHED"]
                /\ listener' = [listener EXCEPT ![h] = Waiting]
        /\ UNCHANGED <<account, ledger, arrivals, crashes>>

Doing(h, place, kinds) == listener[h].at = place /\ listener[h].message.kind \in kinds

\* updateAgreementStatus: the new agreement's plan; what was paid of an
\* earlier one stays.
CloseAgreement(h) ==
    LET d == listener[h].message.deal
    IN  /\ Doing(h, "work", {"Closed"})
        /\ account' = [account EXCEPT !.reference = d, !.plan = d,
              !.status = IF PartsOf[d] > 1 THEN "INSTALLMENT" ELSE "IN_AGREEMENT"]
        /\ listener' = [listener EXCEPT ![h].at = "end"]
        /\ UNCHANGED <<ledger, events, arrivals, crashes>>

\* Seeded fault: the status is the event's name.
BreachAsNamed(h) ==
    /\ Doing(h, "work", {"Breached"})
    /\ account' = [account EXCEPT !.reference = listener[h].message.deal, !.status = "Breached"]
    /\ listener' = [listener EXCEPT ![h].at = "end"]
    /\ UNCHANGED <<ledger, events, arrivals, crashes>>

BreachAgreement(h) ==
    /\ Doing(h, "work", {"Breached"})
    /\ account' = [account EXCEPT !.reference = listener[h].message.deal,
                                  !.status = "AGREEMENT_BREACHED"]
    /\ listener' = [listener EXCEPT ![h].at = "end"]
    /\ UNCHANGED <<ledger, events, arrivals, crashes>>

\* recordSerasaPayment: the amount is taken from the stored plan; a payment
\* without one, or booked already, is not booked.
AmountOf(m) == IF m.kind = "PaidAgreement" THEN Parts(account.plan)
               ELSE IF m.number \in 1 .. Parts(account.plan) THEN 1 ELSE 0

ReadPayment(h) ==
    LET m == listener[h].message
    IN  /\ Doing(h, "work", {"PaidInstallment", "PaidAgreement"})
        /\ listener' = [listener EXCEPT ![h] =
              IF AmountOf(m) = 0 \/ RowsOf(Reference(m)) # {}
              THEN [at |-> "mark", message |-> m]
              ELSE [at |-> "sum", message |-> m, amount |-> AmountOf(m)]]
        /\ UNCHANGED <<account, ledger, events, arrivals, crashes>>

\* processEvent's transaction inserts the settlement and adds up what is
\* committed and its own ...
SumPayments(h) ==
    /\ listener[h].at = "sum"
    /\ listener' = [listener EXCEPT ![h] =
          [at |-> "commit", message |-> listener[h].message, amount |-> listener[h].amount,
           total |-> Money(ledger) + listener[h].amount]]
    /\ UNCHANGED <<account, ledger, events, arrivals, crashes>>

Booked(h) == LET m == listener[h].message
             IN  [reference |-> Reference(m), message |-> m, amount |-> listener[h].amount]

\* Seeded fault: the settlement's reference is not unique.
CommitPaymentAnyway(h) ==
    /\ listener[h].at = "commit"
    /\ ledger' = ledger \cup {Booked(h)}
    /\ account' = [account EXCEPT !.money = listener[h].total]
    /\ listener' = [listener EXCEPT ![h] = [at |-> "mark", message |-> listener[h].message]]
    /\ UNCHANGED <<events, arrivals, crashes>>

\* ... and commits both, unless another one took the reference: then the
\* event fails.
CommitPayment(h) ==
    /\ listener[h].at = "commit"
    /\ IF RowsOf(Reference(listener[h].message)) = {}
       THEN /\ ledger' = ledger \cup {Booked(h)}
            /\ account' = [account EXCEPT !.money = listener[h].total]
            /\ listener' = [listener EXCEPT ![h] =
                               [at |-> "mark", message |-> listener[h].message]]
       ELSE listener' = [listener EXCEPT ![h] = Waiting] /\ UNCHANGED <<ledger, account>>
    /\ UNCHANGED <<events, arrivals, crashes>>

\* markAgreementPaid and markInstallmentPaid read the contract ...
ReadAccount(h) ==
    /\ listener[h].at = "mark"
    /\ listener' = [listener EXCEPT ![h] =
          [at |-> "store", message |-> listener[h].message, seen |-> account]]
    /\ UNCHANGED <<account, ledger, events, arrivals, crashes>>

\* ... and write: the whole agreement paid, and its total for the money;
StoreAgreementPaid(h) ==
    LET seen == listener[h].seen
    IN  /\ Doing(h, "store", {"PaidAgreement"})
        /\ account' = [account EXCEPT
              !.status = "PAID", !.reference = listener[h].message.deal,
              !.money = IF seen.plan = NoDeal THEN seen.money ELSE PartsOf[seen.plan],
              !.paid = IF seen.plan = NoDeal THEN seen.paid ELSE PartsOf[seen.plan]]
        /\ listener' = [listener EXCEPT ![h].at = "end"]
        /\ UNCHANGED <<ledger, events, arrivals, crashes>>

\* Seeded fault: an installment is counted whatever its number.
InstallmentsPlusOne(seen, number) == seen.paid + 1

\* The number of the installment counts, when the payload has it.
Installments(seen, number) ==
    IF number = 0 THEN seen.paid + 1 ELSE IF number > seen.paid THEN number ELSE seen.paid

\* ... or one installment more, and the whole when it was the last.
StoreInstallmentPaid(h) ==
    LET seen == listener[h].seen
        paid == Installments(seen, listener[h].message.number)
        full == Parts(seen.plan) > 0 /\ paid >= Parts(seen.plan)
    IN  /\ Doing(h, "store", {"PaidInstallment"})
        /\ account' = [account EXCEPT
              !.status = IF full THEN "PAID"
                         ELSE IF seen.status = "IN_AGREEMENT" THEN "IN_AGREEMENT" ELSE "INSTALLMENT",
              !.paid = paid, !.reference = listener[h].message.deal]
        /\ listener' = [listener EXCEPT ![h].at = "end"]
        /\ UNCHANGED <<ledger, events, arrivals, crashes>>

\* The interaction is recorded and the row PROCESSED.
EndEvent(h) ==
    /\ listener[h].at = "end"
    /\ events' = [events EXCEPT ![listener[h].message] = "PROCESSED"]
    /\ listener' = [listener EXCEPT ![h] = Waiting]
    /\ UNCHANGED <<account, ledger, arrivals, crashes>>

\* The database fails the event, or the process dies: the row stays RECEIVED.
FailEvent(h) ==
    /\ listener[h].at \in {"match", "work", "sum", "commit", "mark", "store", "end"}
    /\ crashes < MaxCrashes /\ crashes' = crashes + 1
    /\ listener' = [listener EXCEPT ![h] = Waiting]
    /\ UNCHANGED <<account, ledger, events, arrivals>>

-----------------------------------------------------------------------------
AgreementInit ==
    /\ account = [status |-> "PENDING", reference |-> NoDeal, plan |-> NoDeal,
                  paid |-> 0, money |-> 0]
    /\ ledger = {}
    /\ events = [m \in Messages |-> "NONE"]
    /\ listener = [h \in Listeners |-> Waiting]
    /\ arrivals = 0 /\ crashes = 0

AgreementNext ==
    \E h \in Listeners :
        \/ Arrive(h) \/ CreateRow(h) \/ Correlate(h)
        \/ CloseAgreement(h) \/ BreachAgreement(h)
        \/ ReadPayment(h) \/ SumPayments(h) \/ CommitPayment(h)
        \/ ReadAccount(h) \/ StoreAgreementPaid(h) \/ StoreInstallmentPaid(h)
        \/ EndEvent(h) \/ FailEvent(h)

AgreementSpec == AgreementInit /\ [][AgreementNext]_agreementVars

-----------------------------------------------------------------------------
(* Properties.                                                             *)

\* The rows hold what their columns may.
AgreementTypeOK ==
    /\ account \in Account
    /\ ledger \subseteq [reference : Deals \X Kinds \X Nat, message : Messages, amount : Nat]
    /\ events \in [Messages -> {"NONE", "RECEIVED", "PROCESSED", "UNMATCHED"}]
    /\ arrivals \in 0 .. MaxArrivals /\ crashes \in 0 .. MaxCrashes

\* A payment is booked at most once, although a payload without a date that
\* is delivered again has another createdAt and so a row of its own, and two
\* deliveries may be served at once: the look-up and the unique reference.
PaymentBookedOnce == \A s, t \in ledger : s.reference = t.reference => s = t

\* "Uses Serasa's installment number when supplied, avoiding double-counting
\* retries" (markInstallmentPaid): when every payload has its number, the
\* count of paid installments is a number Serasa reported, or the length of
\* an agreement reported as paid, whatever is repeated, raced or lost.
CountWasReported ==
    LET seen == {m \in Messages : events[m] # "NONE"}
    IN  (\A m \in seen : m.kind = "PaidInstallment" => m.number # 0)
        => \/ account.paid = 0
           \/ \E m \in seen : m.kind = "PaidInstallment" /\ m.number = account.paid
           \/ /\ \E m \in seen : m.kind = "PaidAgreement"
              /\ \E m \in seen : m.kind = "Closed" /\ PartsOf[m.deal] = account.paid

\* "totalPaidAmount, lastPaymentAt e saldo sao projecoes do livro-razao"
\* (design.md:40): with no event in progress the amount paid that the
\* contract shows is what the settlements add up to.
TotalIsTheSum ==
    (\A h \in Listeners : listener[h] = Waiting) => account.money = Money(ledger)

=============================================================================
