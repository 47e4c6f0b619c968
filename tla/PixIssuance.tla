---------------------------- MODULE PixIssuance ----------------------------
(***************************************************************************)
(* How a Pix charge comes to be and becomes the agreement of its contract  *)
(* (payment-charges.service).  A request asks for a charge in one of four  *)
(* ways:                                                                   *)
(*                                                                         *)
(*   "charge"     createCharge, with an amount and a key of the caller     *)
(*   "contract"   createPixForContract, at the price of the contract       *)
(*   "agreement"  the same, at the amount of the current agreement         *)
(*   "document"   createPixByDocument, at the price, with a caller's key   *)
(*                                                                         *)
(* Requests run at the same time and share nothing but the database: they  *)
(* look for a charge, ask the bank, and only then write the row.  Every    *)
(* awaited call is one step.  The charge a request issues is named after   *)
(* the request, since both the txid and the row are made in its course.    *)
(* PaymentEvent rows and the audit log are left out: nothing reads them.   *)
(***************************************************************************)
EXTENDS Integers

CONSTANTS
    Requests,       \* requests for a charge
    Kinds,          \* the ways a request may ask that an instance considers
    Contracts,      \* rows of Contract
    ContractOf,     \* the contract a request is about
    Keys,           \* idempotency keys chosen by callers
    KeyOf,          \* the key a "charge" or "document" request carries
    Amounts,        \* money a Pix may be for; amounts are only compared
    NoAmount,       \* no money
    Nobody,         \* no charge
    AtSerasa,       \* an agreement made at Serasa, not by a charge
    MaxFaults,      \* bound on crashes and failing database calls
    MaxReprices     \* bound on the recalculations of an offer

ASSUME RequestAssumption == /\ ContractOf \in [Requests -> Contracts]
                            /\ KeyOf \in [Requests -> Keys]
                            /\ Keys \cap Requests = {}
                            /\ Nobody # AtSerasa /\ {Nobody, AtSerasa} \cap Requests = {}
                            /\ Kinds \subseteq {"charge", "contract", "agreement",
                                                "document"}
                            /\ Kinds # {}
ASSUME BoundAssumption == /\ NoAmount \notin Amounts
                          /\ MaxFaults \in Nat
                          /\ MaxReprices \in Nat

VARIABLES
    row,            \* PaymentCharge rows: status, amount and idempotencyKey
    lapsed,         \* rows whose expiresAt has passed
    cob,            \* the charges the bank holds, by txid: their amount, if any
    inflight,       \* registrations that timed out and may still arrive
    contract,       \* Contract: paymentStatus, price and terms of the agreement
    notes,          \* "Pix gerado" ContractInteraction rows, counted per charge
    req,            \* the requests in progress
    faults, reprices,   \* faults and recalculations so far
    past            \* history: what had been done when a request started

bank == <<cob, inflight>>
vars == <<row, lapsed, cob, inflight, contract, notes, req, faults, reprices, past>>

-----------------------------------------------------------------------------
(* Types *)

Names == Requests \cup Keys     \* an idempotencyKey: a caller's, or a fresh UUID
Money == Amounts \cup {NoAmount}

RowStatus == {"NONE", "PENDING", "ISSUED", "PAID", "EXPIRED", "FAILED"}
Row == [status : RowStatus, amount : Money, key : Names]
NoRow(r) == [status |-> "NONE", amount |-> NoAmount, key |-> r]

PaymentStatus == {"OPEN", "IN_AGREEMENT", "INSTALLMENT", "AGREEMENT_BREACHED", "PAID"}

\* ref is agreementReference (a charge, or an agreement made at Serasa), agreed
\* is agreementTotalAmount, and due says where the clock is with agreementDueAt.
Contract == [status : PaymentStatus, price : Amounts, agreed : Money,
             ref : Requests \cup {AtSerasa, Nobody}, due : {"none", "ahead", "past"}]
Unagreed(price) == [status |-> "OPEN", price |-> price, agreed |-> NoAmount,
                    ref |-> Nobody, due |-> "none"]
AgreedAtSerasa(price, status) ==
    [status |-> status, price |-> price, agreed |-> price, ref |-> AtSerasa,
     due |-> "none"]
NewContract == {Unagreed(p) : p \in Amounts} \cup
               {AgreedAtSerasa(p, s) : p \in Amounts, s \in {"IN_AGREEMENT", "INSTALLMENT"}}

Pc == {"idle", "lookup", "contract", "reuse", "issue", "create", "noteLook", "note",
       "agree", "fail", "done"}
Request == [pc : Pc,
            kind : Kinds, amount : Money,
            binding : BOOLEAN,                  \* what the contract said when read
            charge : Requests \cup {Nobody},    \* the row it works on
            reused : BOOLEAN, failure : {"PENDING", "FAILED"},
            answer : {"none", "charge", "refused", "error", "crashed"}]

\* What had been done when a request started: the rows and which of them a
\* debtor could still pay, and how often its contract had entered an agreement.
Past == [rows : SUBSET Requests, valid : SUBSET Requests, deals : Nat]

TypeOK ==
    /\ row \in [Requests -> Row]
    /\ lapsed \subseteq Requests
    /\ cob \in [Requests -> Money]
    /\ inflight \subseteq Requests
    /\ contract \in [Contracts -> Contract]
    /\ notes \in [Requests -> Nat]
    /\ req \in [Requests -> Request]
    /\ faults \in 0..MaxFaults
    /\ reprices \in 0..MaxReprices
    /\ past \in [deals : [Contracts -> Nat], at : [Requests -> Past]]

Init ==
    /\ row = [r \in Requests |-> NoRow(r)]
    /\ lapsed = {}
    /\ cob = [r \in Requests |-> NoAmount]
    /\ inflight = {}
    /\ contract \in [Contracts -> NewContract]
    /\ notes = [r \in Requests |-> 0]
    /\ req = [r \in Requests |->
                 [pc |-> "idle", kind |-> CHOOSE k \in Kinds : TRUE,
                  amount |-> NoAmount, binding |-> FALSE,
                  charge |-> Nobody, reused |-> FALSE, failure |-> "FAILED",
                  answer |-> "none"]]
    /\ faults = 0
    /\ reprices = 0
    /\ past = [deals |-> [k \in Contracts |-> 0],
               at |-> [r \in Requests |-> [rows |-> {}, valid |-> {}, deals |-> 0]]]

-----------------------------------------------------------------------------
(* What the requests look for *)

Exists(q) == row[q].status # "NONE"

\* A caller's key, or the randomUUID of createPixForContract.
RowKey(r) == IF req[r].kind \in {"charge", "document"} THEN KeyOf[r] ELSE r

\* unique(idempotencyKey, paymentGatewayId)
KeyTaken(r) == \E q \in Requests : Exists(q) /\ row[q].key = RowKey(r)

\* The look-up by key: createPixByDocument adds the contract to the condition.
Answers(r, q) == /\ row[q].key = KeyOf[r]
                 /\ req[r].kind = "document" => ContractOf[q] = ContractOf[r]

\* Seeded fault: only a charge that was issued answers for its key.
ByKeyIssued(r) == {q \in Requests : row[q].status = "ISSUED" /\ Answers(r, q)}

ByKey(r) == {q \in Requests : Exists(q) /\ Answers(r, q)}

Payable(q) == row[q].status = "ISSUED" /\ q \notin lapsed

\* Seeded fault: expiresAt is compared the wrong way round.
ReusableLapsed(r) == {q \in Requests : /\ row[q].status = "ISSUED"
                                       /\ q \in lapsed
                                       /\ ContractOf[q] = ContractOf[r]
                                       /\ row[q].amount = req[r].amount}

\* findExistingValidPix
Reusable(r) == {q \in Requests : /\ Payable(q)
                                 /\ ContractOf[q] = ContractOf[r]
                                 /\ row[q].amount = req[r].amount}

-----------------------------------------------------------------------------
(* The requests *)

At(r, pc) == req[r].pc = pc
Go(r, pc) == req' = [req EXCEPT ![r].pc = pc]
Reply(r, answer) ==
    req' = [req EXCEPT ![r] = [req[r] EXCEPT
               !.pc = "done", !.answer = answer, !.charge = Nobody,
               !.binding = FALSE, !.reused = FALSE, !.failure = "FAILED"]]

OnlyReq == UNCHANGED <<row, lapsed, bank, contract, notes, faults, reprices, past>>
OnlyRow == UNCHANGED <<lapsed, bank, contract, notes, faults, reprices, past>>

Start(r, kind, amount) ==
    LET k == ContractOf[r] IN
    /\ At(r, "idle")
    /\ amount = NoAmount <=> kind # "charge"
    /\ req' = [req EXCEPT ![r] = [req[r] EXCEPT
                  !.pc = IF kind = "charge" THEN "lookup" ELSE "contract",
                  !.kind = kind, !.amount = amount]]
    /\ past' = [past EXCEPT !.at[r] = [rows |-> {q \in Requests : Exists(q)},
                                       valid |-> {q \in Requests : Payable(q)},
                                       deals |-> past.deals[k]]]
    /\ UNCHANGED <<row, lapsed, bank, contract, notes, faults, reprices>>

\* A charge that has the key answers for it, whatever became of it.
LookupKey(r) ==
    /\ At(r, "lookup")
    /\ IF ByKey(r) = {}
       THEN Go(r, IF req[r].kind = "charge" THEN "contract" ELSE "reuse")
       ELSE Reply(r, "charge")
    /\ OnlyReq

\* Only createCharge issues for a contract that is PAID.
Acceptable(kind, c) ==
    /\ kind # "charge" => c.status # "PAID"
    /\ kind = "agreement" => c.ref # Nobody /\ c.agreed # NoAmount

\* Seeded fault: an agreement that is running is registered again.
BindingPaidOnly(c) == c.status \in {"PAID", "INSTALLMENT"}

\* The early returns of registerAgreementFromIssuedCharge, which are taken
\* on the contract as it was when the request read it.
Binding(c) ==
    \/ c.status \in {"PAID", "INSTALLMENT"}
    \/ c.status = "IN_AGREEMENT" /\ c.due # "none"

\* resolvePixPricing gives the price of the contract as it was read.
ReadContract(r) ==
    LET c == contract[ContractOf[r]] IN
    /\ At(r, "contract")
    /\ IF Acceptable(req[r].kind, c)
       THEN req' = [req EXCEPT ![r] = [req[r] EXCEPT
                !.binding = Binding(c),
                !.amount = CASE req[r].kind = "charge" -> req[r].amount
                             [] req[r].kind = "agreement" -> c.agreed
                             [] OTHER -> c.price,
                !.pc = CASE req[r].kind = "charge" -> "issue"
                         [] req[r].kind = "document" -> "lookup"
                         [] OTHER -> "reuse"]]
       ELSE Reply(r, "refused")
    /\ OnlyReq

\* No such contract, no enabled gateway, a contract that is not ACTIVE ...
Refuse(r) ==
    /\ req[r].pc \in {"lookup", "contract", "reuse"}
    /\ Reply(r, "refused")
    /\ OnlyReq

\* When several charges qualify the code takes the latest; any of them here.
FindReusable(r) ==
    /\ At(r, "reuse")
    /\ IF Reusable(r) = {}
       THEN Go(r, "issue")
       ELSE \E q \in Reusable(r) :
              req' = [req EXCEPT ![r] = [req[r] EXCEPT
                         !.pc = "noteLook", !.charge = q, !.reused = TRUE]]
    /\ OnlyReq

-----------------------------------------------------------------------------
(* adapter.issue: the bank answers, refuses, or is not heard of again.  The *)
(* HTTP client repeats a request only when the bank has answered 429.       *)

Register(r) == cob' = [cob EXCEPT ![r] = req[r].amount]
IssueUnchanged ==
    UNCHANGED <<row, lapsed, contract, notes, faults, reprices, past>>
Failing(r, status) ==
    req' = [req EXCEPT ![r] = [req[r] EXCEPT !.pc = "fail", !.failure = status]]

BankAnswers(r) ==
    /\ At(r, "issue")
    /\ Register(r)
    /\ Go(r, "create")
    /\ UNCHANGED inflight
    /\ IssueUnchanged

BankRefuses(r) ==
    /\ At(r, "issue")
    /\ Failing(r, "FAILED")
    /\ UNCHANGED bank
    /\ IssueUnchanged

TimesOut(r) ==
    /\ At(r, "issue")
    /\ inflight' = inflight \cup {r}
    /\ Failing(r, "PENDING")
    /\ UNCHANGED cob
    /\ IssueUnchanged

\* A connection that breaks is taken for a refusal (status 0).
ConnectionBreaks(r) ==
    /\ At(r, "issue")
    /\ inflight' = inflight \cup {r}
    /\ Failing(r, "FAILED")
    /\ UNCHANGED cob
    /\ IssueUnchanged

-----------------------------------------------------------------------------
(* What follows the bank's answer, and handleAdapterError *)

InsertRow(r, status) ==
    row' = [row EXCEPT ![r] = [status |-> status, amount |-> req[r].amount,
                               key |-> RowKey(r)]]

\* A key that is taken is an error like any other: it ends in handleAdapterError.
CreateIssued(r) ==
    /\ At(r, "create")
    /\ IF KeyTaken(r)
       THEN Failing(r, "FAILED") /\ UNCHANGED row
       ELSE /\ InsertRow(r, "ISSUED")
            /\ req' = [req EXCEPT ![r] = [req[r] EXCEPT
                          !.pc = "noteLook", !.charge = r]]
    /\ OnlyRow

NoteLookup(r) ==
    /\ At(r, "noteLook")
    /\ Go(r, IF notes[req[r].charge] > 0 THEN "agree" ELSE "note")
    /\ OnlyReq

NoteCreate(r) ==
    /\ At(r, "note")
    /\ notes' = [notes EXCEPT ![req[r].charge] = @ + 1]
    /\ Go(r, "agree")
    /\ UNCHANGED <<row, lapsed, bank, contract, faults, reprices, past>>

\* Seeded fault: the agreement is for the price of the day, not of the charge.
TermsAtPrice(r, c) ==
    [c EXCEPT !.status = "IN_AGREEMENT", !.ref = req[r].charge,
              !.agreed = c.price, !.due = "ahead"]

Terms(r, c) ==
    [c EXCEPT !.status = "IN_AGREEMENT", !.ref = req[r].charge,
              !.agreed = row[req[r].charge].amount, !.due = "ahead"]

RegisterAgreement(r) ==
    LET k == ContractOf[r] IN
    /\ At(r, "agree")
    /\ IF req[r].binding
       THEN UNCHANGED <<contract, past>>
       ELSE /\ contract' = [contract EXCEPT ![k] = Terms(r, contract[k])]
            /\ past' = [past EXCEPT !.deals[k] = @ + 1]
    /\ Reply(r, "charge")
    /\ UNCHANGED <<row, lapsed, bank, notes, faults, reprices>>

\* Seeded fault: a time-out is reported to the caller and leaves no row.
HandleAdapterErrorSilently(r) ==
    /\ At(r, "fail")
    /\ IF KeyTaken(r) \/ req[r].failure = "PENDING"
       THEN UNCHANGED row /\ Reply(r, "error")
       ELSE InsertRow(r, req[r].failure) /\ Reply(r, "refused")
    /\ OnlyRow

\* The key may be taken, by another request or by the row the request itself
\* created before a later call failed: then the caller gets a plain error.
HandleAdapterError(r) ==
    /\ At(r, "fail")
    /\ IF KeyTaken(r)
       THEN UNCHANGED row /\ Reply(r, "error")
       ELSE InsertRow(r, req[r].failure) /\ Reply(r, "refused")
    /\ OnlyRow

\* A database call throws.  Only what follows the bank's answer is in the try.
DatabaseFails(r) ==
    /\ faults < MaxFaults
    /\ req[r].pc \notin {"idle", "issue", "done"}
    /\ IF req[r].pc \in {"create", "noteLook", "note", "agree"} /\ ~req[r].reused
       THEN Failing(r, "FAILED")
       ELSE Reply(r, "error")
    /\ faults' = faults + 1
    /\ UNCHANGED <<row, lapsed, bank, contract, notes, reprices, past>>

\* The process stops.  Stopped while it waits for the bank, it may have asked.
Crash(r) ==
    /\ faults < MaxFaults
    /\ req[r].pc \notin {"idle", "done"}
    /\ Reply(r, "crashed")
    /\ inflight' = IF At(r, "issue") THEN inflight \cup {r} ELSE inflight
    /\ faults' = faults + 1
    /\ UNCHANGED <<row, lapsed, cob, contract, notes, reprices, past>>

RequestStep(r) ==
    \/ LookupKey(r) \/ ReadContract(r) \/ Refuse(r) \/ FindReusable(r)
    \/ BankAnswers(r) \/ BankRefuses(r) \/ TimesOut(r) \/ ConnectionBreaks(r)
    \/ CreateIssued(r) \/ NoteLookup(r) \/ NoteCreate(r) \/ RegisterAgreement(r)
    \/ HandleAdapterError(r)

-----------------------------------------------------------------------------
(* The rest of the system, one step per fact that issuance can notice.  How *)
(* a payment is noticed is the subject of PixSettlement.                    *)

BankRegisters(r) ==
    /\ r \in inflight
    /\ Register(r)
    /\ inflight' = inflight \ {r}
    /\ UNCHANGED <<row, lapsed, contract, notes, req, faults, reprices, past>>

\* expiresAt is only asked of rows that are open.
Lapse(q) ==
    /\ row[q].status \in {"PENDING", "ISSUED"}
    /\ q \notin lapsed
    /\ lapsed' = lapsed \cup {q}
    /\ UNCHANGED <<row, bank, contract, notes, req, faults, reprices, past>>

EnvRow(q, status) ==
    /\ row' = [row EXCEPT ![q].status = status]
    /\ UNCHANGED <<lapsed, bank, notes, req, faults, reprices, past>>

\* The reconciliation job settles what a time-out has left open, and closes
\* what has lapsed.
JobConfirms(q) ==
    /\ row[q].status = "PENDING" /\ cob[q] # NoAmount
    /\ EnvRow(q, "ISSUED")
    /\ UNCHANGED contract

JobExpires(q) ==
    /\ row[q].status \in {"PENDING", "ISSUED"} /\ cob[q] # NoAmount /\ q \in lapsed
    /\ EnvRow(q, "EXPIRED")
    /\ UNCHANGED contract

\* The job books a payment without refreshing the projection of the contract.
JobPays(q) ==
    /\ row[q].status \in {"PENDING", "ISSUED"} /\ cob[q] # NoAmount
    /\ EnvRow(q, "PAID")
    /\ UNCHANGED contract

\* The money of a charge covers what the projection compares it with, its amount.
WebhookPays(q) ==
    LET k == ContractOf[q] IN
    /\ cob[q] # NoAmount
    /\ row[q].status \notin {"NONE", "PAID"}
    /\ EnvRow(q, "PAID")
    /\ contract' = [contract EXCEPT ![k].status = "PAID"]

\* recalculateOffers: weekly, or when the discount of the wallet changes.
Reprice(k, price) ==
    /\ reprices < MaxReprices
    /\ contract[k].status # "PAID"
    /\ price # contract[k].price
    /\ contract' = [contract EXCEPT ![k].price = price]
    /\ reprices' = reprices + 1
    /\ UNCHANGED <<row, lapsed, bank, notes, req, faults, past>>

\* agreementDueAt is only asked of contracts that are IN_AGREEMENT.
DeadlinePasses(k) ==
    /\ contract[k].status = "IN_AGREEMENT" /\ contract[k].due = "ahead"
    /\ contract' = [contract EXCEPT ![k].due = "past"]
    /\ UNCHANGED <<row, lapsed, bank, notes, req, faults, reprices, past>>

\* markOverdueAgreementsAsBreached: one updateMany for all contracts.
Overdue(c) == c.status = "IN_AGREEMENT" /\ c.due = "past"
MarkOverdueAsBreached ==
    /\ \E k \in Contracts : Overdue(contract[k])
    /\ contract' = [k \in Contracts |->
                       IF Overdue(contract[k])
                       THEN [contract[k] EXCEPT !.status = "AGREEMENT_BREACHED"]
                       ELSE contract[k]]
    /\ UNCHANGED <<row, lapsed, bank, notes, req, faults, reprices, past>>

Next ==
    \/ \E r \in Requests : RequestStep(r)
    \/ \E r \in Requests, kind \in Kinds, amount \in Money : Start(r, kind, amount)
    \/ \E r \in Requests : DatabaseFails(r)
    \/ \E r \in Requests : Crash(r)
    \/ \E r \in Requests : BankRegisters(r)
    \/ \E q \in Requests : Lapse(q)
    \/ \E q \in Requests : JobConfirms(q)
    \/ \E q \in Requests : JobExpires(q)
    \/ \E q \in Requests : JobPays(q)
    \/ \E q \in Requests : WebhookPays(q)
    \/ \E k \in Contracts, price \in Amounts : Reprice(k, price)
    \/ \E k \in Contracts : DeadlinePasses(k)
    \/ MarkOverdueAsBreached

Spec == Init /\ [][Next]_vars

-----------------------------------------------------------------------------
(* Properties *)

\* Whatever the bank may hold under a txid has a row that webhook and job can
\* find by it, time-outs and broken connections included.  The exceptions are
\* the two the code has: the process died, or the database failed while the
\* error was being recorded; or another request took the key while the bank
\* was being asked.
HasRow(r) ==
    (cob[r] # NoAmount \/ r \in inflight) /\ At(r, "done")
        => \/ Exists(r)
           \/ faults > 0 /\ req[r].answer \in {"crashed", "error"}
           \/ \E q \in Requests \ {r} : Exists(q) /\ row[q].key = RowKey(r)
BankChargeHasRow == \A r \in Requests : HasRow(r)

\* A key that has a row never reaches the bank again: repeating a request that
\* timed out, failed or died after it was recorded makes no second charge.
RepeatIsSafe ==
    \A r \in Requests :
        req[r].kind \in {"charge", "document"}
            /\ (\E q \in past.at[r].rows : Answers(r, q))
        => cob[r] = NoAmount /\ r \notin inflight

\* A Pix asked for after another has become payable does not double it: while
\* both can be paid they are for different amounts.
OnePayablePixPerPrice ==
    \A r \in Requests : req[r].kind # "charge" /\ Payable(r) =>
        \A q \in past.at[r].valid :
            ContractOf[q] = ContractOf[r] /\ Payable(q) => row[q].amount # row[r].amount

\* The agreement of a contract is the charge it names: one of its own, which the
\* bank holds for exactly the agreed amount and the history shows, however the
\* offer has been recalculated since and whoever else was issuing.
AgreementIsBacked ==
    \A k \in Contracts :
        LET q == contract[k].ref IN
        q \in Requests =>
            /\ ContractOf[q] = k
            /\ row[q].status \in {"ISSUED", "PAID", "EXPIRED"}
            /\ contract[k].agreed = row[q].amount
            /\ cob[q] = row[q].amount
            /\ notes[q] > 0

\* A request that starts when an agreement with a deadline is running never
\* moves that deadline: what it replaces is an agreement made after it started.
DeadlineIsKept ==
    [][\A r \in Requests :
          LET k == ContractOf[r] IN
          At(r, "agree") /\ past'.deals[k] # past.deals[k]
                         /\ contract[k].status = "IN_AGREEMENT"
                         /\ contract[k].due # "none"
          => past.deals[k] > past.at[r].deals \/ UNCHANGED req[r]]_vars

=============================================================================
