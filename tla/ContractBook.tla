---------------------------- MODULE ContractBook ----------------------------
(***************************************************************************)
(* The contracts of one creditor and the requests of the back office that  *)
(* change them: contracts.service, deduplication.service and the           *)
(* cancellation of operations.service.  A clerk's request reads what it    *)
(* decides on, then writes: two steps, between which any other request,    *)
(* an import or a payment may change the row.  A debt is the identity of a *)
(* contract (document, contract number, due date); Terms stands for its    *)
(* values.  Requests refused at their first look-up change nothing and are *)
(* left out.                                                               *)
(***************************************************************************)
EXTENDS Naturals, FiniteSets, Selection

CONSTANTS Rows,        \* rows of table Contract
          Wallets,     \* active wallets of the creditor
          Debts,       \* identities
          Misdigit,    \* debts whose document has a wrong check digit
          Terms,       \* values of a debt
          Clerks,      \* requests being served at a time
          MaxClerical  \* requests served in all

ASSUME MisdigitAssumption == Misdigit \subseteq Debts
\* A row that is not in use has to show something.
ASSUME BookAssumption == /\ Wallets # {} /\ Debts # {} /\ Terms # {}
                         /\ MaxClerical \in Nat

VARIABLES book,     \* table Contract
          clerk,    \* where each request is and what it has read
          served    \* requests begun

bookVars == <<book, clerk, served>>

\* ALLOWED_STATUS_TRANSITIONS of contracts.service.
Transitions == [ACTIVE |-> {"SUSPENDED", "CANCELLED"},
                SUSPENDED |-> {"ACTIVE", "CANCELLED"},
                CANCELLED |-> {}]
Statuses == DOMAIN Transitions
Kept == {"NONE", "LIVE", "DELETED"}
\* The offer a row carries is known by the wallet and the terms it was
\* calculated from.
Offer(wallet, terms) == [wallet |-> wallet, terms |-> terms]
Offers == [wallet : Wallets, terms : Terms]
\* `listed`: serasaStatus is none of EDITABLE_PROVIDER_STATUSES.  `debts`
\* (ghost): every identity the row has had.
ContractRow == [kept : Kept, wallet : Wallets, debt : Debts, key : Debts,
                status : Statuses, paid : BOOLEAN, listed : BOOLEAN,
                terms : Terms, offer : Offers, debts : SUBSET Debts]
NoContract == LET w == CHOOSE w \in Wallets : TRUE
                  d == CHOOSE d \in Debts : TRUE
                  t == CHOOSE t \in Terms : TRUE
              IN  [kept |-> "NONE", wallet |-> w, debt |-> d, key |-> d,
                   status |-> "ACTIVE", paid |-> FALSE, listed |-> FALSE,
                   terms |-> t, offer |-> Offer(w, t), debts |-> {}]
NewRow(wallet, debt, terms) ==
    [kept |-> "LIVE", wallet |-> wallet, debt |-> debt, key |-> debt,
     status |-> "ACTIVE", paid |-> FALSE, listed |-> FALSE, terms |-> terms,
     offer |-> Offer(wallet, terms), debts |-> {debt}]

Live(r) == book[r].kept = "LIVE"
Idle == [at |-> "idle"]

-----------------------------------------------------------------------------
(* Look-ups and writes the desk shares with the imports.                   *)

\* The rows findMany returns for an identity.
Matching(debt) == {r \in Rows : Live(r) /\ book[r].debt = debt}

\* Seeded fault: the unique key is taken within a wallet.
KeyTakenInWallet(debt, wallet) ==
    \E r \in Rows : /\ book[r].kept # "NONE" /\ book[r].key = debt
                    /\ book[r].wallet = wallet

\* deduplicationKey is unique over all rows, deleted ones included.
KeyTaken(debt, wallet) ==
    \E r \in Rows : book[r].kept # "NONE" /\ book[r].key = debt

Blank(r) == book[r].kept = "NONE"

\* A unique violation when another row holds the key `debt`.
KeyTakenByOther(debt, r) ==
    \E q \in Rows \ {r} : book[q].kept # "NONE" /\ book[q].key = debt

Create(wallet, debt, terms) ==
    \E r \in Rows : /\ Blank(r)
                    /\ book' = [book EXCEPT ![r] =
                                  NewRow(wallet, debt, terms)]

-----------------------------------------------------------------------------
(* The requests.                                                           *)

Begin(c, next) == /\ clerk[c] = Idle
                  /\ served < MaxClerical
                  /\ served' = served + 1
                  /\ clerk' = [clerk EXCEPT ![c] = next]
                  /\ UNCHANGED book

Leave(c) == clerk' = [clerk EXCEPT ![c] = Idle] /\ UNCHANGED served

\* createOrUpdate: the identity look-up.  A contract of another wallet, or
\* two matches, end in a 409.  The body's document has valid check digits.
UpsertRead(c) ==
    \E w \in Wallets, d \in Debts \ Misdigit, t \in Terms :
       /\ Cardinality(Matching(d)) <= 1
       /\ \A r \in Matching(d) : book[r].wallet = w
       /\ Begin(c, [at |-> "upsert", wallet |-> w, debt |-> d, terms |-> t,
                    seen |-> [r \in Matching(d) |-> book[r].paid]])

\* ... and the write: an update of the row found, by id, which leaves its
\* key and status alone and its offer too when it was read as paid.
UpsertWrite(c) ==
    /\ clerk[c].at = "upsert"
    /\ \E r \in DOMAIN clerk[c].seen :
          book' = [book EXCEPT ![r].terms = clerk[c].terms,
                               ![r].debt = clerk[c].debt,
                               ![r].debts = book[r].debts \cup {clerk[c].debt},
                               ![r].offer = IF clerk[c].seen[r] THEN book[r].offer
                                            ELSE Offer(clerk[c].wallet, clerk[c].terms)]
    /\ Leave(c)

UpsertCreate(c) ==
    /\ clerk[c].at = "upsert"
    /\ DOMAIN clerk[c].seen = {}
    /\ IF KeyTaken(clerk[c].debt, clerk[c].wallet) THEN UNCHANGED book
       ELSE Create(clerk[c].wallet, clerk[c].debt, clerk[c].terms)
    /\ Leave(c)

\* update: a PATCH of one field of a live contract the provider does not
\* hold.  The body is known by the field it names and the row it asks for;
\* the due date cannot change the document, hence not its check digits.
Bodies(row) ==
    {[field |-> "status", want |-> [row EXCEPT !.status = s]] :
        s \in Transitions[row.status]}
    \cup {[field |-> "wallet", want |-> [row EXCEPT !.wallet = w]] : w \in Wallets}
    \cup {[field |-> "terms", want |-> [row EXCEPT !.terms = t]] : t \in Terms}
    \cup {[field |-> "debt", want |-> [row EXCEPT !.debt = d]] :
              d \in {d \in Debts : d \in Misdigit <=> row.debt \in Misdigit}}

PatchRead(c) ==
    \E r \in Rows :
       /\ Live(r) /\ ~book[r].listed
       /\ \E body \in Bodies(book[r]) :
             Begin(c, [at |-> "patch", row |-> r, body |-> body])

\* The field is written; the offer is recalculated, unless the row was read
\* as paid, from the wallet and the values of the body or, where the body is
\* silent, of the row as read.
Patched(row, body) ==
    LET want == body.want
        offer == IF want.paid THEN row.offer ELSE Offer(want.wallet, want.terms)
    IN  CASE body.field = "status" -> [row EXCEPT !.status = want.status]
          [] body.field = "wallet" -> [row EXCEPT !.wallet = want.wallet, !.offer = offer]
          [] body.field = "terms"  -> [row EXCEPT !.terms = want.terms, !.offer = offer]
          [] body.field = "debt"   -> [row EXCEPT !.debt = want.debt, !.offer = offer,
                                                  !.debts = row.debts \cup {want.debt}]

PatchWrite(c) ==
    /\ clerk[c].at = "patch"
    /\ book' = [book EXCEPT ![clerk[c].row] = Patched(book[clerk[c].row], clerk[c].body)]
    /\ Leave(c)

\* recalculateOffer: active unpaid contracts only.
RecalcRead(c) ==
    \E r \in Rows :
       /\ Live(r) /\ book[r].status = "ACTIVE" /\ ~book[r].paid
       /\ Begin(c, [at |-> "recalc", row |-> r,
                    offer |-> Offer(book[r].wallet, book[r].terms)])

RecalcWrite(c) ==
    /\ clerk[c].at = "recalc"
    /\ book' = [book EXCEPT ![clerk[c].row].offer = clerk[c].offer]
    /\ Leave(c)

\* softDelete: the row stays, with its key.
DeleteRead(c) ==
    \E r \in Rows : /\ Live(r) /\ ~book[r].listed
                    /\ Begin(c, [at |-> "delete", row |-> r])

DeleteWrite(c) ==
    /\ clerk[c].at = "delete"
    /\ book' = [book EXCEPT ![clerk[c].row].kept = "DELETED"]
    /\ Leave(c)

\* cancelContract: the status write; the removal it queues at the provider
\* is an operation of SerasaOperations.
CancelRead(c) ==
    \E r \in Rows : /\ Live(r) /\ book[r].status # "CANCELLED"
                    /\ Begin(c, [at |-> "cancel", row |-> r])

CancelWrite(c) ==
    /\ clerk[c].at = "cancel"
    /\ book' = [book EXCEPT ![clerk[c].row].status = "CANCELLED"]
    /\ Leave(c)

\* bulkTransfer: one transaction, one conditional update.
BulkTransfer(c) ==
    /\ clerk[c] = Idle /\ served < MaxClerical
    /\ \E source \in Wallets, target \in Wallets :
          /\ source # target
          /\ book' = [r \in Rows |->
                        IF Live(r) /\ book[r].wallet = source /\ ~book[r].listed
                        THEN [book[r] EXCEPT !.wallet = target] ELSE book[r]]
    /\ served' = served + 1
    /\ UNCHANGED clerk

\* A payment is booked on a live contract (settlement of a charge or of an
\* agreement): paymentStatus becomes PAID and nothing here takes it back.
Settle(r) ==
    /\ Live(r) /\ ~book[r].paid
    /\ book' = [book EXCEPT ![r].paid = TRUE]
    /\ UNCHANGED <<clerk, served>>

Desk == \/ \E c \in Clerks :
              \/ UpsertRead(c) \/ UpsertWrite(c) \/ UpsertCreate(c)
              \/ PatchRead(c) \/ PatchWrite(c)
              \/ RecalcRead(c) \/ RecalcWrite(c)
              \/ DeleteRead(c) \/ DeleteWrite(c)
              \/ CancelRead(c) \/ CancelWrite(c)
              \/ BulkTransfer(c)
        \/ \E r \in Rows : Settle(r)

=============================================================================
