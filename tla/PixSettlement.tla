--------------------------- MODULE PixSettlement ---------------------------
(***************************************************************************)
(* How the money of a Pix charge is noticed and booked.  Three kinds of    *)
(* process write the same rows and share no lock but a version column:     *)
(*                                                                         *)
(*   - a delivery of the Banco do Brasil webhook (bb-pix-webhook.service), *)
(*   - a cycle of the reconciliation job (charge-lifecycle.job),           *)
(*   - an operator's manual resynchronisation (payment-charges.service,    *)
(*     syncCharge), which does not use the version column.                 *)
(*                                                                         *)
(* Every awaited database call or provider request is one step, so any two *)
(* processes may interleave between them.  The bank and the clock are the  *)
(* environment.  Amounts are compared but never changed, so a total is     *)
(* represented by the set of settlements whose sum it is.                  *)
(***************************************************************************)
EXTENDS Integers, FiniteSets, FiniteSetsExt

CONSTANTS
    Charges,        \* rows of PaymentCharge, numbered in createdAt order
    Contracts,      \* rows of Contract
    ContractOf,     \* PaymentCharge.contractId
    Amount,         \* PaymentCharge.amount
    UpdatedValue,   \* Contract.updatedValue
    Webhooks,       \* webhook deliveries; each handles one pix entry
    Cycles,         \* concurrent executions of the job (no re-entry guard)
    Syncs,          \* manual resynchronisation requests
    BatchSize,      \* CHARGE_LIFECYCLE_JOB_BATCH_SIZE
    LatePayment,    \* whether the bank may accept money after expiresAt
    MaxFaults       \* bound on crashes and failing database calls

ASSUME ChargesAssumption == Charges \subseteq Nat \ {0} /\ IsFiniteSet(Charges)
ASSUME ContractAssumption == ContractOf \in [Charges -> Contracts]
ASSUME AmountAssumption == /\ Amount \in [Charges -> Nat \ {0}]
                           /\ UpdatedValue \in [Contracts -> Nat \ {0}]
ASSUME BoundsAssumption == /\ BatchSize \in Nat \ {0}
                           /\ MaxFaults \in Nat
                           /\ LatePayment \in BOOLEAN

VARIABLES
    charge,         \* PaymentCharge rows: status and version
    overdue,        \* charges whose expiresAt has passed
    cob,            \* the bank's own record of each charge
    settlements,    \* PaymentSettlement rows, all CONFIRMED
    events,         \* PaymentEvent rows
    interactions,   \* "Pix pago" ContractInteraction rows, counted per externalId
    contract,       \* the payment projection of Contract
    removals,       \* contracts handed to createAutomaticRemovalForPaidContract
    wh, job, sync,  \* the processes
    faults          \* faults injected so far

bank == <<cob, overdue>>
rows == <<charge, settlements, events, interactions, contract, removals>>
procs == <<wh, job, sync>>
vars == <<charge, overdue, cob, settlements, events, interactions, contract,
          removals, wh, job, sync, faults>>

-----------------------------------------------------------------------------
(* Types *)

Status == {"PENDING", "ISSUED", "PAID", "CANCELLED", "EXPIRED", "FAILED"}
Open == {"PENDING", "ISSUED"}
Row == [status : Status, version : Nat]
NoRow == [status |-> "FAILED", version |-> 0]
NoCharge == 0

\* A payment is known under the bank's end-to-end id, under the charge's txid
\* and, in the interaction history, under the charge's own id.
Key == [charge : Charges, kind : {"E2E", "TXID", "ID"}]
E2E(c) == [charge |-> c, kind |-> "E2E"]
TXID(c) == [charge |-> c, kind |-> "TXID"]
ID(c) == [charge |-> c, kind |-> "ID"]

Event == [charge : Charges, from : Status, to : Status,
          source : {"WEBHOOK", "JOB", "SYNC"}]

Webhook == [pc : {"idle", "dedup", "find", "lock", "refetch", "event", "ensure",
                  "create", "total", "project", "remove", "note", "noteCreate",
                  "done"},
            charge : Charges \cup {NoCharge}, row : Row,
            counted : SUBSET Key, full : BOOLEAN, notes : {0, 1, 2}]
Cycle == [pc : {"idle", "expired", "next", "lock", "event", "find", "settle"},
          todo : SUBSET Charges, rows : [Charges -> Row], late : SUBSET Charges,
          charge : Charges \cup {NoCharge}, target : Status, won : BOOLEAN]
Sync == [pc : {"idle", "fetch", "write", "event", "find", "settle", "note",
               "noteCreate", "done"},
         charge : Charges \cup {NoCharge}, row : Row, answer : Status]

IdleWebhook == [pc |-> "idle", charge |-> NoCharge, row |-> NoRow,
                counted |-> {}, full |-> FALSE, notes |-> 0]
IdleCycle == [pc |-> "idle", todo |-> {}, rows |-> [c \in Charges |-> NoRow],
              late |-> {}, charge |-> NoCharge, target |-> "PENDING",
              won |-> FALSE]
IdleSync == [pc |-> "idle", charge |-> NoCharge, row |-> NoRow,
             answer |-> "PENDING"]

TypeOK ==
    /\ charge \in [Charges -> Row]
    /\ overdue \subseteq Charges
    /\ cob \in [Charges -> {"NONE", "ATIVA", "CONCLUIDA", "REMOVIDA"}]
    /\ settlements \subseteq Key
    /\ events \subseteq Event
    /\ interactions \in [Key -> Nat]
    /\ contract \in [Contracts -> [paid : BOOLEAN, counted : SUBSET Key]]
    /\ removals \subseteq Contracts
    /\ wh \in [Webhooks -> Webhook]
    /\ job \in [Cycles -> Cycle]
    /\ sync \in [Syncs -> Sync]
    /\ faults \in 0..MaxFaults
-----------------------------------------------------------------------------
(* Issuance leaves a row PENDING when the bank did not answer in time, which *)
(* says nothing of what the bank did, and ISSUED when it did.                *)

Init ==
    /\ charge \in [Charges -> [status : Open, version : {1}]]
    /\ cob \in [Charges -> {"NONE", "ATIVA"}]
    /\ \A c \in Charges : charge[c].status = "ISSUED" => cob[c] = "ATIVA"
    /\ overdue = {}
    /\ settlements = {}
    /\ events = {}
    /\ interactions = [k \in Key |-> 0]
    /\ contract = [k \in Contracts |-> [paid |-> FALSE, counted |-> {}]]
    /\ removals = {}
    /\ wh = [w \in Webhooks |-> IdleWebhook]
    /\ job = [j \in Cycles |-> IdleCycle]
    /\ sync = [s \in Syncs |-> IdleSync]
    /\ faults = 0

-----------------------------------------------------------------------------
(* The bank and the clock.  A registration that timed out may still reach   *)
(* the bank; CONCLUIDA is final; a removal by the receiver ends the charge. *)

BankRegister(c) ==
    /\ cob[c] = "NONE"
    /\ cob' = [cob EXCEPT ![c] = "ATIVA"]
    /\ UNCHANGED <<overdue, rows, procs, faults>>

BankPay(c) ==
    /\ cob[c] = "ATIVA"
    /\ LatePayment \/ c \notin overdue
    /\ cob' = [cob EXCEPT ![c] = "CONCLUIDA"]
    /\ UNCHANGED <<overdue, rows, procs, faults>>

BankRemove(c) ==
    /\ cob[c] = "ATIVA"
    /\ cob' = [cob EXCEPT ![c] = "REMOVIDA"]
    /\ UNCHANGED <<overdue, rows, procs, faults>>

Expire(c) ==
    /\ c \notin overdue
    /\ overdue' = overdue \cup {c}
    /\ UNCHANGED <<cob, rows, procs, faults>>

\* mapBbStatusToChargeStatus; a charge the bank does not know is an error.
Answer(c) == CASE cob[c] = "CONCLUIDA" -> "PAID"
               [] cob[c] = "REMOVIDA" -> "CANCELLED"
               [] OTHER -> "ISSUED"

-----------------------------------------------------------------------------
(* Helpers shared by the processes *)

SettledBy(c) == {k \in settlements : k.charge = c}

WriteEvent(c, from, to, source) ==
    events' = events \cup {[charge |-> c, from |-> from, to |-> to,
                            source |-> source]}

CountInteraction(k) ==
    interactions' = [interactions EXCEPT ![k] = @ + 1]

\* Seeded fault: the guard only rejects a row from the future.
VersionNotNewer(c, row) == charge[c].version >= row.version

\* updateMany / update ... where { id, version } data { ..., version + 1 }
VersionMatches(c, row) == charge[c].version = row.version
MoveTo(c, status) ==
    charge' = [charge EXCEPT ![c] = [status |-> status, version |-> @.version + 1]]

ContractSettlements(k) == {s \in settlements : ContractOf[s.charge] = k}
SumOf(S) == MapThenSumSet(LAMBDA s : Amount[s.charge], S)
\* Seeded fault: a debt that is covered exactly is not covered.
CoversStrictly(S, target) == SumOf(S) > target

Covers(S, target) == SumOf(S) >= target

\* What the projection compares the total with: the amount of the latest PAID
\* charge when there is one.  Which one is latest is left open.
TargetsOf(k) ==
    LET paid == {c \in Charges : ContractOf[c] = k /\ charge[c].status = "PAID"}
    IN  IF paid = {} THEN {UpdatedValue[k]} ELSE {Amount[c] : c \in paid}

-----------------------------------------------------------------------------
(* processPixEntry.  The controller answers 200 whatever happens, so an     *)
(* entry that fails is not delivered again; the bank may still deliver the  *)
(* same payment several times, each delivery a process of its own.          *)

WebhookUnchanged == UNCHANGED <<bank, job, sync, faults>>
ToWebhook(w, pc) == wh' = [wh EXCEPT ![w].pc = pc]
NotePc(notes) == IF notes = 0 THEN "done" ELSE "note"

Deliver(w, c) ==
    /\ wh[w].pc = "idle"
    /\ cob[c] = "CONCLUIDA"
    /\ wh' = [wh EXCEPT ![w] = [IdleWebhook EXCEPT !.pc = "dedup", !.charge = c]]
    /\ UNCHANGED rows
    /\ WebhookUnchanged

\* A replay of a booked payment only repairs the interaction history.
DedupLookup(w) ==
    /\ wh[w].pc = "dedup"
    /\ wh' = [wh EXCEPT ![w] = IF E2E(wh[w].charge) \in settlements
                               THEN [wh[w] EXCEPT !.pc = "note", !.notes = 1]
                               ELSE [wh[w] EXCEPT !.pc = "find"]]
    /\ UNCHANGED rows
    /\ WebhookUnchanged

FindCharge(w) ==
    LET row == charge[wh[w].charge] IN
    /\ wh[w].pc = "find"
    /\ wh' = [wh EXCEPT ![w] = [wh[w] EXCEPT
                  !.row = row, !.pc = IF row.status = "PAID" THEN "ensure" ELSE "lock"]]
    /\ UNCHANGED rows
    /\ WebhookUnchanged

LockPaid(w) ==
    LET c == wh[w].charge IN
    /\ wh[w].pc = "lock"
    /\ IF VersionMatches(c, wh[w].row)
       THEN MoveTo(c, "PAID") /\ ToWebhook(w, "event")
       ELSE UNCHANGED charge /\ ToWebhook(w, "refetch")
    /\ UNCHANGED <<settlements, events, interactions, contract, removals>>
    /\ WebhookUnchanged

\* Seeded fault: the winner of a conflict is taken to have written PAID.
RefetchTrusting(w) ==
    /\ wh[w].pc = "refetch"
    /\ ToWebhook(w, "ensure")
    /\ UNCHANGED rows
    /\ WebhookUnchanged

\* After a conflict the entry is dropped unless the winner wrote PAID.
Refetch(w) ==
    /\ wh[w].pc = "refetch"
    /\ ToWebhook(w, IF charge[wh[w].charge].status = "PAID" THEN "ensure" ELSE "done")
    /\ UNCHANGED rows
    /\ WebhookUnchanged

WebhookEvent(w) ==
    /\ wh[w].pc = "event"
    /\ WriteEvent(wh[w].charge, wh[w].row.status, "PAID", "WEBHOOK")
    /\ wh' = [wh EXCEPT ![w] = [wh[w] EXCEPT !.pc = "ensure", !.notes = 1]]
    /\ UNCHANGED <<charge, settlements, interactions, contract, removals>>
    /\ WebhookUnchanged

EnsureLookup(w) ==
    /\ wh[w].pc = "ensure"
    /\ wh' = [wh EXCEPT ![w] =
                  IF E2E(wh[w].charge) \in settlements
                  THEN [wh[w] EXCEPT !.pc = "total", !.notes = wh[w].notes + 1]
                  ELSE [wh[w] EXCEPT !.pc = "create"]]
    /\ UNCHANGED rows
    /\ WebhookUnchanged

\* Seeded fault: the webhook books under the txid, as the job does.
CreateUnderTxid(w) ==
    LET key == TXID(wh[w].charge) IN
    /\ wh[w].pc = "create"
    /\ settlements' = settlements \cup {key}
    /\ wh' = [wh EXCEPT ![w] = [wh[w] EXCEPT !.pc = "total", !.notes = wh[w].notes + 1]]
    /\ UNCHANGED <<charge, events, interactions, contract, removals>>
    /\ WebhookUnchanged

\* unique(source, externalPaymentId) turns a lost race into a plain refresh.
CreateSettlement(w) ==
    LET key == E2E(wh[w].charge) IN
    /\ wh[w].pc = "create"
    /\ settlements' = settlements \cup {key}
    /\ wh' = [wh EXCEPT ![w] =
                  IF key \in settlements THEN [wh[w] EXCEPT !.pc = "total"]
                  ELSE [wh[w] EXCEPT !.pc = "total", !.notes = wh[w].notes + 1]]
    /\ UNCHANGED <<charge, events, interactions, contract, removals>>
    /\ WebhookUnchanged

\* The transaction of refreshContractPaymentProjection runs at READ COMMITTED:
\* what it has read may be out of date when it writes.
ReadTotal(w) ==
    LET k == ContractOf[wh[w].charge] IN
    /\ wh[w].pc = "total"
    /\ \E target \in TargetsOf(k) :
         wh' = [wh EXCEPT ![w] = [wh[w] EXCEPT
                   !.pc = "project", !.counted = ContractSettlements(k),
                   !.full = Covers(ContractSettlements(k), target)]]
    /\ UNCHANGED rows
    /\ WebhookUnchanged

\* Seeded fault: a refresh that finds the debt uncovered reopens the contract.
WriteProjectionReopening(w) ==
    LET k == ContractOf[wh[w].charge] IN
    /\ wh[w].pc = "project"
    /\ contract' = [contract EXCEPT ![k] = [paid |-> wh[w].full,
                                            counted |-> wh[w].counted]]
    /\ ToWebhook(w, IF wh[w].full THEN "remove" ELSE NotePc(wh[w].notes))
    /\ UNCHANGED <<charge, settlements, events, interactions, removals>>
    /\ WebhookUnchanged

WriteProjection(w) ==
    LET k == ContractOf[wh[w].charge] IN
    /\ wh[w].pc = "project"
    /\ contract' = [contract EXCEPT ![k] = [paid |-> @.paid \/ wh[w].full,
                                            counted |-> wh[w].counted]]
    /\ ToWebhook(w, IF wh[w].full THEN "remove" ELSE NotePc(wh[w].notes))
    /\ UNCHANGED <<charge, settlements, events, interactions, removals>>
    /\ WebhookUnchanged

RequestRemoval(w) ==
    /\ wh[w].pc = "remove"
    /\ removals' = removals \cup {ContractOf[wh[w].charge]}
    /\ ToWebhook(w, NotePc(wh[w].notes))
    /\ UNCHANGED <<charge, settlements, events, interactions, contract>>
    /\ WebhookUnchanged

\* recordPixPaidInteraction: look, then create, with no unique key behind it.
Noted(w) == [wh[w] EXCEPT !.pc = NotePc(wh[w].notes - 1), !.notes = wh[w].notes - 1]

NoteLookup(w) ==
    /\ wh[w].pc = "note"
    /\ wh' = [wh EXCEPT ![w] = IF interactions[E2E(wh[w].charge)] > 0
                               THEN Noted(w)
                               ELSE [wh[w] EXCEPT !.pc = "noteCreate"]]
    /\ UNCHANGED rows
    /\ WebhookUnchanged

NoteCreate(w) ==
    /\ wh[w].pc = "noteCreate"
    /\ CountInteraction(E2E(wh[w].charge))
    /\ wh' = [wh EXCEPT ![w] = Noted(w)]
    /\ UNCHANGED <<charge, settlements, events, contract, removals>>
    /\ WebhookUnchanged

WebhookStep(w) ==
    \/ DedupLookup(w) \/ FindCharge(w) \/ LockPaid(w) \/ Refetch(w)
    \/ WebhookEvent(w) \/ EnsureLookup(w) \/ CreateSettlement(w)
    \/ ReadTotal(w) \/ WriteProjection(w) \/ RequestRemoval(w)
    \/ NoteLookup(w) \/ NoteCreate(w)

-----------------------------------------------------------------------------
(* ChargeLifecycleJob.execute.  A cycle reads its whole batch first and     *)
(* then works through it, charge by charge, from those rows.                *)

JobUnchanged == UNCHANGED <<bank, wh, sync, faults>>

FirstN(S, n) == {c \in S : Cardinality({d \in S : d < c}) < n}

Read(held, S) == [c \in Charges |-> IF c \in S THEN charge[c] ELSE held[c]]

\* First query.  Every charge is taken to be older than PENDING_GRACE_MINUTES;
\* late keeps what had expired by the start of the cycle.
StartCycle(j) ==
    LET pending == FirstN({c \in Charges : charge[c].status = "PENDING"}, BatchSize) IN
    /\ job[j].pc = "idle"
    /\ job' = [job EXCEPT ![j] = [IdleCycle EXCEPT
                  !.pc = IF Cardinality(pending) < BatchSize THEN "expired" ELSE "next",
                  !.todo = pending, !.late = overdue,
                  !.rows = Read(IdleCycle.rows, pending)]]
    /\ UNCHANGED rows
    /\ JobUnchanged

\* Seeded fault: only PENDING charges are polled.
OverdueIgnored(j) == {}

\* Second query: what is left of the batch goes to overdue charges.
Overdue(j) == {c \in job[j].late : charge[c].status \in Open} \ job[j].todo

ReadExpired(j) ==
    LET found == FirstN(Overdue(j), BatchSize - Cardinality(job[j].todo))
        todo == job[j].todo \cup found
    IN
    /\ job[j].pc = "expired"
    /\ job' = [job EXCEPT ![j] =
                  IF todo = {} THEN IdleCycle
                  ELSE [job[j] EXCEPT !.pc = "next", !.todo = todo,
                                      !.rows = Read(job[j].rows, found)]]
    /\ UNCHANGED rows
    /\ JobUnchanged

\* PENDING charges come first in the batch, each part in createdAt order.
Before(j, c, d) ==
    \/ /\ job[j].rows[c].status = "PENDING"
       /\ job[j].rows[d].status # "PENDING"
    \/ /\ job[j].rows[c].status = job[j].rows[d].status
       /\ c < d
IsNext(j, c) ==
    /\ job[j].pc = "next"
    /\ c \in job[j].todo
    /\ \A d \in job[j].todo \ {c} : ~Before(j, d, c)

\* Leave charge c; the cycle ends with its last charge.
FinishCharge(j, c) ==
    job' = IF job[j].todo \subseteq {c} THEN [job EXCEPT ![j] = IdleCycle]
           ELSE [job EXCEPT ![j] = [job[j] EXCEPT
                    !.pc = "next", !.todo = job[j].todo \ {c}, !.charge = NoCharge,
                    !.target = "PENDING", !.won = FALSE]]

\* Seeded fault: the local date wins over the bank's answer.
TransitionByDate(row, late, answer) ==
    IF late THEN {"EXPIRED"} ELSE {"PAID", "ISSUED", "FAILED"} \cap {answer}

\* The transition reconcileCharge chooses; none leaves the row alone.
Transition(row, late, answer) ==
    IF answer = "PAID" THEN {"PAID"}
    ELSE IF late THEN (IF answer \in {"ISSUED", row.status} THEN {"EXPIRED"} ELSE {})
    ELSE {"ISSUED", "FAILED"} \cap {answer}

JobFetch(j, c) ==
    LET move == Transition(job[j].rows[c], c \in job[j].late, Answer(c)) IN
    /\ IsNext(j, c)
    /\ cob[c] # "NONE"
    /\ IF move = {} THEN FinishCharge(j, c)
       ELSE \E target \in move :
              job' = [job EXCEPT ![j] = [job[j] EXCEPT
                         !.pc = "lock", !.charge = c, !.target = target]]
    /\ UNCHANGED rows
    /\ JobUnchanged

\* Time-outs and 429 skip the charge; other provider errors, the 404 of a
\* charge the bank does not know among them, are counted and skip it too.
JobFetchFails(j, c) ==
    /\ IsNext(j, c)
    /\ FinishCharge(j, c)
    /\ UNCHANGED rows
    /\ JobUnchanged

\* A conflict only logs a warning: what follows does not look at the outcome.
JobLock(j) ==
    LET c == job[j].charge
        won == VersionMatches(c, job[j].rows[c])
    IN
    /\ job[j].pc = "lock"
    /\ IF won THEN MoveTo(c, job[j].target) ELSE UNCHANGED charge
    /\ job' = [job EXCEPT ![j] = [job[j] EXCEPT !.pc = "event", !.won = won]]
    /\ UNCHANGED <<settlements, events, interactions, contract, removals>>
    /\ JobUnchanged

\* Seeded faults: every transition is booked, or none is.
AfterJobEventBooking(j) == job' = [job EXCEPT ![j].pc = "find"]
AfterJobEventSilent(j) == FinishCharge(j, job[j].charge)

AfterJobEvent(j) ==
    IF job[j].target = "PAID" THEN job' = [job EXCEPT ![j].pc = "find"]
    ELSE FinishCharge(j, job[j].charge)

JobEvent(j) ==
    LET c == job[j].charge IN
    /\ job[j].pc = "event"
    /\ WriteEvent(c, job[j].rows[c].status, job[j].target, "JOB")
    /\ AfterJobEvent(j)
    /\ UNCHANGED <<charge, settlements, interactions, contract, removals>>
    /\ JobUnchanged

JobFindSettlement(j) ==
    /\ job[j].pc = "find"
    /\ IF SettledBy(job[j].charge) # {} THEN FinishCharge(j, job[j].charge)
       ELSE job' = [job EXCEPT ![j].pc = "settle"]
    /\ UNCHANGED rows
    /\ JobUnchanged

\* externalPaymentId is externalId ?? txid; a unique violation is swallowed.
JobSettle(j) ==
    /\ job[j].pc = "settle"
    /\ settlements' = settlements \cup {TXID(job[j].charge)}
    /\ FinishCharge(j, job[j].charge)
    /\ UNCHANGED <<charge, events, interactions, contract, removals>>
    /\ JobUnchanged

CycleStep(j) ==
    \/ StartCycle(j) \/ ReadExpired(j)
    \/ \E c \in Charges : JobFetch(j, c) \/ JobFetchFails(j, c)
    \/ JobLock(j) \/ JobEvent(j) \/ JobFindSettlement(j) \/ JobSettle(j)

-----------------------------------------------------------------------------
(* syncCharge: read, ask the bank, write what it said.  The write has no    *)
(* version guard and does not advance the version.                          *)

SyncUnchanged == UNCHANGED <<bank, wh, job, faults>>
ToSync(s, pc) == sync' = [sync EXCEPT ![s].pc = pc]

SyncRead(s, c) ==
    /\ sync[s].pc = "idle"
    /\ sync' = [sync EXCEPT ![s] = [IdleSync EXCEPT !.pc = "fetch", !.charge = c,
                                                    !.row = charge[c]]]
    /\ UNCHANGED rows
    /\ SyncUnchanged

SyncFetch(s) ==
    /\ sync[s].pc = "fetch"
    /\ cob[sync[s].charge] # "NONE"
    /\ sync' = [sync EXCEPT ![s] = [sync[s] EXCEPT !.pc = "write",
                                              !.answer = Answer(sync[s].charge)]]
    /\ UNCHANGED rows
    /\ SyncUnchanged

SyncFetchFails(s) ==
    /\ sync[s].pc = "fetch"
    /\ ToSync(s, "done")
    /\ UNCHANGED rows
    /\ SyncUnchanged

SyncWrite(s) ==
    /\ sync[s].pc = "write"
    /\ charge' = [charge EXCEPT ![sync[s].charge].status = sync[s].answer]
    /\ ToSync(s, IF sync[s].row.status # sync[s].answer THEN "event" ELSE "done")
    /\ UNCHANGED <<settlements, events, interactions, contract, removals>>
    /\ SyncUnchanged

\* Seeded fault: whatever the bank answered is booked.
AfterSyncEventBooking(s) == ToSync(s, "find")

AfterSyncEvent(s) == ToSync(s, IF sync[s].answer = "PAID" THEN "find" ELSE "done")

SyncEvent(s) ==
    /\ sync[s].pc = "event"
    /\ WriteEvent(sync[s].charge, sync[s].row.status, sync[s].answer, "SYNC")
    /\ AfterSyncEvent(s)
    /\ UNCHANGED <<charge, settlements, interactions, contract, removals>>
    /\ SyncUnchanged

SyncFindSettlement(s) ==
    /\ sync[s].pc = "find"
    /\ ToSync(s, IF SettledBy(sync[s].charge) # {} THEN "note" ELSE "settle")
    /\ UNCHANGED rows
    /\ SyncUnchanged

SyncSettle(s) ==
    /\ sync[s].pc = "settle"
    /\ settlements' = settlements \cup {TXID(sync[s].charge)}
    /\ ToSync(s, "note")
    /\ UNCHANGED <<charge, events, interactions, contract, removals>>
    /\ SyncUnchanged

SyncNoteLookup(s) ==
    /\ sync[s].pc = "note"
    /\ ToSync(s, IF interactions[ID(sync[s].charge)] > 0 THEN "done" ELSE "noteCreate")
    /\ UNCHANGED rows
    /\ SyncUnchanged

SyncNoteCreate(s) ==
    /\ sync[s].pc = "noteCreate"
    /\ CountInteraction(ID(sync[s].charge))
    /\ ToSync(s, "done")
    /\ UNCHANGED <<charge, settlements, events, contract, removals>>
    /\ SyncUnchanged

SyncStep(s) ==
    \/ SyncFetch(s) \/ SyncFetchFails(s) \/ SyncWrite(s) \/ SyncEvent(s)
    \/ SyncFindSettlement(s) \/ SyncSettle(s) \/ SyncNoteLookup(s)
    \/ SyncNoteCreate(s)

-----------------------------------------------------------------------------
(* Faults: a process that crashes or whose database call throws.  Errors of *)
(* createPaymentEvent and createSettlement are swallowed, and the handler   *)
(* goes on; the job turns any other error of one charge into a skip.        *)

Fault ==
    /\ faults < MaxFaults
    /\ faults' = faults + 1
    /\ UNCHANGED <<bank, rows>>

WebhookFault(w) ==
    /\ \/ wh[w].pc \notin {"idle", "done"} /\ ToWebhook(w, "done")
       \/ /\ wh[w].pc = "event"
          /\ wh' = [wh EXCEPT ![w] = [wh[w] EXCEPT !.pc = "ensure", !.notes = 1]]
    /\ Fault
    /\ UNCHANGED <<job, sync>>

CycleFault(j) ==
    /\ \/ job[j].pc # "idle" /\ job' = [job EXCEPT ![j] = IdleCycle]
       \/ job[j].pc \in {"lock", "find", "settle"} /\ FinishCharge(j, job[j].charge)
       \/ job[j].pc = "event" /\ AfterJobEvent(j)
    /\ Fault
    /\ UNCHANGED <<wh, sync>>

SyncFault(s) ==
    /\ \/ sync[s].pc \notin {"idle", "done"} /\ ToSync(s, "done")
       \/ sync[s].pc = "event" /\ AfterSyncEvent(s)
       \/ sync[s].pc \in {"find", "settle"} /\ ToSync(s, "note")
    /\ Fault
    /\ UNCHANGED <<wh, job>>

-----------------------------------------------------------------------------
Environment == \E c \in Charges :
                 BankRegister(c) \/ BankPay(c) \/ BankRemove(c) \/ Expire(c)

Next ==
    \/ Environment
    \/ \E w \in Webhooks : WebhookStep(w) \/ WebhookFault(w)
                           \/ \E c \in Charges : Deliver(w, c)
    \/ \E j \in Cycles : CycleStep(j) \/ CycleFault(j)
    \/ \E s \in Syncs : SyncStep(s) \/ SyncFault(s)
                        \/ \E c \in Charges : SyncRead(s, c)

Spec == Init /\ [][Next]_vars

(* Time passes; a handler that runs is scheduled; the interval timer starts *)
(* a new cycle for ever; the bank does not stay unreachable for ever for a  *)
(* charge it is asked about again and again.  Nothing makes the bank        *)
(* deliver a webhook, an operator resynchronise, or a debtor pay.           *)
Fairness ==
    /\ \A c \in Charges : WF_vars(Expire(c))
    /\ \A w \in Webhooks : WF_vars(WebhookStep(w))
    /\ \A j \in Cycles :
         /\ WF_vars(CycleStep(j))
         /\ \A c \in Charges : SF_vars(JobFetch(j, c))
    /\ \A s \in Syncs : WF_vars(SyncStep(s))

FairSpec == Spec /\ Fairness

-----------------------------------------------------------------------------
(* Properties *)

ChargesOf(k) == {c \in Charges : ContractOf[c] = k}
BankPaid == {c \in Charges : cob[c] = "CONCLUIDA"}
Settled == {c \in Charges : SettledBy(c) # {}}

\* No interleaving of deliveries, cycles, resynchronisations and faults books
\* money the bank did not receive: every PAID row, settlement and PAID event,
\* every paid contract and every removal has a charge that is CONCLUIDA behind it.
NoPhantomPayment ==
    /\ \A c \in Charges : charge[c].status = "PAID" => c \in BankPaid
    /\ Settled \subseteq BankPaid
    /\ \A e \in events : e.to = "PAID" => e.charge \in BankPaid
    /\ \A k \in Contracts : contract[k].paid \/ k \in removals
                            => ChargesOf(k) \cap BankPaid # {}

\* A debt is handed to the Serasa removal only after its contract was marked
\* PAID, however the two refreshes of two deliveries interleave.
RemovalFollowsPaid == \A k \in removals : contract[k].paid

\* Nothing has failed, no process is at work, and nobody has resynchronised a
\* charge: what has been delivered has run to its end.
AtRest == /\ faults = 0
          /\ \A w \in Webhooks : wh[w].pc \in {"idle", "done"}
          /\ \A j \in Cycles : job[j].pc = "idle"
          /\ \A s \in Syncs : sync[s].pc = "idle"

\* The job has had no part in these charges: a cycle that changes a row under a
\* delivery makes it drop the payment, and what a cycle books reaches no projection.
ByWebhook(C) == \A e \in events : e.charge \in C => e.source = "WEBHOOK"

\* At rest, the contracts of delivered payments are PAID and handed over for
\* removal when the webhook alone has worked on them, although a refresh may write
\* what it read before the others did, against the amount of another charge.
ContractIsPaid ==
    AtRest => \A w \in Webhooks : LET k == ContractOf[wh[w].charge] IN
        (wh[w].pc = "done" /\ ByWebhook(ChargesOf(k)))
            => contract[k].paid /\ k \in removals

\* No manual resynchronisation has written a charge so far.
NoResync == \A s \in Syncs : sync[s].pc \in {"idle", "fetch", "write"}

\* What the version column is for: as long as no resynchronisation has written, a
\* charge that is PAID stays PAID with the version it was paid under, whatever
\* rows the job and the webhooks still hold.
PaidIsFinal ==
    [][NoResync' => \A c \in Charges :
                       charge[c].status = "PAID" => charge'[c] = charge[c]]_vars

\* With a single cycle, and until a resynchronisation writes, a settlement always
\* belongs to a PAID charge, although the job books it without looking whether
\* its update was applied: whoever beat the job to the row wrote PAID.
SettledIsPaid ==
    ((\A i, j \in Cycles : i = j) /\ NoResync)
        => \A c \in Settled : charge[c].status = "PAID"

\* At rest, deliveries have booked their payments, each once, and shown them in
\* the contract's history, however many deliveries of the same payment race.
DeliveryIsBooked ==
    AtRest => \A w \in Webhooks : LET c == wh[w].charge IN
        (wh[w].pc = "done" /\ ByWebhook({c}))
            => /\ charge[c].status = "PAID"
               /\ SettledBy(c) = {E2E(c)}
               /\ interactions[E2E(c)] > 0

\* Polling alone notices every payment: if the bank takes no money after
\* expiresAt, a charge it reports as paid becomes PAID.
PaymentIsNoticed ==
    \A c \in Charges : c \in BankPaid ~> charge[c].status = "PAID"

\* An overdue charge the bank knows and has not removed does not stay open.
OverdueIsClosed ==
    \A c \in Charges :
        (c \in overdue /\ cob[c] \in {"ATIVA", "CONCLUIDA"})
            ~> (charge[c].status \notin Open \/ cob[c] = "REMOVIDA")

\* The implementation of the abstract ledger: received money is the bank's,
\* recorded money is the charges with a settlement.
Ledger == INSTANCE PaymentLedger WITH received <- BankPaid, recorded <- Settled

RefinesLedger == Ledger!LedgerSpec
RefinesLiveLedger == Ledger!LiveLedgerSpec
=============================================================================
