-------------------------- MODULE SerasaOperations --------------------------
(***************************************************************************)
(* Inclusion, update and removal of debts at Serasa (operations.service,   *)
(* operation.processor, webhooks.service).  An operation sends one request *)
(* per contract: a form is submitted in one transaction, a job is queued   *)
(* for every item, a worker sends the request and writes down the answer,  *)
(* and Serasa confirms it later by a webhook, or never.  A cron repeats    *)
(* removals that stay unconfirmed.  Every awaited call is one step.        *)
(*                                                                         *)
(* An item is named with its operation and its contract, an operation with *)
(* its action, so Items is the set of items the operations of an instance  *)
(* may have.  BATCH_SIZE is 1: a batch is an item.  Interactions, the      *)
(* status of WebhookEvent and the agreement events are left out, and an    *)
(* operation may be asked for whenever serasaStatus and debtId allow it.   *)
(***************************************************************************)
EXTENDS Naturals, FiniteSets

CONSTANTS
    Ops,                \* ProviderOperation rows
    ActionOf,           \* the action of an operation
    Items,              \* ProviderOperationItem rows they may have
    OpOf, ContractOf,   \* the operation and the contract of an item
    Contracts,          \* rows of Contract
    Workers,            \* workers of the queue, one job each
    Hooks,              \* deliveries of webhooks handled at the same time
    Nobody,             \* no item
    MaxAttempts,        \* REMOVAL_MAX_ATTEMPTS
    MaxUpsets           \* bound on crashes, failing calls, lost answers, repeated
                        \* webhooks and cancellations, all together

ASSUME OperationAssumption == /\ ActionOf \in [Ops -> {"CREATE_OR_UPDATE", "REMOVE"}]
                              /\ OpOf \in [Items -> Ops]
                              /\ ContractOf \in [Items -> Contracts]
                              /\ IsFiniteSet(Items)
                              /\ Nobody \notin Items
ASSUME BoundAssumption == /\ MaxAttempts \in Nat \ {0}
                          /\ MaxUpsets \in Nat

VARIABLES
    contract,   \* Contract: serasaStatus, and whether debtId is set
    op, item,   \* the rows of the operations and of their items
    form,       \* the requests that create operations, one per operation
    cancelling, \* operations that a cancellation has found PENDING
    queue,      \* jobs in the queue, counted per item
    worker,     \* the workers
    rec,        \* reconcileStaleSerasaRemovals
    hook,       \* the webhook deliveries in progress
    recorded,   \* WebhookEvent rows, unique per transaction and type
    owed,       \* requests Serasa has accepted and sent no webhook for
    again,      \* webhooks it will deliver once more
    faults,     \* crashes and failing calls so far
    upsets,     \* lost answers, repeated webhooks and cancellations so far
    sends,      \* history: requests that have been made for an item
    applied     \* history: webhooks that have changed an item or a contract

rows == <<contract, op, item>>
serasa == <<owed, again>>
bounds == <<faults, upsets>>
vars == <<contract, op, item, form, cancelling, queue, worker, rec, hook, recorded,
          owed, again, faults, upsets, sends, applied>>

-----------------------------------------------------------------------------
(* Types *)

SerasaStatus == {"NOT_ENABLED", "SENT", "REGISTERED", "FAILED", "REMOVING", "REMOVED"}
Contract == [serasa : SerasaStatus, known : BOOLEAN]

OperationStatus == {"NONE", "PENDING", "PROCESSING", "COMPLETED", "PARTIALLY_FAILED",
                    "FAILED", "CANCELLED"}
\* REGISTERED stands for UPDATED too: no code tells them apart.
ItemStatus == {"NONE", "PENDING", "WAITING_PROVIDER_EVENT", "REGISTERED", "REMOVED",
               "FAILED"}
Item == [status : ItemStatus, tx : Nat, attempts : Nat]     \* tx 0 is null

\* A request that has reached Serasa: the tx-th of its item, or an attempt at it
\* whose answer was lost, so that its transactionId is unknown.
Transaction == [item : Items, tx : Nat, lost : BOOLEAN]
Event == [of : Transaction, done : BOOLEAN]     \* with a status of success or not

Form == [pc : {"idle", "submit", "enqueue", "done"}, items : SUBSET Items,
         replay : BOOLEAN]
Answer == {"none", "accepted", "updated", "failed"} \cup OperationStatus
Worker == [pc : {"idle", "claim", "status", "items", "send", "write", "project", "debtId",
                 "countPending", "countFailed", "finish", "catch"},
           item : Items \cup {Nobody}, answer : Answer]
Rec == [pc : {"next", "reopen", "enqueue"}, todo : SUBSET [item : Items, attempts : Nat],
        item : Items \cup {Nobody}]
Hook == [pc : {"idle", "dedup", "record", "match", "item", "contract", "failContract"},
         event : SUBSET Event]

TypeOK ==
    /\ contract \in [Contracts -> Contract]
    /\ op \in [Ops -> OperationStatus]
    /\ item \in [Items -> Item]
    /\ form \in [Ops -> Form]
    /\ cancelling \subseteq Ops
    /\ queue \in [Items -> Nat]
    /\ worker \in [Workers -> Worker]
    /\ rec \in Rec
    /\ hook \in [Hooks -> Hook]
    /\ recorded \subseteq Event
    /\ owed \subseteq Transaction
    /\ again \subseteq Event
    /\ faults \in Nat /\ upsets \in Nat /\ faults + upsets <= MaxUpsets
    /\ sends \in [Items -> Nat]
    /\ applied \subseteq Event

IdleForm == [pc |-> "idle", items |-> {}, replay |-> FALSE]
IdleWorker == [pc |-> "idle", item |-> Nobody, answer |-> "none"]
IdleRec == [pc |-> "next", todo |-> {}, item |-> Nobody]
IdleHook == [pc |-> "idle", event |-> {}]

\* A contract is new, or its debt is listed already.
NewContract == {[serasa |-> "NOT_ENABLED", known |-> FALSE],
                [serasa |-> "REGISTERED", known |-> TRUE]}

Init ==
    /\ contract \in [Contracts -> NewContract]
    /\ op = [o \in Ops |-> "NONE"]
    /\ item = [i \in Items |-> [status |-> "NONE", tx |-> 0, attempts |-> 0]]
    /\ form = [o \in Ops |-> IdleForm]
    /\ cancelling = {}
    /\ queue = [i \in Items |-> 0]
    /\ worker = [w \in Workers |-> IdleWorker]
    /\ rec = IdleRec
    /\ hook = [h \in Hooks |-> IdleHook]
    /\ recorded = {}
    /\ owed = {} /\ again = {}
    /\ faults = 0 /\ upsets = 0
    /\ sends = [i \in Items |-> 0]
    /\ applied = {}

ItemsOf(o) == {i \in Items : OpOf[i] = o /\ item[i].status # "NONE"}
Removes(i) == ActionOf[OpOf[i]] = "REMOVE"
MayUpset == faults + upsets < MaxUpsets
SetSerasa(c, status) == contract' = [contract EXCEPT ![c].serasa = status]
SetStatus(i, status) == item' = [item EXCEPT ![i].status = status]

-----------------------------------------------------------------------------
(* Creating an operation: create, createForContract (which cancelContract   *)
(* and createAutomaticRemovalForPaidContract call) and the replay of        *)
(* unconfirmed inclusions.  Contracts are selected before the transaction.  *)

Eligible(action, c) ==
    IF action = "REMOVE"
    THEN c.known /\ c.serasa \in {"REGISTERED", "SENT"}
    ELSE c.serasa \in {"NOT_ENABLED", "FAILED", "REMOVED", "REGISTERED"}

FormOnly == UNCHANGED <<rows, cancelling, queue, worker, rec, hook, recorded,
                        serasa, bounds, sends, applied>>

Select(o, items) ==
    /\ form[o].pc = "idle"
    /\ items # {}
    /\ \A i \in items : OpOf[i] = o /\ Eligible(ActionOf[o], contract[ContractOf[i]])
    /\ form' = [form EXCEPT ![o] = [pc |-> "submit", items |-> items, replay |-> FALSE]]
    /\ FormOnly

Unconfirmed(source) ==
    {ContractOf[i] : i \in {j \in ItemsOf(source) :
        /\ item[j].status = "WAITING_PROVIDER_EVENT"
        /\ contract[ContractOf[j]].serasa = "SENT"}}

\* retryUnconfirmedCreateOperation
SelectUnconfirmed(o, source) ==
    LET items == {i \in Items : OpOf[i] = o /\ ContractOf[i] \in Unconfirmed(source)} IN
    /\ form[o].pc = "idle"
    /\ ActionOf[source] = "CREATE_OR_UPDATE" /\ ActionOf[o] = "CREATE_OR_UPDATE"
    /\ items # {}
    /\ form' = [form EXCEPT ![o] = [pc |-> "submit", items |-> items, replay |-> TRUE]]
    /\ FormOnly

\* One transaction.  A replay leaves the contracts as they are.
Submit(o) ==
    LET items == form[o].items
        chosen == {ContractOf[i] : i \in items}
        status == IF ActionOf[o] = "REMOVE" THEN "REMOVING" ELSE "SENT"
    IN
    /\ form[o].pc = "submit"
    /\ form' = [form EXCEPT ![o].pc = "enqueue"]
    /\ op' = [op EXCEPT ![o] = "PENDING"]
    /\ item' = [i \in Items |-> IF i \in items THEN [item[i] EXCEPT !.status = "PENDING"]
                                ELSE item[i]]
    /\ contract' = [c \in Contracts |->
                       IF c \in chosen /\ ~form[o].replay
                       THEN [contract[c] EXCEPT !.serasa = status] ELSE contract[c]]
    /\ UNCHANGED <<cancelling, queue, worker, rec, hook, recorded, serasa, bounds, sends,
                   applied>>

Enqueue(o, i) ==
    /\ form[o].pc = "enqueue" /\ i \in form[o].items
    /\ queue' = [queue EXCEPT ![i] = @ + 1]
    /\ form' = [form EXCEPT ![o] = [form[o] EXCEPT
                   !.pc = IF form[o].items = {i} THEN "done" ELSE "enqueue",
                   !.items = form[o].items \ {i}]]
    /\ UNCHANGED <<rows, cancelling, worker, rec, hook, recorded, serasa, bounds, sends,
                   applied>>

\* The process dies before every item has its job, or before it submits.
FormDies(o) ==
    /\ MayUpset
    /\ form[o].pc \in {"submit", "enqueue"}
    /\ form' = [form EXCEPT ![o] = [IdleForm EXCEPT !.pc = "done"]]
    /\ faults' = faults + 1
    /\ UNCHANGED <<rows, cancelling, queue, worker, rec, hook, recorded, serasa,
                   upsets, sends, applied>>

-----------------------------------------------------------------------------
(* cancel: an operation that was found PENDING *)

ReadCancel(o) ==
    /\ op[o] = "PENDING"
    /\ o \notin cancelling /\ MayUpset
    /\ cancelling' = cancelling \cup {o}
    /\ upsets' = upsets + 1
    /\ UNCHANGED <<rows, form, queue, worker, rec, hook, recorded, serasa, faults,
                   sends, applied>>

Cancel(o) ==
    /\ o \in cancelling
    /\ cancelling' = cancelling \ {o}
    /\ item' = [i \in Items |-> IF i \in ItemsOf(o) /\ item[i].status = "PENDING"
                                THEN [item[i] EXCEPT !.status = "FAILED"] ELSE item[i]]
    /\ op' = [op EXCEPT ![o] = "CANCELLED"]
    /\ UNCHANGED <<contract, form, queue, worker, rec, hook, recorded, serasa, bounds,
                   sends, applied>>

-----------------------------------------------------------------------------
(* OperationProcessor.process *)

AtWorker(w, pc) == worker[w].pc = pc
GoWorker(w, pc) == worker' = [worker EXCEPT ![w].pc = pc]
FreeWorker(w) == worker' = [worker EXCEPT ![w] = IdleWorker]
WorkerFrame == UNCHANGED <<form, cancelling, rec, hook, recorded, bounds, applied>>

Take(w, i) ==
    /\ AtWorker(w, "idle")
    /\ queue[i] > 0
    /\ queue' = [queue EXCEPT ![i] = @ - 1]
    /\ worker' = [worker EXCEPT ![w] = [IdleWorker EXCEPT !.pc = "claim", !.item = i]]
    /\ WorkerFrame
    /\ UNCHANGED <<rows, serasa, sends>>

Claim(w) ==
    LET o == OpOf[worker[w].item] IN
    /\ AtWorker(w, "claim")
    /\ op' = [op EXCEPT ![o] = IF @ = "PENDING" THEN "PROCESSING" ELSE @]
    /\ GoWorker(w, "status")
    /\ WorkerFrame
    /\ UNCHANGED <<contract, item, queue, serasa, sends>>

\* Seeded fault: jobs of an operation that has ended are skipped, not only those
\* of a cancelled one.
ReadStatusStrictly(w) ==
    /\ AtWorker(w, "status")
    /\ IF op[OpOf[worker[w].item]] \notin {"PENDING", "PROCESSING"}
       THEN FreeWorker(w) ELSE GoWorker(w, "items")
    /\ WorkerFrame
    /\ UNCHANGED <<rows, queue, serasa, sends>>

ReadStatus(w) ==
    /\ AtWorker(w, "status")
    /\ IF op[OpOf[worker[w].item]] = "CANCELLED"
       THEN FreeWorker(w) ELSE GoWorker(w, "items")
    /\ WorkerFrame
    /\ UNCHANGED <<rows, queue, serasa, sends>>

ReadItems(w) ==
    /\ AtWorker(w, "items")
    /\ GoWorker(w, IF item[worker[w].item].status = "PENDING"
                   THEN "send" ELSE "countPending")
    /\ WorkerFrame
    /\ UNCHANGED <<rows, queue, serasa, sends>>

\* The adapter repeats a request that gets no answer.  In the end there is a 202
\* with a transaction, a 204 for an update, or an error; with
\* lost, an attempt without an answer has reached Serasa too.
Send(w, answer, lost) ==
    LET i == worker[w].item
        request == [item |-> i, tx |-> sends[i] + 1, lost |-> FALSE]
    IN
    /\ AtWorker(w, "send")
    /\ answer = "updated" => ~Removes(i)
    /\ lost => MayUpset
    /\ upsets' = IF lost THEN upsets + 1 ELSE upsets
    /\ sends' = [sends EXCEPT ![i] = @ + 1]
    /\ owed' = owed \cup (IF answer = "accepted" THEN {request} ELSE {})
                   \cup (IF lost THEN {[request EXCEPT !.lost = TRUE]} ELSE {})
    /\ worker' = [worker EXCEPT ![w] = [worker[w] EXCEPT !.pc = "write", !.answer = answer]]
    /\ UNCHANGED <<rows, form, cancelling, queue, rec, hook, recorded, again, faults,
                   applied>>

\* The item is written whatever has become of it since it was read.
WriteItem(w) ==
    LET i == worker[w].item
        counted == [item[i] EXCEPT !.attempts = item[i].attempts + 1]
    IN
    /\ AtWorker(w, "write")
    /\ item' = [item EXCEPT ![i] =
          CASE worker[w].answer = "accepted" ->
                  [counted EXCEPT !.status = "WAITING_PROVIDER_EVENT", !.tx = sends[i]]
            [] worker[w].answer = "updated" -> [counted EXCEPT !.status = "REGISTERED"]
            [] OTHER -> [counted EXCEPT !.status = "FAILED"]]
    /\ GoWorker(w, "project")
    /\ WorkerFrame
    /\ UNCHANGED <<contract, op, queue, serasa, sends>>

Project(w) ==
    LET i == worker[w].item
        accepted == worker[w].answer = "accepted"
    IN
    /\ AtWorker(w, "project")
    /\ SetSerasa(ContractOf[i],
          CASE accepted -> (IF Removes(i) THEN "REMOVING" ELSE "SENT")
            [] worker[w].answer = "updated" -> "REGISTERED"
            [] OTHER -> "FAILED")
    /\ worker' = [worker EXCEPT ![w] = [worker[w] EXCEPT !.answer = "none",
                     !.pc = IF accepted /\ ~Removes(i) THEN "debtId" ELSE "countPending"]]
    /\ WorkerFrame
    /\ UNCHANGED <<op, item, queue, serasa, sends>>

\* The answer may hold the debtId.
WriteDebtId(w, given) ==
    LET c == ContractOf[worker[w].item] IN
    /\ AtWorker(w, "debtId")
    /\ contract' = [contract EXCEPT ![c].known = @ \/ given]
    /\ GoWorker(w, "countPending")
    /\ WorkerFrame
    /\ UNCHANGED <<op, item, queue, serasa, sends>>

-----------------------------------------------------------------------------
(* updateOperationStatusIfComplete: two counts and an update *)

Having(o, status) == {i \in ItemsOf(o) : item[i].status = status}

\* Seeded fault: only the last batch closes the operation.
CountPendingByLast(w) ==
    LET o == OpOf[worker[w].item]
        last == CHOOSE i \in ItemsOf(o) : TRUE
    IN
    /\ AtWorker(w, "countPending")
    /\ IF Having(o, "PENDING") # {} \/ worker[w].item # last
       THEN FreeWorker(w) ELSE GoWorker(w, "countFailed")
    /\ WorkerFrame
    /\ UNCHANGED <<rows, queue, serasa, sends>>

\* Seeded fault: the batches that are still to come are not counted.
CountPendingSkipped(w) ==
    /\ AtWorker(w, "countPending")
    /\ GoWorker(w, "countFailed")
    /\ WorkerFrame
    /\ UNCHANGED <<rows, queue, serasa, sends>>

CountPending(w) ==
    /\ AtWorker(w, "countPending")
    /\ IF Having(OpOf[worker[w].item], "PENDING") # {}
       THEN FreeWorker(w) ELSE GoWorker(w, "countFailed")
    /\ WorkerFrame
    /\ UNCHANGED <<rows, queue, serasa, sends>>

CountFailed(w) ==
    LET o == OpOf[worker[w].item] IN
    /\ AtWorker(w, "countFailed")
    /\ worker' = [worker EXCEPT ![w] = [worker[w] EXCEPT !.pc = "finish", !.answer =
                     CASE Having(o, "FAILED") = {} -> "COMPLETED"
                       [] Having(o, "FAILED") = ItemsOf(o) -> "FAILED"
                       [] OTHER -> "PARTIALLY_FAILED"]]
    /\ WorkerFrame
    /\ UNCHANGED <<rows, queue, serasa, sends>>

Finish(w) ==
    /\ AtWorker(w, "finish")
    /\ op' = [op EXCEPT ![OpOf[worker[w].item]] = worker[w].answer]
    /\ FreeWorker(w)
    /\ WorkerFrame
    /\ UNCHANGED <<contract, item, queue, serasa, sends>>

\* A call throws, or the provider is not configured: the catch fails what is
\* still PENDING and leaves the contract as it is.
WorkerThrows(w) ==
    /\ MayUpset
    /\ worker[w].pc \notin {"idle", "catch"}
    /\ worker' = [worker EXCEPT ![w] = [worker[w] EXCEPT !.pc = "catch", !.answer = "none"]]
    /\ faults' = faults + 1
    /\ UNCHANGED <<rows, form, cancelling, queue, rec, hook, recorded, serasa,
                   upsets, sends, applied>>

Catch(w) ==
    LET i == worker[w].item IN
    /\ AtWorker(w, "catch")
    /\ item' = IF item[i].status = "PENDING"
               THEN [item EXCEPT ![i] = [item[i] EXCEPT !.status = "FAILED",
                                                        !.attempts = item[i].attempts + 1]]
               ELSE item
    /\ GoWorker(w, "countPending")
    /\ WorkerFrame
    /\ UNCHANGED <<contract, op, queue, serasa, sends>>

\* A worker that dies leaves a stalled job, which BullMQ queues once more.
WorkerDies(w, stalled) ==
    LET i == worker[w].item IN
    /\ MayUpset
    /\ ~AtWorker(w, "idle")
    /\ FreeWorker(w)
    /\ queue' = IF stalled THEN [queue EXCEPT ![i] = @ + 1] ELSE queue
    /\ faults' = faults + 1
    /\ UNCHANGED <<rows, form, cancelling, rec, hook, recorded, serasa, upsets, sends, applied>>

WorkerStep(w) ==
    \/ Claim(w) \/ ReadStatus(w) \/ ReadItems(w)
    \/ \E answer \in {"accepted", "updated", "failed"}, lost \in BOOLEAN :
          Send(w, answer, lost)
    \/ WriteItem(w) \/ Project(w)
    \/ \E given \in BOOLEAN : WriteDebtId(w, given)
    \/ CountPending(w) \/ CountFailed(w) \/ Finish(w) \/ Catch(w)


-----------------------------------------------------------------------------
(* handleWebhook *)

EventOf(h) == CHOOSE e \in hook[h].event : TRUE
AtHook(h, pc) == hook[h].pc = pc
GoHook(h, pc) == hook' = [hook EXCEPT ![h].pc = pc]
FreeHook(h) == hook' = [hook EXCEPT ![h] = IdleHook]
HookFrame == UNCHANGED <<op, form, cancelling, queue, worker, rec, sends>>

Receive(h, e) ==
    /\ AtHook(h, "idle")
    /\ hook' = [hook EXCEPT ![h] = [pc |-> "dedup", event |-> {e}]]
    /\ HookFrame
    /\ UNCHANGED <<contract, item, recorded, faults, applied>>

\* Serasa has handled a request, well or not, and may deliver its webhook twice.
Deliver(h, t, done, twice) ==
    LET e == [of |-> t, done |-> done] IN
    /\ t \in owed
    /\ twice => MayUpset
    /\ owed' = owed \ {t}
    /\ again' = IF twice THEN again \cup {e} ELSE again
    /\ upsets' = IF twice THEN upsets + 1 ELSE upsets
    /\ Receive(h, e)

DeliverAgain(h, e) ==
    /\ e \in again
    /\ again' = again \ {e}
    /\ Receive(h, e)
    /\ UNCHANGED <<owed, upsets>>

Dedup(h) ==
    /\ AtHook(h, "dedup")
    /\ IF EventOf(h) \in recorded THEN FreeHook(h) ELSE GoHook(h, "record")
    /\ HookFrame
    /\ UNCHANGED <<contract, item, recorded, serasa, bounds, applied>>

\* Seeded fault: without the unique index a second row is created.
RecordTwice(h) ==
    /\ AtHook(h, "record")
    /\ recorded' = recorded \cup {EventOf(h)}
    /\ GoHook(h, "match")
    /\ HookFrame
    /\ UNCHANGED <<contract, item, serasa, bounds, applied>>

\* The unique index stops a delivery that was overtaken by another.
Record(h) ==
    /\ AtHook(h, "record")
    /\ recorded' = recorded \cup {EventOf(h)}
    /\ IF EventOf(h) \in recorded THEN FreeHook(h) ELSE GoHook(h, "match")
    /\ HookFrame
    /\ UNCHANGED <<contract, item, serasa, bounds, applied>>

\* The contract is found by its number, the item by the transaction it holds.
Match(h) ==
    LET t == EventOf(h).of IN
    /\ AtHook(h, "match")
    /\ GoHook(h, IF ~t.lost /\ item[t.item].tx = t.tx THEN "item" ELSE "contract")
    /\ HookFrame
    /\ UNCHANGED <<contract, item, recorded, serasa, bounds, applied>>

\* What a webhook makes of the contract.
Confirmed(i) ==
    LET c == ContractOf[i] IN
    IF Removes(i) THEN [contract EXCEPT ![c].serasa = "REMOVED"]
    ELSE [contract EXCEPT ![c] = [serasa |-> "REGISTERED", known |-> TRUE]]

\* processDebtCreatedEvent, processDebtRemovedEvent
ApplyToItem(h) ==
    LET e == EventOf(h)
        i == e.of.item
    IN
    /\ AtHook(h, "item")
    /\ SetStatus(i, IF ~e.done THEN "FAILED" ELSE IF Removes(i) THEN "REMOVED"
                    ELSE "REGISTERED")
    /\ contract' = IF e.done THEN Confirmed(i) ELSE contract
    /\ applied' = applied \cup {e}
    /\ IF e.done \/ Removes(i) THEN FreeHook(h) ELSE GoHook(h, "failContract")
    /\ HookFrame
    /\ UNCHANGED <<recorded, serasa, bounds>>

FailContract(h) ==
    /\ AtHook(h, "failContract")
    /\ SetSerasa(ContractOf[EventOf(h).of.item], "FAILED")
    /\ FreeHook(h)
    /\ HookFrame
    /\ UNCHANGED <<item, recorded, serasa, bounds, applied>>

\* processContractEvent
ApplyToContract(h) ==
    LET e == EventOf(h)
        i == e.of.item
    IN
    /\ AtHook(h, "contract")
    /\ contract' = CASE e.done -> Confirmed(i)
                     [] ~e.done /\ Removes(i) -> contract
                     [] OTHER -> [contract EXCEPT ![ContractOf[i]].serasa = "FAILED"]
    /\ applied' = applied \cup {e}
    /\ FreeHook(h)
    /\ HookFrame
    /\ UNCHANGED <<item, recorded, serasa, bounds>>

\* The process dies, or a call throws.  The row of the event stays.
HookDies(h) ==
    /\ MayUpset
    /\ ~AtHook(h, "idle")
    /\ FreeHook(h)
    /\ faults' = faults + 1
    /\ HookFrame
    /\ UNCHANGED <<contract, item, recorded, serasa, upsets, applied>>

HookStep(h) == Dedup(h) \/ Record(h) \/ Match(h) \/ ApplyToItem(h) \/ FailContract(h)
               \/ ApplyToContract(h)

-----------------------------------------------------------------------------
(* reconcileStaleSerasaRemovals *)

Stale(i) == /\ Removes(i)
            /\ item[i].status = "WAITING_PROVIDER_EVENT"
            /\ contract[ContractOf[i]].serasa = "REMOVING"

RecFrame == UNCHANGED <<form, cancelling, worker, hook, recorded, serasa, sends, applied>>

RecRead ==
    /\ rec.pc = "next" /\ rec.todo = {}
    /\ rec' = [rec EXCEPT !.todo = {[item |-> i, attempts |-> item[i].attempts] :
                                        i \in {j \in Items : Stale(j)}}]
    /\ rec' # rec
    /\ RecFrame
    /\ UNCHANGED <<rows, queue, bounds>>

\* A candidate carries the attempts its item had when the candidates were read.
AtRec(k) == rec.pc = "next" /\ k \in rec.todo
Without(k) == [rec EXCEPT !.todo = rec.todo \ {k}]

\* The delay of its last attempt is not over.
RecSkip(k) ==
    /\ AtRec(k)
    /\ rec' = Without(k)
    /\ RecFrame
    /\ UNCHANGED <<rows, queue, bounds>>

\* Seeded fault: off by one, the last attempt neither repeated nor given up.
RecGiveUpLate(k) ==
    /\ AtRec(k)
    /\ k.attempts > MaxAttempts
    /\ SetStatus(k.item, "FAILED")
    /\ SetSerasa(ContractOf[k.item], "FAILED")
    /\ rec' = Without(k)
    /\ RecFrame
    /\ UNCHANGED <<op, queue, bounds>>

RecGiveUp(k) ==
    /\ AtRec(k)
    /\ k.attempts >= MaxAttempts
    /\ SetStatus(k.item, "FAILED")
    /\ SetSerasa(ContractOf[k.item], "FAILED")
    /\ rec' = Without(k)
    /\ RecFrame
    /\ UNCHANGED <<op, queue, bounds>>

RecClaim(k) ==
    /\ AtRec(k)
    /\ k.attempts < MaxAttempts
    /\ IF item[k.item].status = "WAITING_PROVIDER_EVENT"
       THEN /\ SetStatus(k.item, "PENDING")
            /\ rec' = [Without(k) EXCEPT !.pc = "reopen", !.item = k.item]
       ELSE UNCHANGED item /\ rec' = Without(k)
    /\ RecFrame
    /\ UNCHANGED <<contract, op, queue, bounds>>

RecReopen ==
    /\ rec.pc = "reopen"
    /\ op' = [op EXCEPT ![OpOf[rec.item]] = "PENDING"]
    /\ rec' = [rec EXCEPT !.pc = "enqueue"]
    /\ RecFrame
    /\ UNCHANGED <<contract, item, queue, bounds>>

RecEnqueue ==
    /\ rec.pc = "enqueue"
    /\ queue' = [queue EXCEPT ![rec.item] = @ + 1]
    /\ rec' = [rec EXCEPT !.pc = "next", !.item = Nobody]
    /\ RecFrame
    /\ UNCHANGED <<rows, bounds>>

\* The process dies, or a call throws and the rest of the candidates is left.
RecDies ==
    /\ MayUpset
    /\ rec # IdleRec
    /\ rec' = IdleRec
    /\ faults' = faults + 1
    /\ RecFrame
    /\ UNCHANGED <<rows, queue, upsets>>

-----------------------------------------------------------------------------

Next ==
    \/ \E o \in Ops, items \in SUBSET Items : Select(o, items)
    \/ \E o, source \in Ops : SelectUnconfirmed(o, source)
    \/ \E o \in Ops : Submit(o) \/ FormDies(o) \/ ReadCancel(o) \/ Cancel(o)
    \/ \E o \in Ops, i \in Items : Enqueue(o, i)
    \/ \E w \in Workers, i \in Items : Take(w, i)
    \/ \E w \in Workers : WorkerStep(w) \/ WorkerThrows(w)
    \/ \E w \in Workers, stalled \in BOOLEAN : WorkerDies(w, stalled)
    \/ \E h \in Hooks, t \in owed, done, twice \in BOOLEAN : Deliver(h, t, done, twice)
    \/ \E h \in Hooks, e \in again : DeliverAgain(h, e)
    \/ \E h \in Hooks : HookStep(h) \/ HookDies(h)
    \/ RecRead \/ RecReopen \/ RecEnqueue \/ RecDies
    \/ \E k \in rec.todo : RecSkip(k) \/ RecGiveUp(k) \/ RecClaim(k)

Spec == Init /\ [][Next]_vars

\* Processes run and the cron fires; a delay that is over stays over, so an item
\* that comes up again and again is not skipped forever.  Serasa owes nothing.
Fairness ==
    /\ \A o \in Ops : WF_vars(Submit(o)) /\ WF_vars(\E i \in Items : Enqueue(o, i))
    /\ \A w \in Workers : WF_vars(WorkerStep(w))
    /\ WF_vars(\E w \in Workers, i \in Items : Take(w, i))
    /\ \A h \in Hooks : WF_vars(HookStep(h))
    /\ WF_vars(RecRead \/ RecReopen \/ RecEnqueue)
    /\ \A i \in Items :
          SF_vars(\E k \in rec.todo : k.item = i /\ (RecGiveUp(k) \/ RecClaim(k)))

LiveSpec == Spec /\ Fairness

-----------------------------------------------------------------------------
(* Properties *)

\* A worker that has not yet written the answer for an item.
WorkingOn(w, i) ==
    worker[w].item = i /\ worker[w].pc \in {"claim", "status", "items", "send", "write"}

\* An item of an operation is PENDING only while something will still take it up:
\* a job, a worker on its way, or whoever queues the job.
PendingHasJob ==
    \A i \in Items : item[i].status = "PENDING" /\ faults = 0 =>
        \/ queue[i] > 0
        \/ form[OpOf[i]].pc = "enqueue" /\ i \in form[OpOf[i]].items
        \/ rec.item = i
        \/ \E w \in Workers : WorkingOn(w, i)

\* An operation stays PENDING or PROCESSING only while something is left to do for
\* it: of two workers that end at the same time, one sees that it was the last.
OpenHasWork ==
    \A o \in Ops : op[o] \in {"PENDING", "PROCESSING"} /\ faults = 0 =>
        \/ form[o].pc = "enqueue"
        \/ rec.item # Nobody /\ OpOf[rec.item] = o
        \/ \E i \in ItemsOf(o) : queue[i] > 0
        \/ \E w \in Workers : worker[w].item # Nobody /\ OpOf[worker[w].item] = o

\* A COMPLETED operation has made a request for every one of its contracts.
CompletedIsSent ==
    \A o \in Ops : op[o] = "COMPLETED" => \A i \in ItemsOf(o) : sends[i] > 0

\* A webhook changes an item or a contract once, however often it is delivered
\* and even when two deliveries are handled at the same time.
EffectsOnce ==
    \A h \in Hooks : hook[h].pc \in {"match", "item", "contract"} =>
        /\ EventOf(h) \notin applied
        /\ \A g \in Hooks \ {h} : hook[g].pc \in {"match", "item", "contract"} =>
              EventOf(g) # EventOf(h)

\* A removal that Serasa has accepted does not wait forever for its webhook.
RemovalIsSettled == <>[](\A i \in Items : ~Stale(i)) \/ <>(faults > 0)

=============================================================================
