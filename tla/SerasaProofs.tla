---------------------------- MODULE SerasaProofs ----------------------------
(***************************************************************************)
(* Theorems about SerasaOperations, for any operations, items, workers,    *)
(* deliveries and upsets: type correctness, group by group of the          *)
(* variables; the effects of webhooks; and the jobs, that an item that     *)
(* waits has somebody who will take it up, that an operation that is open  *)
(* has work left, and that a COMPLETED one has sent everything.            *)
(***************************************************************************)
EXTENDS SerasaOperations, TLAPS

-----------------------------------------------------------------------------
(* The inductive invariant: a process at work has a row to work on.        *)

Verdict == {"COMPLETED", "FAILED", "PARTIALLY_FAILED"}

WorkerFits(l) == /\ l \in Worker
                 /\ l.pc # "idle" => l.item \in Items
                 /\ l.pc = "finish" => l.answer \in Verdict
HookFits(l) == l \in Hook /\ (l.pc # "idle" => (CHOOSE e \in l.event : TRUE) \in Event)

RowsFit == /\ contract \in [Contracts -> Contract]
           /\ op \in [Ops -> OperationStatus]
           /\ item \in [Items -> Item]
FormsFit == form \in [Ops -> Form] /\ cancelling \subseteq Ops
WorkersFit == /\ worker = [w \in Workers |-> worker[w]]
              /\ \A w \in Workers : WorkerFits(worker[w])
QueueFits == queue \in [Items -> Nat] /\ sends \in [Items -> Nat]
RecFits == rec \in Rec /\ (rec.pc # "next" => rec.item \in Items)
HooksFit == /\ hook = [h \in Hooks |-> hook[h]]
            /\ \A h \in Hooks : HookFits(hook[h])
SerasaFits == /\ recorded \subseteq Event /\ applied \subseteq Event
              /\ owed \subseteq Transaction /\ again \subseteq Event
BoundsFit == faults \in Nat /\ upsets \in Nat /\ faults + upsets <= MaxUpsets

TypeInv == /\ RowsFit /\ FormsFit /\ WorkersFit /\ QueueFits /\ RecFits
           /\ HooksFit /\ SerasaFits /\ BoundsFit

LEMMA InvIsTypeOK == TypeInv => TypeOK
  BY DEF TypeInv, TypeOK, RowsFit, FormsFit, WorkersFit, QueueFits, RecFits, HooksFit,
         SerasaFits, BoundsFit, WorkerFits, HookFits

LEMMA TypeInit == Init => TypeInv
<1> SUFFICES ASSUME Init PROVE TypeInv
  OBVIOUS
<1>1. RowsFit
  <2>1. NewContract \subseteq Contract
    BY DEF NewContract, Contract, SerasaStatus
  <2>2. contract \in [Contracts -> Contract]
    BY <2>1 DEF Init
  <2>3. op \in [Ops -> OperationStatus]
    BY DEF Init, OperationStatus
  <2>4. item \in [Items -> Item]
    BY DEF Init, Item, ItemStatus
  <2> QED
    BY <2>2, <2>3, <2>4 DEF RowsFit
<1>2. FormsFit
  BY DEF Init, FormsFit, Form, IdleForm
<1>3. WorkersFit
  BY DEF Init, WorkersFit, WorkerFits, Worker, IdleWorker, Answer
<1>4. QueueFits
  BY DEF Init, QueueFits
<1>5. RecFits
  BY DEF Init, RecFits, Rec, IdleRec
<1>6. HooksFit
  BY DEF Init, HooksFit, HookFits, Hook, IdleHook
<1>7. SerasaFits /\ BoundsFit
  BY BoundAssumption DEF Init, SerasaFits, BoundsFit
<1> QED
  BY <1>1, <1>2, <1>3, <1>4, <1>5, <1>6, <1>7 DEF TypeInv

\* A group whose variables do not change fits as it did.
LEMMA GroupsFit ==
    ASSUME TypeInv,
           UNCHANGED rows \/ RowsFit',
           UNCHANGED <<form, cancelling>> \/ FormsFit',
           UNCHANGED worker \/ WorkersFit',
           UNCHANGED <<queue, sends>> \/ QueueFits',
           UNCHANGED rec \/ RecFits',
           UNCHANGED hook \/ HooksFit',
           UNCHANGED <<recorded, applied, owed, again>> \/ SerasaFits',
           UNCHANGED bounds \/ BoundsFit'
    PROVE  TypeInv'
<1>1. RowsFit'
  BY DEF TypeInv, rows, RowsFit
<1>2. FormsFit'
  BY DEF TypeInv, FormsFit
<1>3. WorkersFit'
  BY DEF TypeInv, WorkersFit
<1>4. QueueFits'
  BY DEF TypeInv, QueueFits
<1>5. RecFits'
  BY DEF TypeInv, RecFits
<1>6. HooksFit'
  BY DEF TypeInv, HooksFit
<1>7. SerasaFits'
  BY DEF TypeInv, SerasaFits
<1>8. BoundsFit'
  BY DEF TypeInv, bounds, BoundsFit
<1> QED
  BY <1>1, <1>2, <1>3, <1>4, <1>5, <1>6, <1>7, <1>8 DEF TypeInv

-----------------------------------------------------------------------------
(* Writes to rows.                                                         *)

LEMMA ItemIsTried ==
    ASSUME NEW row \in Item, NEW status \in ItemStatus, NEW tx \in Nat
    PROVE  /\ [[row EXCEPT !.attempts = row.attempts + 1] EXCEPT !.status = status] \in Item
           /\ [[row EXCEPT !.attempts = row.attempts + 1] EXCEPT
                   !.status = status, !.tx = tx] \in Item
           /\ [row EXCEPT !.status = status, !.attempts = row.attempts + 1] \in Item
<1>1. row.attempts + 1 \in Nat
  BY DEF Item
<1>2. ASSUME NEW n \in Nat
      PROVE  /\ [[row EXCEPT !.attempts = n] EXCEPT !.status = status] \in Item
             /\ [[row EXCEPT !.attempts = n] EXCEPT !.status = status, !.tx = tx] \in Item
             /\ [row EXCEPT !.status = status, !.attempts = n] \in Item
  BY DEF Item
<1> QED
  BY <1>1, <1>2

LEMMA ItemIsWritten ==
    ASSUME RowsFit, NEW i \in Items, NEW row \in Item, item' = [item EXCEPT ![i] = row]
    PROVE  item' \in [Items -> Item]
  BY DEF RowsFit

LEMMA StatusIsWritten ==
    ASSUME RowsFit, NEW i \in Items, NEW status \in ItemStatus, SetStatus(i, status)
    PROVE  item' \in [Items -> Item]
<1>1. item' = [item EXCEPT ![i] = [item[i] EXCEPT !.status = status]]
  BY DEF SetStatus, RowsFit
<1>2. [item[i] EXCEPT !.status = status] \in Item
  BY DEF RowsFit, Item
<1> QED
  BY <1>1, <1>2, ItemIsWritten

LEMMA SerasaIsWritten ==
    ASSUME RowsFit, NEW c \in Contracts, NEW status \in SerasaStatus, SetSerasa(c, status)
    PROVE  contract' \in [Contracts -> Contract]
<1>1. [contract[c] EXCEPT !.serasa = status] \in Contract
  BY DEF RowsFit, Contract
<1> QED
  BY <1>1 DEF SetSerasa, RowsFit

LEMMA OpIsWritten ==
    ASSUME RowsFit, NEW o \in Ops, NEW status \in OperationStatus,
           op' = [op EXCEPT ![o] = status]
    PROVE  op' \in [Ops -> OperationStatus]
  BY DEF RowsFit

LEMMA QueueIsWritten ==
    ASSUME QueueFits, NEW i \in Items, NEW n \in Nat,
           queue' = [queue EXCEPT ![i] = n], UNCHANGED sends
    PROVE  QueueFits'
  BY DEF QueueFits

LEMMA NamesFit ==
    ASSUME NEW i \in Items
    PROVE  OpOf[i] \in Ops /\ ContractOf[i] \in Contracts
  BY OperationAssumption

-----------------------------------------------------------------------------
(* Moves of a process.                                                     *)

LEMMA WorkerGoes ==
    ASSUME WorkersFit, NEW w \in Workers, NEW l, worker' = [worker EXCEPT ![w] = l],
           WorkerFits(l)
    PROVE  WorkersFit'
<1>1. \A v \in Workers : WorkerFits(worker'[v])
  <2> TAKE v \in Workers
  <2>1. CASE v = w
    BY <2>1 DEF WorkersFit
  <2>2. CASE v # w
    BY <2>2 DEF WorkersFit
  <2> QED
    BY <2>1, <2>2
<1> QED
  BY <1>1 DEF WorkersFit

LEMMA WorkerMoves ==
    ASSUME WorkersFit, NEW w \in Workers, worker[w].pc # "idle",
           NEW pc \in {"claim", "status", "items", "send", "write", "project", "debtId",
                       "countPending", "countFailed", "catch"},
           GoWorker(w, pc)
    PROVE  WorkersFit'
<1>1. WorkerFits([worker[w] EXCEPT !.pc = pc])
  BY DEF WorkersFit, WorkerFits, Worker
<1>2. worker' = [worker EXCEPT ![w] = [worker[w] EXCEPT !.pc = pc]]
  BY DEF GoWorker, WorkersFit
<1> QED
  BY <1>1, <1>2, WorkerGoes

LEMMA WorkerMovesWith ==
    ASSUME WorkersFit, NEW w \in Workers, worker[w].pc # "idle",
           NEW pc \in {"claim", "status", "items", "send", "write", "project", "debtId",
                       "countPending", "countFailed", "finish", "catch"},
           NEW answer \in Answer, pc = "finish" => answer \in Verdict,
           worker' = [worker EXCEPT ![w] = [worker[w] EXCEPT !.pc = pc, !.answer = answer]]
    PROVE  WorkersFit'
<1>1. WorkerFits([worker[w] EXCEPT !.pc = pc, !.answer = answer])
  BY DEF WorkersFit, WorkerFits, Worker
<1> QED
  BY <1>1, WorkerGoes

LEMMA WorkerFrees ==
    ASSUME WorkersFit, NEW w \in Workers, FreeWorker(w)
    PROVE  WorkersFit'
<1>1. WorkerFits(IdleWorker)
  BY DEF WorkerFits, Worker, IdleWorker, Answer
<1> QED
  BY <1>1, WorkerGoes DEF FreeWorker

LEMMA WorkerHas ==
    ASSUME WorkersFit, NEW w \in Workers, worker[w].pc # "idle"
    PROVE  /\ worker[w].item \in Items
           /\ OpOf[worker[w].item] \in Ops
           /\ ContractOf[worker[w].item] \in Contracts
  BY NamesFit DEF WorkersFit, WorkerFits

LEMMA HookGoes ==
    ASSUME HooksFit, NEW h \in Hooks, NEW l, hook' = [hook EXCEPT ![h] = l], HookFits(l)
    PROVE  HooksFit'
<1>1. \A g \in Hooks : HookFits(hook'[g])
  <2> TAKE g \in Hooks
  <2>1. CASE g = h
    BY <2>1 DEF HooksFit
  <2>2. CASE g # h
    BY <2>2 DEF HooksFit
  <2> QED
    BY <2>1, <2>2
<1> QED
  BY <1>1 DEF HooksFit

LEMMA HookMoves ==
    ASSUME HooksFit, NEW h \in Hooks, hook[h].pc # "idle",
           NEW pc \in {"dedup", "record", "match", "item", "contract", "failContract"},
           GoHook(h, pc)
    PROVE  HooksFit'
<1>1. HookFits([hook[h] EXCEPT !.pc = pc])
  BY DEF HooksFit, HookFits, Hook
<1>2. hook' = [hook EXCEPT ![h] = [hook[h] EXCEPT !.pc = pc]]
  BY DEF GoHook, HooksFit
<1> QED
  BY <1>1, <1>2, HookGoes

LEMMA HookFrees ==
    ASSUME HooksFit, NEW h \in Hooks, FreeHook(h)
    PROVE  HooksFit'
<1>1. HookFits(IdleHook)
  BY DEF HookFits, Hook, IdleHook
<1> QED
  BY <1>1, HookGoes DEF FreeHook

\* The event of a delivery, and the rows it is about.
LEMMA HookHas ==
    ASSUME HooksFit, NEW h \in Hooks, hook[h].pc # "idle"
    PROVE  /\ EventOf(h) \in Event
           /\ EventOf(h).of.item \in Items
           /\ ContractOf[EventOf(h).of.item] \in Contracts
<1>1. EventOf(h) \in Event
  BY DEF HooksFit, HookFits, EventOf
<1>2. EventOf(h).of.item \in Items
  BY <1>1 DEF Event, Transaction
<1> QED
  BY <1>1, <1>2, NamesFit

-----------------------------------------------------------------------------
(* Every step keeps the invariant.                                         *)

LEMMA FormGoes ==
    ASSUME FormsFit, NEW o \in Ops, NEW f \in Form, form' = [form EXCEPT ![o] = f]
    PROVE  form' \in [Ops -> Form]
  BY DEF FormsFit

LEMMA FormsStep ==
    ASSUME TypeInv, NEW o \in Ops,
           \/ \E items \in SUBSET Items : Select(o, items)
           \/ \E source \in Ops : SelectUnconfirmed(o, source)
           \/ Submit(o) \/ FormDies(o) \/ ReadCancel(o) \/ Cancel(o)
           \/ \E i \in Items : Enqueue(o, i)
    PROVE  TypeInv'
<1>0. RowsFit /\ FormsFit /\ QueueFits /\ BoundsFit
  BY DEF TypeInv
<1>1. ASSUME NEW items \in SUBSET Items, Select(o, items) PROVE TypeInv'
  <2>1. [pc |-> "submit", items |-> items, replay |-> FALSE] \in Form
    BY DEF Form
  <2>2. FormsFit'
    BY <1>0, <1>1, <2>1, FormGoes DEF Select, FormOnly, FormsFit
  <2> QED
    BY <1>1, <2>2, GroupsFit DEF Select, FormOnly, rows, serasa, bounds
<1>2. ASSUME NEW source \in Ops, SelectUnconfirmed(o, source) PROVE TypeInv'
  <2>1. ASSUME NEW items \in SUBSET Items
        PROVE  [pc |-> "submit", items |-> items, replay |-> TRUE] \in Form
    BY DEF Form
  <2>2. FormsFit'
    BY <1>0, <1>2, <2>1, FormGoes DEF SelectUnconfirmed, FormOnly, FormsFit
  <2> QED
    BY <1>2, <2>2, GroupsFit DEF SelectUnconfirmed, FormOnly, rows, serasa, bounds
<1>3. ASSUME Submit(o) PROVE TypeInv'
  <2>1. FormsFit'
    <3>1. [form[o] EXCEPT !.pc = "enqueue"] \in Form
      BY <1>0 DEF FormsFit, Form
    <3> QED
      BY <1>0, <1>3, <3>1, FormGoes DEF Submit, FormsFit
  <2>2. contract' \in [Contracts -> Contract]
    <3>1. ASSUME NEW c \in Contracts, NEW status \in {"REMOVING", "SENT"}
          PROVE  [contract[c] EXCEPT !.serasa = status] \in Contract
      BY <1>0 DEF RowsFit, Contract, SerasaStatus
    <3> QED
      BY <1>0, <1>3, <3>1 DEF Submit, RowsFit
  <2>3. item' \in [Items -> Item]
    <3>1. ASSUME NEW i \in Items PROVE [item[i] EXCEPT !.status = "PENDING"] \in Item
      BY <1>0 DEF RowsFit, Item, ItemStatus
    <3> QED
      BY <1>0, <1>3, <3>1 DEF Submit, RowsFit
  <2>4. op' \in [Ops -> OperationStatus]
    BY <1>0, <1>3, OpIsWritten DEF Submit, OperationStatus
  <2>5. RowsFit'
    BY <2>2, <2>3, <2>4 DEF RowsFit
  <2> QED
    BY <1>3, <2>1, <2>5, GroupsFit DEF Submit, serasa, bounds
<1>4. ASSUME FormDies(o) PROVE TypeInv'
  <2>1. FormsFit'
    <3>1. [IdleForm EXCEPT !.pc = "done"] \in Form
      BY DEF IdleForm, Form
    <3> QED
      BY <1>0, <1>4, <3>1, FormGoes DEF FormDies, FormsFit
  <2>2. BoundsFit'
    BY <1>0, <1>4, BoundAssumption DEF FormDies, BoundsFit, MayUpset
  <2> QED
    BY <1>4, <2>1, <2>2, GroupsFit DEF FormDies, rows, serasa
<1>5. ASSUME ReadCancel(o) PROVE TypeInv'
  <2>1. FormsFit'
    BY <1>0, <1>5 DEF ReadCancel, FormsFit
  <2>2. BoundsFit'
    BY <1>0, <1>5, BoundAssumption DEF ReadCancel, BoundsFit, MayUpset
  <2> QED
    BY <1>5, <2>1, <2>2, GroupsFit DEF ReadCancel, rows, serasa
<1>6. ASSUME Cancel(o) PROVE TypeInv'
  <2>1. FormsFit'
    BY <1>0, <1>6 DEF Cancel, FormsFit
  <2>2. item' \in [Items -> Item]
    <3>1. ASSUME NEW i \in Items PROVE [item[i] EXCEPT !.status = "FAILED"] \in Item
      BY <1>0 DEF RowsFit, Item, ItemStatus
    <3> QED
      BY <1>0, <1>6, <3>1 DEF Cancel, RowsFit
  <2>3. op' \in [Ops -> OperationStatus]
    BY <1>0, <1>6, OpIsWritten DEF Cancel, OperationStatus
  <2>4. RowsFit'
    BY <1>0, <1>6, <2>2, <2>3 DEF Cancel, RowsFit
  <2> QED
    BY <1>6, <2>1, <2>4, GroupsFit DEF Cancel, serasa, bounds
<1>7. ASSUME NEW i \in Items, Enqueue(o, i) PROVE TypeInv'
  <2>1. FormsFit'
    <3>1. ASSUME NEW pc \in {"done", "enqueue"}
          PROVE  [form[o] EXCEPT !.pc = pc, !.items = form[o].items \ {i}] \in Form
      BY <1>0 DEF FormsFit, Form
    <3> QED
      BY <1>0, <1>7, <3>1, FormGoes DEF Enqueue, FormsFit
  <2>2. QueueFits'
    <3>1. queue[i] + 1 \in Nat
      BY <1>0 DEF QueueFits
    <3> QED
      BY <1>0, <1>7, <3>1, QueueIsWritten DEF Enqueue
  <2> QED
    BY <1>7, <2>1, <2>2, GroupsFit DEF Enqueue, rows, serasa, bounds
<1> QED
  BY <1>1, <1>2, <1>3, <1>4, <1>5, <1>6, <1>7

LEMMA WorkersStep ==
    ASSUME TypeInv, NEW w \in Workers,
           \/ \E i \in Items : Take(w, i)
           \/ WorkerStep(w) \/ WorkerThrows(w)
           \/ \E stalled \in BOOLEAN : WorkerDies(w, stalled)
    PROVE  TypeInv'
<1>0. RowsFit /\ WorkersFit /\ QueueFits /\ SerasaFits /\ BoundsFit
  BY DEF TypeInv
<1> USE DEF AtWorker
<1>1. ASSUME NEW i \in Items, Take(w, i) PROVE TypeInv'
  <2>1. WorkersFit'
    <3>1. WorkerFits([IdleWorker EXCEPT !.pc = "claim", !.item = i])
      BY DEF WorkerFits, Worker, IdleWorker, Answer
    <3> QED
      BY <1>0, <1>1, <3>1, WorkerGoes DEF Take
  <2>2. QueueFits'
    <3>1. queue[i] \in Nat /\ queue[i] > 0
      BY <1>0, <1>1 DEF Take, QueueFits
    <3>2. queue[i] - 1 \in Nat
      BY <3>1
    <3> QED
      BY <1>0, <1>1, <3>2, QueueIsWritten DEF Take
  <2> QED
    BY <1>1, <2>1, <2>2, GroupsFit DEF Take, WorkerFrame, serasa
<1>2. ASSUME Claim(w) PROVE TypeInv'
  <2>1. WorkersFit'
    BY <1>0, <1>2, WorkerMoves DEF Claim
  <2>2. OpOf[worker[w].item] \in Ops
    BY <1>0, <1>2, WorkerHas DEF Claim
  <2>3. op' \in [Ops -> OperationStatus]
    BY <1>0, <1>2, <2>2 DEF Claim, RowsFit, OperationStatus
  <2>4. RowsFit'
    BY <1>0, <1>2, <2>3 DEF Claim, RowsFit
  <2> QED
    BY <1>2, <2>1, <2>4, GroupsFit DEF Claim, WorkerFrame, serasa
<1>3. ASSUME ReadStatus(w) PROVE TypeInv'
  <2>1. WorkersFit'
    BY <1>0, <1>3, WorkerMoves, WorkerFrees DEF ReadStatus
  <2> QED
    BY <1>3, <2>1, GroupsFit DEF ReadStatus, WorkerFrame, serasa
<1>4. ASSUME ReadItems(w) PROVE TypeInv'
  <2>1. WorkersFit'
    BY <1>0, <1>4, WorkerMoves DEF ReadItems
  <2> QED
    BY <1>4, <2>1, GroupsFit DEF ReadItems, WorkerFrame, serasa
<1>5. ASSUME NEW answer \in {"accepted", "updated", "failed"}, NEW lost \in BOOLEAN,
             Send(w, answer, lost)
      PROVE  TypeInv'
  <2>0. worker[w].item \in Items
    BY <1>0, <1>5, WorkerHas DEF Send
  <2>1. WorkersFit'
    BY <1>0, <1>5, WorkerMovesWith DEF Send, Answer
  <2>2. QueueFits'
    BY <1>0, <1>5, <2>0 DEF Send, QueueFits
  <2>3. SerasaFits'
    <3>1. ASSUME NEW gone \in BOOLEAN
          PROVE  [item |-> worker[w].item, tx |-> sends[worker[w].item] + 1, lost |-> gone]
                    \in Transaction
      BY <1>0, <2>0 DEF Transaction, QueueFits
    <3> DEFINE request(gone) ==
                 [item |-> worker[w].item, tx |-> sends[worker[w].item] + 1, lost |-> gone]
    <3>2. owed' \subseteq owed \cup {request(FALSE), request(TRUE)}
      BY <1>5 DEF Send
    <3>3. owed' \subseteq Transaction
      BY <1>0, <3>1, <3>2 DEF SerasaFits
    <3> QED
      BY <1>0, <1>5, <3>3 DEF Send, SerasaFits
  <2>4. BoundsFit'
    BY <1>0, <1>5, BoundAssumption DEF Send, BoundsFit, MayUpset
  <2> QED
    BY <1>5, <2>1, <2>2, <2>3, <2>4, GroupsFit DEF Send, rows
<1>6. ASSUME WriteItem(w) PROVE TypeInv'
  <2> DEFINE i == worker[w].item
  <2>0. i \in Items
    BY <1>0, <1>6, WorkerHas DEF WriteItem
  <2>1. WorkersFit'
    BY <1>0, <1>6, WorkerMoves DEF WriteItem
  <2>2. ASSUME NEW status \in ItemStatus, NEW tx \in Nat
        PROVE  /\ [[item[i] EXCEPT !.attempts = item[i].attempts + 1] EXCEPT
                        !.status = status] \in Item
               /\ [[item[i] EXCEPT !.attempts = item[i].attempts + 1] EXCEPT
                        !.status = status, !.tx = tx] \in Item
    <3>1. item[i] \in Item
      BY <1>0, <2>0 DEF RowsFit
    <3> QED
      BY <3>1, ItemIsTried
  <2>3. item' \in [Items -> Item]
    <3>1. sends[i] \in Nat
      BY <1>0, <2>0 DEF QueueFits
    <3>2. {"WAITING_PROVIDER_EVENT", "REGISTERED", "FAILED"} \subseteq ItemStatus
      BY DEF ItemStatus
    <3> QED
      BY <1>0, <1>6, <2>0, <2>2, <3>1, <3>2, ItemIsWritten DEF WriteItem
  <2>4. RowsFit'
    BY <1>0, <1>6, <2>3 DEF WriteItem, RowsFit
  <2> QED
    BY <1>6, <2>1, <2>4, GroupsFit DEF WriteItem, WorkerFrame, serasa
<1>7. ASSUME Project(w) PROVE TypeInv'
  <2>1. WorkersFit'
    BY <1>0, <1>7, WorkerMovesWith DEF Project, Answer
  <2>2. contract' \in [Contracts -> Contract]
    BY <1>0, <1>7, WorkerHas, SerasaIsWritten DEF Project, SerasaStatus
  <2>3. RowsFit'
    BY <1>0, <1>7, <2>2 DEF Project, RowsFit
  <2> QED
    BY <1>7, <2>1, <2>3, GroupsFit DEF Project, WorkerFrame, serasa
<1>8. ASSUME NEW given \in BOOLEAN, WriteDebtId(w, given) PROVE TypeInv'
  <2>1. WorkersFit'
    BY <1>0, <1>8, WorkerMoves DEF WriteDebtId
  <2>2. contract' \in [Contracts -> Contract]
    <3>1. ContractOf[worker[w].item] \in Contracts
      BY <1>0, <1>8, WorkerHas DEF WriteDebtId
    <3> QED
      BY <1>0, <1>8, <3>1 DEF WriteDebtId, RowsFit, Contract
  <2>3. RowsFit'
    BY <1>0, <1>8, <2>2 DEF WriteDebtId, RowsFit
  <2> QED
    BY <1>8, <2>1, <2>3, GroupsFit DEF WriteDebtId, WorkerFrame, serasa
<1>9. ASSUME CountPending(w) PROVE TypeInv'
  <2>1. WorkersFit'
    BY <1>0, <1>9, WorkerMoves, WorkerFrees DEF CountPending
  <2> QED
    BY <1>9, <2>1, GroupsFit DEF CountPending, WorkerFrame, serasa
<1>10. ASSUME CountFailed(w) PROVE TypeInv'
  <2>1. WorkersFit'
    <3> DEFINE failed == Having(OpOf[worker[w].item], "FAILED")
               all == ItemsOf(OpOf[worker[w].item])
               answer == CASE failed = {} -> "COMPLETED"
                           [] failed = all -> "FAILED"
                           [] OTHER -> "PARTIALLY_FAILED"
    <3>1. worker' = [worker EXCEPT ![w] = [worker[w] EXCEPT !.pc = "finish",
                                                            !.answer = answer]]
      BY <1>10 DEF CountFailed
    <3>3. answer \in Verdict
      <4> HIDE DEF failed, all
      <4> QED
        BY DEF Verdict
    <3> HIDE DEF answer
    <3>2. Verdict \subseteq Answer
      BY DEF Verdict, Answer, OperationStatus
    <3> QED
      BY <1>0, <1>10, <3>1, <3>2, <3>3, WorkerMovesWith DEF CountFailed
  <2> QED
    BY <1>10, <2>1, GroupsFit DEF CountFailed, WorkerFrame, serasa
<1>11. ASSUME Finish(w) PROVE TypeInv'
  <2>1. WorkersFit'
    BY <1>0, <1>11, WorkerFrees DEF Finish
  <2>2. worker[w].answer \in OperationStatus
    BY <1>0, <1>11 DEF Finish, WorkersFit, WorkerFits, Verdict, OperationStatus
  <2>3. op' \in [Ops -> OperationStatus]
    BY <1>0, <1>11, <2>2, WorkerHas, OpIsWritten DEF Finish
  <2>4. RowsFit'
    BY <1>0, <1>11, <2>3 DEF Finish, RowsFit
  <2> QED
    BY <1>11, <2>1, <2>4, GroupsFit DEF Finish, WorkerFrame, serasa
<1>12. ASSUME WorkerThrows(w) PROVE TypeInv'
  <2>1. WorkersFit'
    BY <1>0, <1>12, WorkerMovesWith DEF WorkerThrows, Answer
  <2>2. BoundsFit'
    BY <1>0, <1>12, BoundAssumption DEF WorkerThrows, BoundsFit, MayUpset
  <2> QED
    BY <1>12, <2>1, <2>2, GroupsFit DEF WorkerThrows, rows, serasa
<1>13. ASSUME Catch(w) PROVE TypeInv'
  <2> DEFINE i == worker[w].item
  <2>0. i \in Items
    BY <1>0, <1>13, WorkerHas DEF Catch
  <2>1. WorkersFit'
    BY <1>0, <1>13, WorkerMoves DEF Catch
  <2>2. [item[i] EXCEPT !.status = "FAILED", !.attempts = item[i].attempts + 1] \in Item
    <3>1. item[i] \in Item
      BY <1>0, <2>0 DEF RowsFit
    <3> QED
      BY <3>1, ItemIsTried DEF ItemStatus
  <2>3. item' \in [Items -> Item]
    BY <1>0, <1>13, <2>0, <2>2, ItemIsWritten DEF Catch, RowsFit
  <2>4. RowsFit'
    BY <1>0, <1>13, <2>3 DEF Catch, RowsFit
  <2> QED
    BY <1>13, <2>1, <2>4, GroupsFit DEF Catch, WorkerFrame, serasa
<1>14. ASSUME NEW stalled \in BOOLEAN, WorkerDies(w, stalled) PROVE TypeInv'
  <2>1. WorkersFit'
    BY <1>0, <1>14, WorkerFrees DEF WorkerDies
  <2>2. QueueFits'
    BY <1>0, <1>14, WorkerHas DEF WorkerDies, QueueFits
  <2>3. BoundsFit'
    BY <1>0, <1>14, BoundAssumption DEF WorkerDies, BoundsFit, MayUpset
  <2> QED
    BY <1>14, <2>1, <2>2, <2>3, GroupsFit DEF WorkerDies, rows, serasa
<1> QED
  BY <1>1, <1>2, <1>3, <1>4, <1>5, <1>6, <1>7, <1>8, <1>9, <1>10, <1>11, <1>12, <1>13,
     <1>14 DEF WorkerStep

LEMMA HooksStep ==
    ASSUME TypeInv, NEW h \in Hooks,
           \/ \E t \in owed, done, twice \in BOOLEAN : Deliver(h, t, done, twice)
           \/ \E e \in again : DeliverAgain(h, e)
           \/ HookStep(h) \/ HookDies(h)
    PROVE  TypeInv'
<1>0. RowsFit /\ HooksFit /\ SerasaFits /\ BoundsFit
  BY DEF TypeInv
<1> USE DEF AtHook
<1>1. ASSUME NEW e \in Event, Receive(h, e) PROVE HooksFit'
  <2>1. HookFits([pc |-> "dedup", event |-> {e}])
    BY <1>1 DEF HookFits, Hook
  <2> QED
    BY <1>0, <1>1, <2>1, HookGoes DEF Receive
<1>2. ASSUME NEW t \in owed, NEW done \in BOOLEAN, NEW twice \in BOOLEAN,
             Deliver(h, t, done, twice)
      PROVE  TypeInv'
  <2>1. [of |-> t, done |-> done] \in Event
    BY <1>0 DEF SerasaFits, Event
  <2>2. HooksFit'
    BY <1>1, <1>2, <2>1 DEF Deliver
  <2>3. SerasaFits'
    BY <1>0, <1>2, <2>1 DEF Deliver, Receive, SerasaFits
  <2>4. BoundsFit'
    BY <1>0, <1>2, BoundAssumption DEF Deliver, Receive, BoundsFit, MayUpset
  <2> QED
    BY <1>2, <2>2, <2>3, <2>4, GroupsFit DEF Deliver, Receive, HookFrame, rows
<1>3. ASSUME NEW e \in again, DeliverAgain(h, e) PROVE TypeInv'
  <2>1. HooksFit'
    BY <1>0, <1>1, <1>3 DEF DeliverAgain, SerasaFits
  <2>2. SerasaFits'
    BY <1>0, <1>3 DEF DeliverAgain, Receive, SerasaFits
  <2> QED
    BY <1>3, <2>1, <2>2, GroupsFit DEF DeliverAgain, Receive, HookFrame, rows, bounds
<1>4. ASSUME Dedup(h) PROVE TypeInv'
  <2>1. HooksFit'
    BY <1>0, <1>4, HookMoves, HookFrees DEF Dedup
  <2> QED
    BY <1>4, <2>1, GroupsFit DEF Dedup, HookFrame, rows, serasa
<1>5. ASSUME Record(h) PROVE TypeInv'
  <2>1. HooksFit'
    BY <1>0, <1>5, HookMoves, HookFrees DEF Record
  <2>2. SerasaFits'
    BY <1>0, <1>5, HookHas DEF Record, SerasaFits, serasa
  <2> QED
    BY <1>5, <2>1, <2>2, GroupsFit DEF Record, HookFrame, rows
<1>6. ASSUME Match(h) PROVE TypeInv'
  <2>1. HooksFit'
    BY <1>0, <1>6, HookMoves DEF Match
  <2> QED
    BY <1>6, <2>1, GroupsFit DEF Match, HookFrame, rows, serasa
\* What a webhook makes of a contract.
<1>7. ASSUME NEW i \in Items PROVE Confirmed(i) \in [Contracts -> Contract]
  <2>1. ContractOf[i] \in Contracts
    BY NamesFit
  <2>2. [contract[ContractOf[i]] EXCEPT !.serasa = "REMOVED"] \in Contract
    BY <1>0, <2>1 DEF RowsFit, Contract, SerasaStatus
  <2>3. [serasa |-> "REGISTERED", known |-> TRUE] \in Contract
    BY DEF Contract, SerasaStatus
  <2> QED
    BY <1>0, <2>1, <2>2, <2>3 DEF Confirmed, RowsFit
<1>8. ASSUME ApplyToItem(h) PROVE TypeInv'
  <2>0. EventOf(h) \in Event /\ EventOf(h).of.item \in Items
    BY <1>0, <1>8, HookHas DEF ApplyToItem
  <2>1. HooksFit'
    BY <1>0, <1>8, HookMoves, HookFrees DEF ApplyToItem
  <2>2. SerasaFits'
    BY <1>0, <1>8, <2>0 DEF ApplyToItem, SerasaFits, serasa
  <2>3. item' \in [Items -> Item]
    BY <1>0, <1>8, <2>0, StatusIsWritten DEF ApplyToItem, ItemStatus
  <2>4. contract' \in [Contracts -> Contract]
    BY <1>0, <1>7, <1>8, <2>0 DEF ApplyToItem, RowsFit
  <2>5. RowsFit'
    BY <1>0, <1>8, <2>3, <2>4 DEF ApplyToItem, HookFrame, RowsFit
  <2> QED
    BY <1>8, <2>1, <2>2, <2>5, GroupsFit DEF ApplyToItem, HookFrame
<1>9. ASSUME FailContract(h) PROVE TypeInv'
  <2>1. HooksFit'
    BY <1>0, <1>9, HookFrees DEF FailContract
  <2>2. contract' \in [Contracts -> Contract]
    BY <1>0, <1>9, HookHas, SerasaIsWritten DEF FailContract, SerasaStatus
  <2>3. RowsFit'
    BY <1>0, <1>9, <2>2 DEF FailContract, HookFrame, RowsFit
  <2> QED
    BY <1>9, <2>1, <2>3, GroupsFit DEF FailContract, HookFrame, serasa
<1>10. ASSUME ApplyToContract(h) PROVE TypeInv'
  <2>0. /\ EventOf(h) \in Event /\ EventOf(h).of.item \in Items
        /\ ContractOf[EventOf(h).of.item] \in Contracts
    BY <1>0, <1>10, HookHas DEF ApplyToContract
  <2>1. HooksFit'
    BY <1>0, <1>10, HookFrees DEF ApplyToContract
  <2>2. SerasaFits'
    BY <1>0, <1>10, <2>0 DEF ApplyToContract, SerasaFits, serasa
  <2>3. [contract EXCEPT ![ContractOf[EventOf(h).of.item]].serasa = "FAILED"]
           \in [Contracts -> Contract]
    BY <1>0, <2>0 DEF RowsFit, Contract, SerasaStatus
  <2>4. contract' \in [Contracts -> Contract]
    <3>1. \/ contract' = Confirmed(EventOf(h).of.item)
          \/ contract' = contract
          \/ contract' = [contract EXCEPT ![ContractOf[EventOf(h).of.item]].serasa = "FAILED"]
      BY <1>10, <2>0 DEF ApplyToContract
    <3> QED
      BY <1>0, <1>7, <2>0, <2>3, <3>1 DEF RowsFit
  <2>5. RowsFit'
    BY <1>0, <1>10, <2>4 DEF ApplyToContract, HookFrame, RowsFit
  <2> QED
    BY <1>10, <2>1, <2>2, <2>5, GroupsFit DEF ApplyToContract, HookFrame
<1>11. ASSUME HookDies(h) PROVE TypeInv'
  <2>1. HooksFit'
    BY <1>0, <1>11, HookFrees DEF HookDies
  <2>2. BoundsFit'
    BY <1>0, <1>11, BoundAssumption DEF HookDies, BoundsFit, MayUpset
  <2> QED
    BY <1>11, <2>1, <2>2, GroupsFit DEF HookDies, HookFrame, rows, serasa
<1> QED
  BY <1>2, <1>3, <1>4, <1>5, <1>6, <1>8, <1>9, <1>10, <1>11 DEF HookStep

LEMMA RecSteps ==
    ASSUME TypeInv,
           \/ RecRead \/ RecReopen \/ RecEnqueue \/ RecDies
           \/ \E k \in rec.todo : RecSkip(k) \/ RecGiveUp(k) \/ RecClaim(k)
    PROVE  TypeInv'
<1>0. RowsFit /\ QueueFits /\ RecFits /\ BoundsFit
  BY DEF TypeInv
<1>1. ASSUME RecRead PROVE TypeInv'
  <2> DEFINE todo == {[item |-> i, attempts |-> item[i].attempts] :
                         i \in {j \in Items : Stale(j)}}
  <2>1. todo \subseteq [item : Items, attempts : Nat]
    BY <1>0 DEF RowsFit, Item
  <2> HIDE DEF todo
  <2>2. [rec EXCEPT !.todo = todo] \in Rec
    BY <1>0, <2>1 DEF RecFits, Rec
  <2>3. RecFits'
    BY <1>0, <1>1, <2>2 DEF RecRead, todo, RecFits, Rec
  <2> QED
    BY <1>1, <2>3, GroupsFit DEF RecRead, RecFrame, serasa
\* A candidate is an item; the others stay.
<1>2. ASSUME NEW k \in rec.todo PROVE k.item \in Items /\ Without(k) \in Rec
  BY <1>0 DEF RecFits, Rec, Without
<1>3. ASSUME NEW k \in rec.todo, RecSkip(k) PROVE TypeInv'
  <2>1. RecFits'
    BY <1>0, <1>2, <1>3 DEF RecSkip, AtRec, Without, RecFits, Rec
  <2> QED
    BY <1>3, <2>1, GroupsFit DEF RecSkip, RecFrame, serasa
<1>4. ASSUME NEW k \in rec.todo, RecGiveUp(k) PROVE TypeInv'
  <2>1. RecFits'
    BY <1>0, <1>2, <1>4 DEF RecGiveUp, AtRec, Without, RecFits, Rec
  <2>2. item' \in [Items -> Item]
    BY <1>0, <1>2, <1>4, StatusIsWritten DEF RecGiveUp, ItemStatus
  <2>3. contract' \in [Contracts -> Contract]
    BY <1>0, <1>2, <1>4, NamesFit, SerasaIsWritten DEF RecGiveUp, SerasaStatus
  <2>4. RowsFit'
    BY <1>0, <1>4, <2>2, <2>3 DEF RecGiveUp, RowsFit
  <2> QED
    BY <1>4, <2>1, <2>4, GroupsFit DEF RecGiveUp, RecFrame, serasa
<1>5. ASSUME NEW k \in rec.todo, RecClaim(k) PROVE TypeInv'
  <2>1. RecFits'
    <3>1. [Without(k) EXCEPT !.pc = "reopen", !.item = k.item] \in Rec
      BY <1>2 DEF Rec
    <3>2. CASE rec' = Without(k)
      BY <1>0, <1>2, <1>5, <3>2 DEF RecClaim, AtRec, Without, RecFits, Rec
    <3>3. CASE rec' = [Without(k) EXCEPT !.pc = "reopen", !.item = k.item]
      BY <1>2, <3>1, <3>3 DEF RecFits, Rec
    <3> QED
      BY <1>5, <3>2, <3>3 DEF RecClaim
  <2>2. item' \in [Items -> Item]
    BY <1>0, <1>2, <1>5, StatusIsWritten DEF RecClaim, ItemStatus, RowsFit
  <2>3. RowsFit'
    BY <1>0, <1>5, <2>2 DEF RecClaim, RowsFit
  <2> QED
    BY <1>5, <2>1, <2>3, GroupsFit DEF RecClaim, RecFrame, serasa
<1>6. ASSUME RecReopen PROVE TypeInv'
  <2>1. RecFits'
    BY <1>0, <1>6 DEF RecReopen, RecFits, Rec
  <2>2. op' \in [Ops -> OperationStatus]
    BY <1>0, <1>6, NamesFit, OpIsWritten DEF RecReopen, RecFits, OperationStatus
  <2>3. RowsFit'
    BY <1>0, <1>6, <2>2 DEF RecReopen, RowsFit
  <2> QED
    BY <1>6, <2>1, <2>3, GroupsFit DEF RecReopen, RecFrame, serasa
<1>7. ASSUME RecEnqueue PROVE TypeInv'
  <2>1. RecFits'
    BY <1>0, <1>7 DEF RecEnqueue, RecFits, Rec
  <2>2. rec.item \in Items /\ queue[rec.item] + 1 \in Nat
    BY <1>0, <1>7 DEF RecEnqueue, RecFits, QueueFits
  <2>3. QueueFits'
    BY <1>0, <1>7, <2>2, QueueIsWritten DEF RecEnqueue, RecFrame
  <2> QED
    BY <1>7, <2>1, <2>3, GroupsFit DEF RecEnqueue, RecFrame, serasa
<1>8. ASSUME RecDies PROVE TypeInv'
  <2>1. RecFits'
    BY <1>8 DEF RecDies, IdleRec, RecFits, Rec
  <2>2. BoundsFit'
    BY <1>0, <1>8, BoundAssumption DEF RecDies, BoundsFit, MayUpset
  <2> QED
    BY <1>8, <2>1, <2>2, GroupsFit DEF RecDies, RecFrame, serasa, rows
<1> QED
  BY <1>1, <1>3, <1>4, <1>5, <1>6, <1>7, <1>8

LEMMA TypeNext == TypeInv /\ [Next]_vars => TypeInv'
<1> SUFFICES ASSUME TypeInv, [Next]_vars PROVE TypeInv'
  OBVIOUS
<1>1. CASE UNCHANGED vars
  BY <1>1, GroupsFit DEF vars, rows, bounds
<1>2. CASE Next
  BY <1>2, FormsStep, WorkersStep, HooksStep, RecSteps DEF Next
<1> QED
  BY <1>1, <1>2

\* No sequence of requests, jobs, webhooks and runs of the cron brings a row, a job
\* or a process out of range, for any operations and however they interleave.
THEOREM OperationsAreTyped == Spec => []TypeOK
  BY InvIsTypeOK, TypeInit, TypeNext, PTL DEF Spec

-----------------------------------------------------------------------------
(* A webhook's effects.                                                    *)

Past == {"match", "item", "contract"}
Handled(h) == hook[h].pc \in Past

\* A delivery has one event; past its row, that row is the only one of the
\* event; and what has had an effect has a row.
OnceInv ==
    /\ DOMAIN hook = Hooks
    /\ \A h \in Hooks : /\ hook[h] = [pc |-> hook[h].pc, event |-> hook[h].event]
                        /\ hook[h].pc # "idle" => hook[h].event = {EventOf(h)}
                        /\ Handled(h) => EventOf(h) \in recorded
    /\ applied \subseteq recorded
    /\ EffectsOnce

LEMMA OnceInit == Init => OnceInv
  BY DEF Init, OnceInv, Handled, Past, EffectsOnce, IdleHook

\* A delivery that moves on keeps its event.
LEMMA DeliveryMoves ==
    ASSUME OnceInv, NEW h \in Hooks, hook[h].pc # "idle", NEW pc, GoHook(h, pc)
    PROVE  /\ EventOf(h)' = EventOf(h)
           /\ hook'[h] = [pc |-> pc, event |-> {EventOf(h)}]
           /\ \A g \in Hooks \ {h} : hook'[g] = hook[g] /\ EventOf(g)' = EventOf(g)
           /\ DOMAIN hook' = Hooks
<1>1. hook'[h] = [pc |-> pc, event |-> {EventOf(h)}]
  BY SMTT(30) DEF OnceInv, GoHook
<1>2. EventOf(h)' = EventOf(h)
  BY <1>1 DEF EventOf
<1>3. \A g \in Hooks \ {h} : hook'[g] = hook[g]
  BY DEF OnceInv, GoHook
<1> QED
  BY <1>1, <1>2, <1>3 DEF EventOf, OnceInv, GoHook

LEMMA HookEnds ==
    ASSUME OnceInv, NEW h \in Hooks, FreeHook(h)
    PROVE  /\ hook'[h] = IdleHook
           /\ \A g \in Hooks \ {h} : hook'[g] = hook[g] /\ EventOf(g)' = EventOf(g)
           /\ DOMAIN hook' = Hooks
  BY DEF OnceInv, FreeHook, EventOf

\* A step of one delivery.
LEMMA HookStepKeeps ==
    ASSUME OnceInv, NEW h \in Hooks, DOMAIN hook' = Hooks,
           \A g \in Hooks \ {h} : hook'[g] = hook[g] /\ EventOf(g)' = EventOf(g),
           hook'[h] = [pc |-> hook'[h].pc, event |-> hook'[h].event],
           hook'[h].pc # "idle" => hook'[h].event = {EventOf(h)'},
           recorded \subseteq recorded', applied' \subseteq recorded',
           Handled(h)' => /\ EventOf(h)' \in recorded' \ applied'
                          /\ \A g \in Hooks \ {h} : Handled(g) => EventOf(g) # EventOf(h)',
           \A g \in Hooks \ {h} : Handled(g) => EventOf(g) \notin applied'
    PROVE  OnceInv'
<1>1. ASSUME NEW g \in Hooks \ {h}
      PROVE  /\ Handled(g)' <=> Handled(g)
             /\ hook'[g] = [pc |-> hook'[g].pc, event |-> hook'[g].event]
             /\ hook'[g].pc # "idle" => hook'[g].event = {EventOf(g)'}
             /\ Handled(g)' => EventOf(g)' \in recorded'
  BY DEF OnceInv, Handled
<1>2. \A g \in Hooks : /\ hook'[g] = [pc |-> hook'[g].pc, event |-> hook'[g].event]
                       /\ hook'[g].pc # "idle" => hook'[g].event = {EventOf(g)'}
                       /\ Handled(g)' => EventOf(g)' \in recorded'
  BY <1>1
<1>3. ASSUME NEW f \in Hooks, Handled(f)'
      PROVE  /\ EventOf(f)' \notin applied'
             /\ \A g \in Hooks \ {f} : Handled(g)' => EventOf(g)' # EventOf(f)'
  <2>1. CASE f = h
    BY <1>1, <1>3, <2>1
  <2>2. CASE f # h
    <3>1. Handled(f) /\ EventOf(f)' = EventOf(f)
      BY <1>1, <1>3, <2>2
    <3>2. ASSUME NEW g \in Hooks \ {f}, Handled(g)' PROVE EventOf(g)' # EventOf(f)'
      <4>1. CASE g = h
        BY <2>2, <3>1, <3>2, <4>1
      <4>2. CASE g # h
        <5>1. Handled(g) /\ EventOf(g)' = EventOf(g)
          BY <1>1, <3>2, <4>2
        <5> QED
          BY <3>1, <3>2, <5>1 DEF OnceInv, EffectsOnce, Handled, Past
      <4> QED
        BY <4>1, <4>2
    <3> QED
      BY <2>2, <3>1, <3>2
  <2> QED
    BY <2>1, <2>2
<1>4. EffectsOnce'
  BY <1>3 DEF EffectsOnce, Handled, Past
<1> QED
  BY <1>2, <1>4 DEF OnceInv

LEMMA OnceNext == OnceInv /\ [Next]_vars => OnceInv'
<1> SUFFICES ASSUME OnceInv, [Next]_vars PROVE OnceInv'
  OBVIOUS
<1>1. CASE UNCHANGED <<hook, recorded, applied>>
  BY <1>1 DEF OnceInv, Handled, EventOf, EffectsOnce
\* A delivery begins.
<1>2. ASSUME NEW h \in Hooks, NEW e, Receive(h, e) PROVE OnceInv'
  <2>1. hook'[h] = [pc |-> "dedup", event |-> {e}] /\ UNCHANGED <<recorded, applied>>
    BY <1>2 DEF Receive, OnceInv
  <2>2. EventOf(h)' = e
    BY <2>1 DEF EventOf
  <2>3. \A g \in Hooks \ {h} : hook'[g] = hook[g] /\ EventOf(g)' = EventOf(g)
    BY <1>2 DEF Receive, EventOf, OnceInv
  <2>4. DOMAIN hook' = Hooks
    BY <1>2 DEF Receive, OnceInv
  <2> QED
    BY <2>1, <2>2, <2>3, <2>4, HookStepKeeps DEF OnceInv, Handled, Past, EffectsOnce
\* A delivery ends, and may have had its effect.
<1>3. ASSUME NEW h \in Hooks, FreeHook(h), recorded \subseteq recorded',
             applied' = applied \/ (applied' = applied \cup {EventOf(h)} /\ Handled(h))
      PROVE  OnceInv'
  <2>1. /\ hook'[h] = IdleHook /\ DOMAIN hook' = Hooks
        /\ \A g \in Hooks \ {h} : hook'[g] = hook[g] /\ EventOf(g)' = EventOf(g)
    BY <1>3, HookEnds
  <2>2. ~Handled(h)'
    BY <2>1 DEF Handled, Past, IdleHook
  <2>3. applied' \subseteq recorded'
    BY <1>3 DEF OnceInv
  <2>4. \A g \in Hooks \ {h} : Handled(g) => EventOf(g) \notin applied'
    BY <1>3 DEF OnceInv, EffectsOnce, Handled, Past
  <2> QED
    BY <1>3, <2>1, <2>2, <2>3, <2>4, HookStepKeeps DEF IdleHook
\* A delivery goes on, and may have had its effect.
<1>4. ASSUME NEW h \in Hooks, hook[h].pc # "idle", UNCHANGED recorded,
             NEW pc, GoHook(h, pc), pc \in Past => Handled(h) /\ applied' = applied,
             applied' = applied \/ (applied' = applied \cup {EventOf(h)} /\ Handled(h))
      PROVE  OnceInv'
  <2>1. /\ EventOf(h)' = EventOf(h)
        /\ hook'[h] = [pc |-> pc, event |-> {EventOf(h)}] /\ DOMAIN hook' = Hooks
        /\ \A g \in Hooks \ {h} : hook'[g] = hook[g] /\ EventOf(g)' = EventOf(g)
    BY <1>4, DeliveryMoves
  <2>2. applied' \subseteq recorded'
    BY <1>4 DEF OnceInv
  <2>3. \A g \in Hooks \ {h} : Handled(g) => EventOf(g) \notin applied'
    BY <1>4 DEF OnceInv, EffectsOnce, Handled, Past
  <2>4. Handled(h)' => /\ EventOf(h)' \in recorded' \ applied'
                       /\ \A g \in Hooks \ {h} : Handled(g) => EventOf(g) # EventOf(h)'
    BY <1>4, <2>1 DEF OnceInv, EffectsOnce, Handled, Past
  <2> QED
    BY <1>4, <2>1, <2>2, <2>3, <2>4, HookStepKeeps
\* The row of an event is created once.
<1>5. ASSUME NEW h \in Hooks, Record(h) PROVE OnceInv'
  <2>1. CASE EventOf(h) \in recorded
    BY <1>3, <1>5, <2>1 DEF Record
  <2>2. CASE EventOf(h) \notin recorded
    <3>1. /\ EventOf(h)' = EventOf(h) /\ recorded' = recorded \cup {EventOf(h)}
          /\ hook'[h] = [pc |-> "match", event |-> {EventOf(h)}] /\ DOMAIN hook' = Hooks
          /\ \A g \in Hooks \ {h} : hook'[g] = hook[g] /\ EventOf(g)' = EventOf(g)
          /\ applied' = applied
      BY <1>5, <2>2, DeliveryMoves DEF Record, AtHook
    <3> QED
      BY <2>2, <3>1, HookStepKeeps DEF OnceInv, EffectsOnce, Handled, Past
  <2> QED
    BY <2>1, <2>2
<1>6. ASSUME NEW h \in Hooks, HookStep(h) PROVE OnceInv'
  <2>1. CASE Dedup(h)
    BY <1>3, <1>4, <2>1 DEF Dedup, AtHook, Past
  <2>2. CASE Match(h)
    BY <1>4, <2>2 DEF Match, AtHook, Past, Handled
  <2>3. CASE ApplyToItem(h)
    BY <1>3, <1>4, <2>3 DEF ApplyToItem, AtHook, Past, Handled
  <2>4. CASE FailContract(h)
    BY <1>3, <2>4 DEF FailContract
  <2>5. CASE ApplyToContract(h)
    BY <1>3, <2>5 DEF ApplyToContract, AtHook, Past, Handled
  <2> QED
    BY <1>5, <1>6, <2>1, <2>2, <2>3, <2>4, <2>5 DEF HookStep
<1>7. ASSUME NEW h \in Hooks, HookDies(h) PROVE OnceInv'
  BY <1>3, <1>7 DEF HookDies
<1>8. \/ UNCHANGED <<hook, recorded, applied>>
      \/ \E h \in Hooks : HookStep(h) \/ HookDies(h) \/ \E e : Receive(h, e)
  <2>1. CASE \/ \E o \in Ops, items \in SUBSET Items : Select(o, items)
             \/ \E o, source \in Ops : SelectUnconfirmed(o, source)
             \/ \E o \in Ops : Submit(o) \/ FormDies(o) \/ ReadCancel(o) \/ Cancel(o)
             \/ \E o \in Ops, i \in Items : Enqueue(o, i)
    BY <2>1 DEF Select, SelectUnconfirmed, FormOnly, Submit, FormDies, ReadCancel, Cancel, Enqueue
  <2>2. CASE \/ \E w \in Workers, i \in Items : Take(w, i)
             \/ \E w \in Workers : WorkerStep(w) \/ WorkerThrows(w)
             \/ \E w \in Workers, stalled \in BOOLEAN : WorkerDies(w, stalled)
    <3>1. ASSUME NEW w \in Workers, WorkerStep(w) PROVE UNCHANGED <<hook, recorded, applied>>
      <4>1. CASE \E answer \in {"accepted", "updated", "failed"}, lost \in BOOLEAN :
                     Send(w, answer, lost)
        BY <4>1 DEF Send
      <4>2. CASE WriteItem(w) \/ Project(w) \/ \E given \in BOOLEAN : WriteDebtId(w, given)
        BY <4>2 DEF WriteItem, Project, WriteDebtId, WorkerFrame
      <4>3. CASE Claim(w) \/ ReadStatus(w) \/ ReadItems(w)
        BY <4>3 DEF Claim, ReadStatus, ReadItems, WorkerFrame
      <4>4. CASE CountPending(w) \/ CountFailed(w) \/ Finish(w) \/ Catch(w)
        BY <4>4 DEF CountPending, CountFailed, Finish, Catch, WorkerFrame
      <4> QED
        BY <3>1, <4>1, <4>2, <4>3, <4>4 DEF WorkerStep
    <3> QED
      BY <2>2, <3>1 DEF Take, WorkerThrows, WorkerDies, WorkerFrame
  <2>3. CASE \/ RecRead \/ RecReopen \/ RecEnqueue \/ RecDies
             \/ \E k \in rec.todo : RecSkip(k) \/ RecGiveUp(k) \/ RecClaim(k)
    BY <2>3 DEF RecRead, RecReopen, RecEnqueue, RecDies, RecSkip, RecGiveUp, RecClaim, RecFrame
  <2>4. CASE \/ \E h \in Hooks, t \in owed, done, twice \in BOOLEAN : Deliver(h, t, done, twice)
             \/ \E h \in Hooks, e \in again : DeliverAgain(h, e)
    BY <2>4 DEF Deliver, DeliverAgain
  <2> QED
    BY <2>1, <2>2, <2>3, <2>4 DEF Next, vars
<1> QED
  BY <1>1, <1>2, <1>6, <1>7, <1>8

\* handleWebhook changes an item or a contract once for every event, however
\* many deliveries of it are handled at once: the unique row of the event.
THEOREM EffectsAreOnce == Spec => []EffectsOnce
<1>1. OnceInv => EffectsOnce
  BY DEF OnceInv
<1> QED
  BY <1>1, OnceInit, OnceNext, PTL DEF Spec

-----------------------------------------------------------------------------
(* Completed operations.                                                   *)

Submitted(i) == form[OpOf[i]].pc \in {"enqueue", "done"}
Sent(i) == sends[i] > 0
AllSent(o) == \A i \in ItemsOf(o) : Sent(i)
PendingSent(o) == \A i \in ItemsOf(o) : item[i].status = "PENDING" => Sent(i)

\* A request names items of its operation, and work on an item follows it.
Traced ==
    /\ \A o \in Ops : \A i \in form[o].items : OpOf[i] = o
    /\ \A i \in Items : queue[i] > 0 \/ Sent(i) => Submitted(i)
    /\ \A w \in Workers : worker[w].pc # "idle" => Submitted(worker[w].item)

\* What comes after a request has been sent is about an item that was sent.
Answers ==
    /\ \A i \in Items : item[i].status \in {"WAITING_PROVIDER_EVENT", "REGISTERED", "REMOVED"}
                           => Sent(i)
    /\ \A t \in owed : Sent(t.item)
    /\ \A e \in again : Sent(e.of.item)
    /\ \A h \in Hooks : hook[h].pc # "idle" => Sent(EventOf(h).of.item)
    /\ \A k \in rec.todo : Sent(k.item)
    /\ rec.pc # "next" => Sent(rec.item)

\* What a worker knows of its operation.
Counted(w) ==
    LET l == worker[w]
        o == OpOf[worker[w].item]
    IN
    /\ l.pc = "write" => Sent(l.item)
    /\ l.pc = "countFailed" => PendingSent(o)
    /\ l.pc = "finish" /\ l.answer = "COMPLETED" => AllSent(o)

SentInv == /\ Traced /\ Answers
           /\ \A w \in Workers : Counted(w)
           /\ \A o \in Ops : op[o] = "COMPLETED" => AllSent(o)

LEMMA SentInit == Init => SentInv
  BY DEF Init, SentInv, Traced, Answers, Counted, Submitted, Sent, IdleForm, IdleWorker,
         IdleHook, IdleRec

\* An item nobody has sent stays as it is, or fails.
StaysUnsent(i) ==
    ~Sent(i)' => /\ ~Sent(i)
                 /\ \/ item'[i].status = item[i].status
                    \/ item[i].status # "NONE" /\ item'[i].status = "FAILED"

LEMMA SentStays ==
    ASSUME NEW o, \A i \in Items : OpOf[i] = o => StaysUnsent(i)
    PROVE  /\ AllSent(o) => AllSent(o)'
           /\ PendingSent(o) => PendingSent(o)'
  BY DEF AllSent, PendingSent, ItemsOf, StaysUnsent

LEMMA CountedStays ==
    ASSUME NEW w \in Workers, Counted(w), UNCHANGED worker[w],
           worker[w].pc # "idle" =>
               /\ worker[w].item \in Items
               /\ \A i \in Items : OpOf[i] = OpOf[worker[w].item] => StaysUnsent(i)
    PROVE  Counted(w)'
<1>1. CASE worker[w].pc = "idle"
  BY <1>1 DEF Counted
<1>2. CASE worker[w].pc # "idle"
  BY <1>2, SentStays DEF Counted, StaysUnsent
<1> QED
  BY <1>1, <1>2

\* The part that holds while items and requests do not change.
LEMMA AnswersKept ==
    ASSUME Answers, \A i \in Items : StaysUnsent(i),
           TypeInv, UNCHANGED <<owed, again, hook, rec>>
    PROVE  Answers'
<1>1. \A i \in Items : Sent(i) => Sent(i)'
  BY DEF StaysUnsent
<1>2. \A i \in Items : item'[i].status \in {"WAITING_PROVIDER_EVENT", "REGISTERED", "REMOVED"}
                          => Sent(i)'
  BY DEF StaysUnsent, Answers
<1>3. /\ \A t \in owed : t.item \in Items
      /\ \A e \in again : e.of.item \in Items
      /\ \A k \in rec.todo : k.item \in Items
      /\ rec.pc # "next" => rec.item \in Items
  BY DEF TypeInv, SerasaFits, RecFits, Rec, Transaction, Event
<1>4. \A h \in Hooks : hook[h].pc # "idle" => EventOf(h).of.item \in Items
  BY HookHas DEF TypeInv
<1>5. \A h \in Hooks : EventOf(h)' = EventOf(h)
  BY DEF EventOf
<1> QED
  BY <1>1, <1>2, <1>3, <1>4, <1>5 DEF Answers

LEMMA UnsentKept ==
    ASSUME UNCHANGED <<item, sends>>
    PROVE  \A i \in Items : StaysUnsent(i)
  BY DEF StaysUnsent, Sent

-----------------------------------------------------------------------------
(* Steps of requests.                                                      *)

\* A request moves, and every item it leaves behind was submitted.
LEMMA FormSent ==
    ASSUME TypeInv, SentInv, NEW o \in Ops,
           \/ \E items \in SUBSET Items : Select(o, items)
           \/ \E source \in Ops : SelectUnconfirmed(o, source)
           \/ Submit(o) \/ FormDies(o) \/ ReadCancel(o) \/ Cancel(o)
           \/ \E i \in Items : Enqueue(o, i)
    PROVE  SentInv'
<1>0. form \in [Ops -> Form]
  BY DEF TypeInv, FormsFit
\* Only the form of o moves, on to submit from idle and from submit for good.
<1>1. ASSUME NEW f, form' = [form EXCEPT ![o] = f],
             form[o].pc \in {"enqueue", "done"} => f.pc \in {"enqueue", "done"},
             \A i \in f.items : OpOf[i] = o,
             UNCHANGED <<worker, sends>>,
             \A i \in Items : queue'[i] > 0 => queue[i] > 0 \/ (OpOf[i] = o /\ f.pc \in {"enqueue", "done"})
      PROVE  Traced'
  <2>1. \A p \in Ops : form'[p] = IF p = o THEN f ELSE form[p]
    BY <1>0, <1>1
  <2>2. \A i \in Items : Submitted(i) => Submitted(i)'
    BY <1>1, <2>1, NamesFit DEF Submitted
  <2>3. \A p \in Ops : \A i \in form'[p].items : OpOf[i] = p
    BY <1>1, <2>1 DEF SentInv, Traced
  <2>4. \A i \in Items : queue'[i] > 0 \/ Sent(i)' => Submitted(i)'
    BY <1>1, <2>1, <2>2, NamesFit DEF SentInv, Traced, Submitted, Sent
  <2>5. (\A w \in Workers : worker[w].pc # "idle" => Submitted(worker[w].item))'
    <3>1. \A w \in Workers : worker[w].pc # "idle" => worker[w].item \in Items
      BY WorkerHas DEF TypeInv
    <3> QED
      BY <1>1, <2>2, <3>1 DEF SentInv, Traced, Submitted
  <2> QED
    BY <2>3, <2>4, <2>5 DEF Traced, Submitted, Sent
<1>2. ASSUME UNCHANGED <<item, sends, owed, again, hook, rec, worker>>, Traced',
             \A p \in Ops : op'[p] = "COMPLETED" => op[p] = "COMPLETED"
      PROVE  SentInv'
  <2>1. \A i \in Items : StaysUnsent(i)
    BY <1>2, UnsentKept
  <2>2. Answers'
    BY <1>2, <2>1, AnswersKept DEF SentInv
  <2>3. \A w \in Workers : Counted(w)'
    BY <1>2, <2>1, CountedStays, WorkerHas DEF SentInv, TypeInv
  <2>4. \A p \in Ops : op'[p] = "COMPLETED" => AllSent(p)'
    BY <1>2, <2>1, SentStays DEF SentInv
  <2> QED
    BY <1>2, <2>2, <2>3, <2>4 DEF SentInv
<1>3. ASSUME NEW items \in SUBSET Items, Select(o, items) PROVE SentInv'
  <2>1. Traced'
    <3> DEFINE f == [pc |-> "submit", items |-> items, replay |-> FALSE]
    <3>1. f.pc = "submit" /\ f.items = items
      OBVIOUS
    <3>2. form' = [form EXCEPT ![o] = f] /\ UNCHANGED <<worker, sends, queue>>
      BY <1>3 DEF Select, FormOnly
    <3> HIDE DEF f
    <3> QED
      BY <1>1, <1>3, <3>1, <3>2 DEF Select
  <2> QED
    BY <1>2, <1>3, <2>1 DEF Select, FormOnly, rows, serasa
<1>4. ASSUME NEW source \in Ops, SelectUnconfirmed(o, source) PROVE SentInv'
  <2>1. Traced'
    <3> DEFINE items == {i \in Items : OpOf[i] = o /\ ContractOf[i] \in Unconfirmed(source)}
               f == [pc |-> "submit", items |-> items, replay |-> TRUE]
    <3>1. f.pc = "submit" /\ \A i \in f.items : OpOf[i] = o
      OBVIOUS
    <3>2. /\ form' = [form EXCEPT ![o] = f] /\ form[o].pc = "idle"
          /\ UNCHANGED <<worker, sends, queue>>
      BY <1>4 DEF SelectUnconfirmed, FormOnly
    <3> HIDE DEF f
    <3> QED
      BY <1>1, <3>1, <3>2
  <2> QED
    BY <1>2, <1>4, <2>1 DEF SelectUnconfirmed, FormOnly, rows, serasa
<1>5. ASSUME FormDies(o) PROVE SentInv'
  <2>1. Traced'
    <3> DEFINE f == [IdleForm EXCEPT !.pc = "done"]
    <3>1. f.pc = "done" /\ f.items = {}
      BY DEF IdleForm
    <3>2. form' = [form EXCEPT ![o] = f] /\ UNCHANGED <<worker, sends, queue>>
      BY <1>5 DEF FormDies, IdleForm
    <3> HIDE DEF f
    <3> QED
      BY <1>1, <1>5, <3>1, <3>2 DEF FormDies
  <2> QED
    BY <1>2, <1>5, <2>1 DEF FormDies, rows, serasa
<1>6. ASSUME ReadCancel(o) PROVE SentInv'
  <2>1. Traced'
    BY <1>6 DEF ReadCancel, SentInv, Traced, Submitted, Sent
  <2> QED
    BY <1>2, <1>6, <2>1 DEF ReadCancel, rows, serasa
<1>7. ASSUME NEW i \in Items, Enqueue(o, i) PROVE SentInv'
  <2>1. OpOf[i] = o
    BY <1>7 DEF Enqueue, SentInv, Traced
  <2>2. \A j \in Items \ {i} : queue'[j] = queue[j]
    BY <1>7 DEF Enqueue, TypeInv, QueueFits
  <2>3. Traced'
    <3> DEFINE f == [form[o] EXCEPT !.pc = IF form[o].items = {i} THEN "done" ELSE "enqueue",
                                    !.items = form[o].items \ {i}]
    <3>1. f.pc \in {"enqueue", "done"} /\ f.items \subseteq form[o].items
      BY <1>0 DEF Form
    <3>2. form' = [form EXCEPT ![o] = f] /\ UNCHANGED <<worker, sends>>
      BY <1>7 DEF Enqueue
    <3>3. \A j \in f.items : OpOf[j] = o
      BY <3>1 DEF SentInv, Traced
    <3> HIDE DEF f
    <3> QED
      BY <1>1, <2>1, <2>2, <3>1, <3>2, <3>3
  <2> QED
    BY <1>2, <1>7, <2>3 DEF Enqueue, rows, serasa
\* Items that become PENDING are of an operation nobody has worked for.
<1>8. ASSUME Submit(o) PROVE SentInv'
  <2>1. Traced'
    <3> DEFINE f == [form[o] EXCEPT !.pc = "enqueue"]
    <3>1. f.pc = "enqueue" /\ f.items = form[o].items
      BY <1>0 DEF Form
    <3>2. form' = [form EXCEPT ![o] = f] /\ UNCHANGED <<worker, sends, queue>>
      BY <1>8 DEF Submit, Form
    <3> HIDE DEF f
    <3> QED
      BY <1>1, <3>1, <3>2 DEF SentInv, Traced
  <2>2. \A i \in Items : OpOf[i] # o => item'[i] = item[i]
    BY <1>8 DEF Submit, SentInv, Traced
  <2>3. \A i \in Items : OpOf[i] # o => StaysUnsent(i)
    BY <1>8, <2>2 DEF Submit, StaysUnsent, Sent
  <2>4. \A w \in Workers : worker[w].pc # "idle" => OpOf[worker[w].item] # o
    BY <1>8 DEF Submit, SentInv, Traced, Submitted
  <2>5. \A w \in Workers : Counted(w)'
    BY <1>8, <2>3, <2>4, CountedStays, WorkerHas DEF Submit, SentInv, TypeInv
  <2>6. \A p \in Ops : op'[p] = "COMPLETED" => AllSent(p)'
    <3>1. op'[o] = "PENDING" /\ \A p \in Ops \ {o} : op'[p] = op[p]
      BY <1>8 DEF Submit, TypeInv, RowsFit
    <3> QED
      BY <2>3, <3>1, SentStays DEF SentInv
  <2>7. \A i \in Items : item'[i].status = item[i].status \/ item'[i].status = "PENDING"
    BY <1>8 DEF Submit, TypeInv, RowsFit, Item
  <2>8. Answers'
    BY <1>8, <2>7 DEF Submit, SentInv, Answers, Sent, EventOf, serasa
  <2> QED
    BY <2>1, <2>5, <2>6, <2>8 DEF SentInv
<1>9. ASSUME Cancel(o) PROVE SentInv'
  <2>1. \A i \in Items : StaysUnsent(i)
    BY <1>9 DEF Cancel, StaysUnsent, Sent, ItemsOf, TypeInv, RowsFit, Item
  <2>2. Traced'
    BY <1>9 DEF Cancel, SentInv, Traced, Submitted, Sent
  <2>3. Answers'
    BY <1>9, <2>1, AnswersKept DEF SentInv, Cancel, serasa
  <2>4. \A w \in Workers : Counted(w)'
    BY <1>9, <2>1, CountedStays, WorkerHas DEF SentInv, TypeInv, Cancel
  <2>5. \A p \in Ops : op'[p] = "COMPLETED" => op[p] = "COMPLETED"
    BY <1>9 DEF Cancel, TypeInv, RowsFit
  <2>6. \A p \in Ops : op'[p] = "COMPLETED" => AllSent(p)'
    BY <2>1, <2>5, SentStays DEF SentInv
  <2> QED
    BY <2>2, <2>3, <2>4, <2>6 DEF SentInv
<1> QED
  BY <1>3, <1>4, <1>5, <1>6, <1>7, <1>8, <1>9

-----------------------------------------------------------------------------
(* Steps of workers.                                                       *)

\* A worker goes on with its item, or is free; others are where they were.
LEMMA WorkerSent ==
    ASSUME TypeInv, SentInv, NEW w \in Workers, NEW l,
           worker' = [worker EXCEPT ![w] = l],
           l.pc # "idle" => worker[w].pc # "idle" /\ l.item = worker[w].item,
           \A i \in Items : StaysUnsent(i),
           \A i \in Items : queue'[i] > 0 => queue[i] > 0 \/ Submitted(i),
           \A i \in Items : Sent(i)' => Sent(i) \/ Submitted(i),
           UNCHANGED form,
           Counted(w)',
           Answers',
           \A o \in Ops : op'[o] = "COMPLETED" => op[o] = "COMPLETED" \/ AllSent(o)
    PROVE  SentInv'
<1>1. worker'[w] = l /\ \A v \in Workers \ {w} : worker'[v] = worker[v]
  BY DEF TypeInv, WorkersFit
<1>2. \A v \in Workers : worker[v].pc # "idle" => worker[v].item \in Items
  BY WorkerHas DEF TypeInv
<1>3. \A v \in Workers \ {w} : Counted(v)'
  BY <1>1, <1>2, CountedStays DEF SentInv
<1>4. \A o \in Ops : op'[o] = "COMPLETED" => AllSent(o)'
  BY SentStays DEF SentInv
<1>5. Traced'
  BY <1>1, <1>2 DEF SentInv, Traced, Submitted
<1> QED
  BY <1>3, <1>4, <1>5 DEF SentInv

LEMMA WorkersSent ==
    ASSUME TypeInv, SentInv, NEW w \in Workers,
           \/ \E i \in Items : Take(w, i)
           \/ WorkerStep(w) \/ WorkerThrows(w)
           \/ \E stalled \in BOOLEAN : WorkerDies(w, stalled)
    PROVE  SentInv'
<1> USE DEF AtWorker
<1>0. /\ worker[w] \in Worker
      /\ worker[w].pc # "idle" => worker[w].item \in Items /\ Submitted(worker[w].item)
  BY WorkerHas DEF TypeInv, WorkersFit, WorkerFits, SentInv, Traced
<1>1. ASSUME UNCHANGED <<item, sends, owed, again, hook, rec>>
      PROVE  (\A i \in Items : StaysUnsent(i)) /\ Answers'
  BY <1>1, UnsentKept, AnswersKept DEF SentInv
\* Steps that write neither items nor requests, and know nothing new.
<1>2. ASSUME NEW l, worker' = [worker EXCEPT ![w] = l],
             l.pc \notin {"write", "countFailed", "finish"},
             l.pc # "idle" => worker[w].pc # "idle" /\ l.item = worker[w].item,
             UNCHANGED <<item, sends, form, owed, again, hook, rec>>,
             \A i \in Items : queue'[i] > 0 => queue[i] > 0 \/ Submitted(i),
             \A o \in Ops : op'[o] = "COMPLETED" => op[o] = "COMPLETED" \/ AllSent(o)
      PROVE  SentInv'
  <2>1. worker'[w] = l
    BY <1>2 DEF TypeInv, WorkersFit
  <2>2. Counted(w)'
    BY <1>2, <2>1 DEF Counted
  <2>3. \A i \in Items : Sent(i)' => Sent(i)
    BY <1>2 DEF Sent
  <2> QED
    BY <1>1, <1>2, <2>2, <2>3, WorkerSent
<1>3. ASSUME NEW i \in Items, Take(w, i) PROVE SentInv'
  <2> DEFINE l == [IdleWorker EXCEPT !.pc = "claim", !.item = i]
  <2>1. l.pc = "claim" /\ l.item = i
    BY DEF IdleWorker
  <2>2. worker' = [worker EXCEPT ![w] = l]
    BY <1>3 DEF Take
  <2> HIDE DEF l
  <2>3. worker'[w] = l /\ \A v \in Workers \ {w} : worker'[v] = worker[v]
    BY <2>2 DEF TypeInv, WorkersFit
  <2>4. Submitted(i)
    BY <1>3 DEF Take, SentInv, Traced
  <2>5. \A j \in Items : queue'[j] > 0 => queue[j] > 0
    BY <1>3 DEF Take, TypeInv, QueueFits
  <2>6. Traced'
    <3>1. \A v \in Workers : worker'[v].pc # "idle" =>
              form[OpOf[worker'[v].item]].pc \in {"enqueue", "done"}
      BY <2>1, <2>3, <2>4 DEF SentInv, Traced, Submitted
    <3> QED
      BY <1>3, <2>5, <3>1 DEF Take, WorkerFrame, SentInv, Traced, Submitted, Sent
  <2>7. (\A j \in Items : StaysUnsent(j)) /\ Answers'
    BY <1>1, <1>3 DEF Take, WorkerFrame, rows, serasa
  <2>8. \A v \in Workers : Counted(v)'
    <3>1. Counted(w)'
      BY <2>1, <2>3 DEF Counted
    <3>2. \A v \in Workers \ {w} : Counted(v)'
      BY <2>3, <2>7, CountedStays, WorkerHas DEF SentInv, TypeInv
    <3> QED
      BY <3>1, <3>2
  <2>9. \A o \in Ops : op'[o] = "COMPLETED" => AllSent(o)'
    BY <1>3, <2>7, SentStays DEF Take, rows, SentInv
  <2> QED
    BY <2>6, <2>7, <2>8, <2>9 DEF SentInv
\* Moves that only change where a worker is.
<1>4. ASSUME worker[w].pc # "idle",
             NEW pc, pc \notin {"write", "countFailed", "finish"},
             GoWorker(w, pc),
             UNCHANGED <<item, queue, sends, form, owed, again, hook, rec>>,
             \A o \in Ops : op'[o] = "COMPLETED" => op[o] = "COMPLETED"
      PROVE  SentInv'
  <2> DEFINE l == [worker[w] EXCEPT !.pc = pc]
  <2>1. l.pc = pc /\ l.item = worker[w].item
    BY <1>0 DEF Worker
  <2>2. worker' = [worker EXCEPT ![w] = l]
    BY <1>4 DEF GoWorker, TypeInv, WorkersFit
  <2> HIDE DEF l
  <2> QED
    BY <1>2, <1>4, <2>1, <2>2
<1>5. ASSUME FreeWorker(w), UNCHANGED <<item, queue, sends, form, owed, again, hook, rec>>,
             \A o \in Ops : op'[o] = "COMPLETED" => op[o] = "COMPLETED" \/ AllSent(o)
      PROVE  SentInv'
  <2>1. IdleWorker.pc = "idle"
    BY DEF IdleWorker
  <2> QED
    BY <1>2, <1>5, <2>1 DEF FreeWorker
<1>6. CASE Claim(w)
  <2>1. \A o \in Ops : op'[o] = "COMPLETED" => op[o] = "COMPLETED"
    BY <1>6 DEF Claim, TypeInv, RowsFit
  <2> QED
    BY <1>4, <1>6, <2>1 DEF Claim, WorkerFrame, serasa
<1>7. CASE ReadStatus(w)
  BY <1>4, <1>5, <1>7 DEF ReadStatus, WorkerFrame, serasa, rows
<1>8. CASE ReadItems(w)
  BY <1>4, <1>8 DEF ReadItems, WorkerFrame, serasa, rows
<1>9. ASSUME NEW answer \in {"accepted", "updated", "failed"}, NEW lost \in BOOLEAN,
             Send(w, answer, lost)
      PROVE  SentInv'
  <2> DEFINE i == worker[w].item
             l == [worker[w] EXCEPT !.pc = "write", !.answer = answer]
  <2>0. i \in Items /\ Submitted(i)
    BY <1>0, <1>9 DEF Send
  <2>1. l.pc = "write" /\ l.item = i
    BY <1>0 DEF Worker
  <2>2. worker' = [worker EXCEPT ![w] = l]
    BY <1>9 DEF Send
  <2>3. worker'[w] = l
    BY <2>2 DEF TypeInv, WorkersFit
  <2> HIDE DEF l
  <2>4. sends'[i] > 0 /\ \A j \in Items \ {i} : sends'[j] = sends[j]
    BY <1>9, <2>0 DEF Send, TypeInv, QueueFits, Sent
  <2>5. \A j \in Items : StaysUnsent(j)
    BY <1>9, <2>4 DEF Send, rows, StaysUnsent, Sent
  <2>6. \A j \in Items : Sent(j)' => Sent(j) \/ Submitted(j)
    BY <2>0, <2>4 DEF Sent
  <2>7. Counted(w)'
    <3>1. sends'[worker'[w].item] > 0
      BY <2>1, <2>3, <2>4 DEF Sent
    <3> QED
      BY <2>1, <2>3, <3>1 DEF Counted, Sent
  <2>8. Answers'
    <3>1. \A t \in owed' : t \in owed \/ t.item = i
      BY <1>9 DEF Send
    <3>2. \A j \in Items : Sent(j) => Sent(j)'
      BY <2>5 DEF StaysUnsent
    <3>3. \A t \in owed' : Sent(t.item)'
      <4> TAKE t \in owed'
      <4>1. CASE t \in owed
        <5>1. t.item \in Items
          BY <4>1 DEF TypeInv, SerasaFits, Transaction
        <5> QED
          BY <3>2, <4>1, <5>1 DEF SentInv, Answers, Sent
      <4>2. CASE t.item = i
        BY <2>4, <4>2 DEF Sent
      <4> QED
        BY <3>1, <4>1, <4>2
    <3>4. /\ \A e \in again : e.of.item \in Items
          /\ \A k \in rec.todo : k.item \in Items
          /\ rec.pc # "next" => rec.item \in Items
      BY DEF TypeInv, SerasaFits, RecFits, Rec, Transaction, Event
    <3>5. \A h \in Hooks : hook[h].pc # "idle" => EventOf(h).of.item \in Items
      BY HookHas DEF TypeInv
    <3> QED
      BY <1>9, <3>2, <3>3, <3>4, <3>5 DEF Send, rows, SentInv, Answers, Sent, EventOf
  <2>9. UNCHANGED <<queue, form, op>>
    BY <1>9 DEF Send, rows
  <2> QED
    BY <1>9, <2>0, <2>1, <2>2, <2>5, <2>6, <2>7, <2>8, <2>9, WorkerSent DEF Send
<1>10. CASE WriteItem(w)
  <2> DEFINE i == worker[w].item
             l == [worker[w] EXCEPT !.pc = "project"]
  <2>0. i \in Items /\ Sent(i)
    BY <1>0, <1>10 DEF WriteItem, SentInv, Counted
  <2>1. l.pc = "project" /\ l.item = i
    BY <1>0 DEF Worker
  <2>2. worker' = [worker EXCEPT ![w] = l] /\ worker'[w] = l
    BY <1>10 DEF WriteItem, GoWorker, TypeInv, WorkersFit
  <2> HIDE DEF l
  <2>3. \A j \in Items \ {i} : item'[j] = item[j]
    BY <1>10, <2>0 DEF WriteItem, TypeInv, RowsFit
  <2>4. UNCHANGED <<sends, queue, form, op, owed, again, hook, rec>>
    BY <1>10 DEF WriteItem, WorkerFrame, serasa
  <2>5. \A j \in Items : StaysUnsent(j)
    BY <2>0, <2>3, <2>4 DEF StaysUnsent, Sent
  <2>6. Counted(w)'
    BY <2>1, <2>2 DEF Counted
  <2>7. Answers'
    BY <2>4, <2>5, AnswersKept DEF SentInv
  <2>8. \A j \in Items : Sent(j)' => Sent(j)
    BY <2>4 DEF Sent
  <2> QED
    BY <1>10, <2>1, <2>2, <2>4, <2>5, <2>6, <2>7, <2>8, WorkerSent DEF WriteItem
<1>11. CASE Project(w)
  <2> DEFINE pc == IF worker[w].answer = "accepted" /\ ~Removes(worker[w].item)
                   THEN "debtId" ELSE "countPending"
             l == [worker[w] EXCEPT !.answer = "none", !.pc = pc]
  <2>1. l.pc = pc /\ l.item = worker[w].item
    BY <1>0 DEF Worker
  <2>2. worker' = [worker EXCEPT ![w] = l]
    BY <1>11 DEF Project
  <2>3. pc \notin {"write", "countFailed", "finish"}
    OBVIOUS
  <2> HIDE DEF l, pc
  <2> QED
    BY <1>2, <1>11, <2>1, <2>2, <2>3 DEF Project, WorkerFrame, serasa
<1>12. CASE \E given \in BOOLEAN : WriteDebtId(w, given)
  BY <1>4, <1>12 DEF WriteDebtId, WorkerFrame, serasa
\* No item of the operation is PENDING.
<1>13. CASE CountPending(w)
  <2> DEFINE o == OpOf[worker[w].item]
  <2>1. CASE Having(o, "PENDING") # {}
    BY <1>5, <1>13, <2>1 DEF CountPending, WorkerFrame, serasa, rows
  <2>2. CASE Having(o, "PENDING") = {}
    <3> DEFINE l == [worker[w] EXCEPT !.pc = "countFailed"]
    <3>1. l.pc = "countFailed" /\ l.item = worker[w].item
      BY <1>0 DEF Worker
    <3>2. worker' = [worker EXCEPT ![w] = l] /\ worker'[w] = l
      BY <1>13, <2>2 DEF CountPending, GoWorker, TypeInv, WorkersFit
    <3> HIDE DEF l
    <3>3. UNCHANGED <<item, sends, queue, form, op, owed, again, hook, rec>>
      BY <1>13 DEF CountPending, WorkerFrame, serasa, rows
    <3>4. PendingSent(o)
      BY <2>2 DEF PendingSent, Having
    <3>5. PendingSent(OpOf[worker[w].item])'
      BY <3>1, <3>2, <3>3, <3>4 DEF PendingSent, ItemsOf, Sent
    <3>6. Counted(w)'
      BY <3>1, <3>2, <3>5 DEF Counted
    <3>7. \A j \in Items : Sent(j)' => Sent(j)
      BY <3>3 DEF Sent
    <3> QED
      BY <1>1, <1>13, <3>1, <3>2, <3>3, <3>6, <3>7, WorkerSent DEF CountPending
  <2> QED
    BY <2>1, <2>2
\* None FAILED and those PENDING sent, all of them were sent.
<1>14. CASE CountFailed(w)
  <2> DEFINE o == OpOf[worker[w].item]
             answer == CASE Having(o, "FAILED") = {} -> "COMPLETED"
                         [] Having(o, "FAILED") = ItemsOf(o) -> "FAILED"
                         [] OTHER -> "PARTIALLY_FAILED"
             l == [worker[w] EXCEPT !.pc = "finish", !.answer = answer]
  <2>1. l.pc = "finish" /\ l.item = worker[w].item /\ l.answer = answer
    BY <1>0 DEF Worker
  <2>2. worker' = [worker EXCEPT ![w] = l] /\ worker'[w] = l
    BY <1>14 DEF CountFailed, TypeInv, WorkersFit
  <2>3. ASSUME answer = "COMPLETED" PROVE AllSent(o)
    <3>1. Having(o, "FAILED") = {}
      <4> DEFINE failed == Having(o, "FAILED")
                 all == ItemsOf(o)
      <4>1. answer = CASE failed = {} -> "COMPLETED" [] failed = all -> "FAILED"
                       [] OTHER -> "PARTIALLY_FAILED"
        OBVIOUS
      <4> HIDE DEF failed, all, answer
      <4>2. failed = {}
        BY <2>3, <4>1
      <4> QED
        BY <4>2 DEF failed
    <3>2. PendingSent(o)
      BY <1>14 DEF CountFailed, SentInv, Counted
    <3>3. \A i \in ItemsOf(o) : item[i].status \in ItemStatus \ {"NONE", "FAILED"}
      BY <3>1 DEF Having, ItemsOf, TypeInv, RowsFit, Item
    <3> QED
      BY <3>2, <3>3 DEF AllSent, PendingSent, ItemStatus, ItemsOf, SentInv, Answers
  <2> HIDE DEF l, answer
  <2>4. UNCHANGED <<item, sends, queue, form, op, owed, again, hook, rec>>
    BY <1>14 DEF CountFailed, WorkerFrame, serasa, rows
  <2>5. AllSent(o) => AllSent(OpOf[worker[w].item])'
    BY <2>1, <2>2, <2>4 DEF AllSent, ItemsOf, Sent
  <2>6. Counted(w)'
    BY <2>1, <2>2, <2>3, <2>5 DEF Counted
  <2>7. \A j \in Items : Sent(j)' => Sent(j)
    BY <2>4 DEF Sent
  <2> QED
    BY <1>1, <1>14, <2>1, <2>2, <2>4, <2>6, <2>7, WorkerSent DEF CountFailed
<1>15. CASE Finish(w)
  <2>1. \A o \in Ops : op'[o] = "COMPLETED" => op[o] = "COMPLETED" \/ AllSent(o)
    BY <1>15 DEF Finish, SentInv, Counted, TypeInv, RowsFit
  <2> QED
    BY <1>5, <1>15, <2>1 DEF Finish, WorkerFrame, serasa
<1>16. CASE WorkerThrows(w)
  <2> DEFINE l == [worker[w] EXCEPT !.pc = "catch", !.answer = "none"]
  <2>1. l.pc = "catch" /\ l.item = worker[w].item
    BY <1>0 DEF Worker
  <2>2. worker' = [worker EXCEPT ![w] = l]
    BY <1>16 DEF WorkerThrows
  <2> HIDE DEF l
  <2> QED
    BY <1>2, <1>16, <2>1, <2>2 DEF WorkerThrows, serasa, rows
<1>17. CASE Catch(w)
  <2> DEFINE i == worker[w].item
             l == [worker[w] EXCEPT !.pc = "countPending"]
  <2>0. i \in Items
    BY <1>0, <1>17 DEF Catch
  <2>1. l.pc = "countPending" /\ l.item = i
    BY <1>0 DEF Worker
  <2>2. worker' = [worker EXCEPT ![w] = l] /\ worker'[w] = l
    BY <1>17 DEF Catch, GoWorker, TypeInv, WorkersFit
  <2> HIDE DEF l
  <2>4. UNCHANGED <<sends, queue, form, op, owed, again, hook, rec>>
    BY <1>17 DEF Catch, WorkerFrame, serasa
  <2>3. \A j \in Items : \/ item'[j] = item[j]
                         \/ item[j].status = "PENDING" /\ item'[j].status = "FAILED"
    BY <1>17, <2>0 DEF Catch, TypeInv, RowsFit, Item
  <2>5. \A j \in Items : StaysUnsent(j)
    BY <2>3, <2>4 DEF StaysUnsent, Sent
  <2>6. Counted(w)'
    BY <2>1, <2>2 DEF Counted
  <2>7. Answers'
    BY <2>4, <2>5, AnswersKept DEF SentInv
  <2>8. \A j \in Items : Sent(j)' => Sent(j)
    BY <2>4 DEF Sent
  <2> QED
    BY <1>17, <2>1, <2>2, <2>4, <2>5, <2>6, <2>7, <2>8, WorkerSent DEF Catch
<1>18. ASSUME NEW stalled \in BOOLEAN, WorkerDies(w, stalled) PROVE SentInv'
  <2>1. \A j \in Items : queue'[j] > 0 => queue[j] > 0 \/ Submitted(j)
    BY <1>0, <1>18 DEF WorkerDies, TypeInv, QueueFits
  <2>2. IdleWorker.pc = "idle"
    BY DEF IdleWorker
  <2> QED
    BY <1>2, <1>18, <2>1, <2>2 DEF WorkerDies, FreeWorker, serasa, rows
<1> QED
  BY <1>3, <1>6, <1>7, <1>8, <1>9, <1>10, <1>11, <1>12, <1>13, <1>14, <1>15, <1>16, <1>17,
     <1>18 DEF WorkerStep

-----------------------------------------------------------------------------
(* Steps of webhooks and of the cron.                                      *)

\* Steps that leave requests, workers and what they have sent alone.
LEMMA RestSent ==
    ASSUME TypeInv, SentInv, \A i \in Items : StaysUnsent(i), Answers',
           UNCHANGED <<form, worker, sends>>,
           \A i \in Items : queue'[i] > 0 => queue[i] > 0 \/ Sent(i),
           \A o \in Ops : op'[o] = "COMPLETED" => op[o] = "COMPLETED"
    PROVE  SentInv'
<1>1. \A w \in Workers : Counted(w)'
  BY CountedStays, WorkerHas DEF SentInv, TypeInv
<1>2. \A o \in Ops : op'[o] = "COMPLETED" => AllSent(o)'
  BY SentStays DEF SentInv
<1>3. Traced'
  BY DEF SentInv, Traced, Submitted, Sent
<1> QED
  BY <1>1, <1>2, <1>3 DEF SentInv

LEMMA HooksSent ==
    ASSUME TypeInv, SentInv, NEW h \in Hooks,
           \/ \E t \in owed, done, twice \in BOOLEAN : Deliver(h, t, done, twice)
           \/ \E e \in again : DeliverAgain(h, e)
           \/ HookStep(h) \/ HookDies(h)
    PROVE  SentInv'
<1> USE DEF AtHook
\* A delivery carries an event of a request that was sent.
<1>1. ASSUME \A i \in Items : StaysUnsent(i), UNCHANGED <<sends, rec>>,
             owed' \subseteq owed,
             \A e \in again' : e \in again \/ Sent(e.of.item),
             \A g \in Hooks \ {h} : hook'[g] = hook[g],
             hook'[h].pc # "idle" => Sent((CHOOSE e \in hook'[h].event : TRUE).of.item)
      PROVE  Answers'
  <2>1. \A i \in Items : item'[i].status \in
            {"WAITING_PROVIDER_EVENT", "REGISTERED", "REMOVED"} => Sent(i)
    BY <1>1 DEF StaysUnsent, Sent, SentInv, Answers
  <2>2. \A g \in Hooks : hook'[g].pc # "idle" =>
            Sent((CHOOSE e \in hook'[g].event : TRUE).of.item)
    BY <1>1 DEF SentInv, Answers, EventOf
  <2> QED
    BY <1>1, <2>1, <2>2 DEF SentInv, Answers, Sent, EventOf
<1>2. ASSUME NEW e, Sent(e.of.item), Receive(h, e), owed' \subseteq owed,
             \A f \in again' : f \in again \/ Sent(f.of.item)
      PROVE  SentInv'
  <2>1. /\ hook'[h] = [pc |-> "dedup", event |-> {e}]
        /\ \A g \in Hooks \ {h} : hook'[g] = hook[g]
    BY <1>2 DEF Receive, TypeInv, HooksFit
  <2>2. Sent((CHOOSE f \in hook'[h].event : TRUE).of.item)
    <3>1. (CHOOSE f \in hook'[h].event : TRUE) = e
      BY <2>1
    <3> QED
      BY <1>2, <3>1
  <2>3. UNCHANGED <<item, sends, rec, form, worker, queue, op>>
    BY <1>2 DEF Receive, HookFrame
  <2>4. \A i \in Items : StaysUnsent(i)
    BY <2>3, UnsentKept
  <2>5. Answers'
    BY <1>1, <1>2, <2>1, <2>2, <2>3, <2>4
  <2> QED
    BY <2>3, <2>4, <2>5, RestSent
<1>3. ASSUME NEW t \in owed, NEW done \in BOOLEAN, NEW twice \in BOOLEAN,
             Deliver(h, t, done, twice)
      PROVE  SentInv'
  <2> DEFINE e == [of |-> t, done |-> done]
  <2>1. Sent(e.of.item)
    BY DEF SentInv, Answers
  <2>2. Receive(h, e) /\ owed' \subseteq owed /\ again' \subseteq again \cup {e}
    BY <1>3 DEF Deliver
  <2> HIDE DEF e
  <2> QED
    BY <1>2, <2>1, <2>2
<1>4. ASSUME NEW e \in again, DeliverAgain(h, e) PROVE SentInv'
  BY <1>2, <1>4 DEF DeliverAgain, SentInv, Answers
\* It goes on with its event or ends.
<1>5. ASSUME \/ FreeHook(h)
             \/ hook[h].pc # "idle" /\ \E pc : GoHook(h, pc),
             \A i \in Items : StaysUnsent(i),
             UNCHANGED <<sends, rec, owed, again, form, worker, queue, op>>
      PROVE  SentInv'
  <2>1. \A g \in Hooks \ {h} : hook'[g] = hook[g]
    BY <1>5 DEF FreeHook, GoHook, TypeInv, HooksFit
  <2>2. \/ hook'[h].pc = "idle"
        \/ hook[h].pc # "idle" /\ hook'[h].event = hook[h].event
    BY <1>5 DEF FreeHook, GoHook, IdleHook, TypeInv, HooksFit, HookFits, Hook
  <2>3. hook'[h].pc # "idle" => Sent((CHOOSE e \in hook'[h].event : TRUE).of.item)
    BY <2>2 DEF SentInv, Answers, EventOf
  <2>4. Answers'
    BY <1>1, <1>5, <2>1, <2>3
  <2> QED
    BY <1>5, <2>4, RestSent
<1>6. ASSUME UNCHANGED <<item, sends>> PROVE \A i \in Items : StaysUnsent(i)
  BY <1>6, UnsentKept
<1>7. CASE Dedup(h)
  BY <1>5, <1>6, <1>7 DEF Dedup, HookFrame, serasa
<1>8. CASE Record(h)
  BY <1>5, <1>6, <1>8 DEF Record, HookFrame, serasa
<1>9. CASE Match(h)
  BY <1>5, <1>6, <1>9 DEF Match, HookFrame, serasa
<1>10. CASE ApplyToItem(h)
  <2>1. Sent(EventOf(h).of.item)
    BY <1>10 DEF ApplyToItem, SentInv, Answers
  <2>2. UNCHANGED <<sends, rec, owed, again, form, worker, queue, op>>
    BY <1>10 DEF ApplyToItem, HookFrame, serasa
  <2>3. \A i \in Items \ {EventOf(h).of.item} : item'[i] = item[i]
    BY <1>10 DEF ApplyToItem, SetStatus, TypeInv, RowsFit
  <2>4. \A i \in Items : StaysUnsent(i)
    BY <2>1, <2>2, <2>3 DEF StaysUnsent, Sent
  <2> QED
    BY <1>5, <1>10, <2>2, <2>4 DEF ApplyToItem
<1>11. CASE FailContract(h)
  BY <1>5, <1>6, <1>11 DEF FailContract, HookFrame, serasa
<1>12. CASE ApplyToContract(h)
  BY <1>5, <1>6, <1>12 DEF ApplyToContract, HookFrame, serasa
<1>13. CASE HookDies(h)
  BY <1>5, <1>6, <1>13 DEF HookDies, HookFrame, serasa
<1> QED
  BY <1>3, <1>4, <1>7, <1>8, <1>9, <1>10, <1>11, <1>12, <1>13 DEF HookStep

LEMMA RecSent ==
    ASSUME TypeInv, SentInv,
           \/ RecRead \/ RecReopen \/ RecEnqueue \/ RecDies
           \/ \E k \in rec.todo : RecSkip(k) \/ RecGiveUp(k) \/ RecClaim(k)
    PROVE  SentInv'
\* What the cron has read or claimed was sent.
<1>1. ASSUME \A i \in Items : item'[i].status # item[i].status => Sent(i),
             UNCHANGED <<sends, owed, again, hook, form, worker>>,
             \A k \in rec'.todo : Sent(k.item),
             rec'.pc # "next" => Sent(rec'.item),
             \A i \in Items : queue'[i] > 0 => queue[i] > 0 \/ Sent(i),
             \A o \in Ops : op'[o] = "COMPLETED" => op[o] = "COMPLETED"
      PROVE  SentInv'
  <2>1. \A i \in Items : StaysUnsent(i)
    BY <1>1 DEF StaysUnsent, Sent
  <2>2. Answers'
    BY <1>1 DEF SentInv, Answers, Sent, EventOf
  <2> QED
    BY <1>1, <2>1, <2>2, RestSent
<1>2. rec \in Rec /\ \A k \in rec.todo : k.item \in Items
  BY DEF TypeInv, RecFits, Rec
<1>3. CASE RecRead
  <2> DEFINE todo == {[item |-> i, attempts |-> item[i].attempts] :
                         i \in {j \in Items : Stale(j)}}
  <2>1. \A k \in todo : Sent(k.item)
    BY DEF Stale, SentInv, Answers
  <2>2. rec'.todo = todo /\ rec'.pc = "next"
    BY <1>2, <1>3 DEF RecRead, Rec
  <2> HIDE DEF todo
  <2> QED
    BY <1>1, <1>3, <2>1, <2>2 DEF RecRead, RecFrame, rows, serasa
<1>4. ASSUME NEW k \in rec.todo
      PROVE  /\ Without(k).todo \subseteq rec.todo /\ Without(k).pc = rec.pc
             /\ Without(k).item = rec.item /\ Without(k) \in Rec
             /\ Sent(k.item)
  BY <1>2 DEF Without, Rec, SentInv, Answers
<1>5. ASSUME NEW k \in rec.todo, RecSkip(k) PROVE SentInv'
  BY <1>1, <1>4, <1>5 DEF RecSkip, RecFrame, rows, serasa, SentInv, Answers
\* The status of a candidate changes, of a candidate only.
<1>6. ASSUME NEW k \in rec.todo, NEW status, SetStatus(k.item, status)
      PROVE  \A i \in Items : item'[i].status # item[i].status => Sent(i)
  BY <1>4, <1>6 DEF SetStatus, TypeInv, RowsFit
<1>7. ASSUME NEW k \in rec.todo, RecGiveUp(k) PROVE SentInv'
  BY <1>1, <1>4, <1>6, <1>7 DEF RecGiveUp, RecFrame, serasa, SentInv, Answers
<1>8. ASSUME NEW k \in rec.todo, RecClaim(k) PROVE SentInv'
  <2>1. \A i \in Items : item'[i].status # item[i].status => Sent(i)
    BY <1>6, <1>8 DEF RecClaim
  <2>2. rec'.todo \subseteq rec.todo /\ (rec'.pc # "next" => Sent(rec'.item))
    <3>1. CASE rec' = Without(k)
      BY <1>4, <3>1 DEF SentInv, Answers
    <3>2. CASE rec' = [Without(k) EXCEPT !.pc = "reopen", !.item = k.item]
      BY <1>4, <3>2 DEF Rec
    <3> QED
      BY <1>8, <3>1, <3>2 DEF RecClaim
  <2> QED
    BY <1>1, <1>8, <2>1, <2>2 DEF RecClaim, RecFrame, serasa, SentInv, Answers
<1>9. CASE RecReopen
  <2>1. rec'.todo = rec.todo /\ rec'.item = rec.item /\ Sent(rec.item)
    BY <1>2, <1>9 DEF RecReopen, Rec, SentInv, Answers
  <2>2. \A o \in Ops : op'[o] = "COMPLETED" => op[o] = "COMPLETED"
    BY <1>9 DEF RecReopen, TypeInv, RowsFit
  <2> QED
    BY <1>1, <1>9, <2>1, <2>2 DEF RecReopen, RecFrame, serasa, SentInv, Answers
<1>10. CASE RecEnqueue
  <2>1. rec'.todo = rec.todo /\ rec'.pc = "next" /\ Sent(rec.item)
    BY <1>2, <1>10 DEF RecEnqueue, Rec, SentInv, Answers
  <2>2. \A i \in Items : queue'[i] > 0 => queue[i] > 0 \/ Sent(i)
    BY <1>10, <2>1 DEF RecEnqueue, TypeInv, QueueFits
  <2> QED
    BY <1>1, <1>10, <2>1, <2>2 DEF RecEnqueue, RecFrame, rows, serasa, SentInv, Answers
<1>11. CASE RecDies
  <2>1. rec'.todo = {} /\ rec'.pc = "next"
    BY <1>11 DEF RecDies, IdleRec
  <2> QED
    BY <1>1, <1>11, <2>1 DEF RecDies, RecFrame, rows, serasa
<1> QED
  BY <1>3, <1>5, <1>7, <1>8, <1>9, <1>10, <1>11

LEMMA SentNext == TypeInv /\ SentInv /\ [Next]_vars => SentInv'
<1> SUFFICES ASSUME TypeInv, SentInv, [Next]_vars PROVE SentInv'
  OBVIOUS
<1>1. CASE UNCHANGED vars
  BY <1>1 DEF vars, SentInv, Traced, Answers, Counted, AllSent, PendingSent, ItemsOf,
         Submitted, Sent, EventOf
<1>2. CASE Next
  BY <1>2, FormSent, WorkersSent, HooksSent, RecSent DEF Next
<1> QED
  BY <1>1, <1>2

\* updateOperationStatusIfComplete: whatever is counted while other workers write, a
\* COMPLETED operation has made a request for every one of its contracts.
THEOREM CompletedsAreSent == Spec => []CompletedIsSent
<1>1. SentInv => CompletedIsSent
  BY DEF SentInv, CompletedIsSent, AllSent, Sent
<1>2. Spec => [](TypeInv /\ SentInv)
  BY TypeInit, TypeNext, SentInit, SentNext, PTL DEF Spec
<1> QED
  BY <1>1, <1>2, PTL

-----------------------------------------------------------------------------
(* Items that wait and operations that are open.                           *)

Pending(i) == item[i].status = "PENDING"
Open(o) == op[o] \in {"PENDING", "PROCESSING"}

Queued(i) == \/ queue[i] > 0
             \/ form[OpOf[i]].pc = "enqueue" /\ i \in form[OpOf[i]].items
             \/ rec.item = i
HasJob(i) == Queued(i) \/ \E w \in Workers : WorkingOn(w, i)
Asked(o) == \/ form[o].pc = "enqueue"
            \/ rec.item # Nobody /\ OpOf[rec.item] = o
            \/ \E i \in ItemsOf(o) : queue[i] > 0
HasWork(o) == \/ Asked(o)
              \/ \E w \in Workers : worker[w].item # Nobody /\ OpOf[worker[w].item] = o

\* Whoever is about to queue a job has an item of the operation in hand.
Held ==
    /\ \A o \in Ops : form[o].pc = "enqueue" =>
          \A i \in form[o].items : item[i].status # "NONE"
    /\ rec.pc = "next" => rec.item = Nobody
    /\ rec.pc # "next" => item[rec.item].status # "NONE"
    /\ \A w \in Workers : worker[w].pc = "idle" => worker[w].item = Nobody

\* An item of a CANCELLED operation is PENDING only on its way to be reopened,
\* without which the worker that skips it would leave it behind.
NoneLeft ==
    /\ \A i \in Items : Pending(i) => HasJob(i)
    /\ \A o \in Ops : Open(o) => HasWork(o)
    /\ \A i \in Items : op[OpOf[i]] = "CANCELLED" /\ Pending(i) =>
          rec.pc = "reopen" /\ rec.item = i

JobInv == Held /\ (faults = 0 => NoneLeft)

LEMMA JobInit == Init => JobInv
  BY DEF Init, JobInv, Held, NoneLeft, Pending, Open, IdleForm, IdleRec, IdleWorker

\* A step opens nothing and takes nothing up again.
OpensNothing ==
    /\ \A i \in Items : Pending(i)' => Pending(i)
    /\ \A i \in Items : item[i].status # "NONE" => item'[i].status # "NONE"
    /\ \A o \in Ops : Open(o)' => Open(o)
    /\ \A o \in Ops : op'[o] = "CANCELLED" => op[o] = "CANCELLED"

LEMMA ItemsStay ==
    ASSUME \A i \in Items : item[i].status # "NONE" => item'[i].status # "NONE", NEW o
    PROVE  ItemsOf(o) \subseteq ItemsOf(o)'
  BY DEF ItemsOf

LEMMA JobsKept ==
    ASSUME TypeInv, JobInv, OpensNothing, Held',
           faults' = 0 => faults = 0,
           faults = 0 => \A i \in Items : Pending(i) /\ Pending(i)' /\ HasJob(i) => HasJob(i)',
           faults = 0 => \A o \in Ops : Open(o) /\ Open(o)' /\ HasWork(o) => HasWork(o)',
           rec.pc = "reopen" => rec'.pc = "reopen" /\ rec'.item = rec.item
    PROVE  JobInv'
  BY NamesFit DEF JobInv, NoneLeft, OpensNothing

\* A failing step excuses what it leaves behind.
LEMMA FaultJobs ==
    ASSUME TypeInv, Held', faults' = faults + 1
    PROVE  JobInv'
  BY DEF TypeInv, BoundsFit, JobInv

LEMMA HeldStays ==
    ASSUME TypeInv, Held, UNCHANGED <<form, rec>>,
           \A w \in Workers : worker'[w].pc = "idle" => worker'[w].item = Nobody,
           \A i \in Items : item[i].status # "NONE" => item'[i].status # "NONE"
    PROVE  Held'
  BY DEF Held, TypeInv, FormsFit, Form, RecFits

\* What is queued and asked stays while requests, queue and cron stand still.
LEMMA QueuedStays ==
    ASSUME UNCHANGED <<form, rec, queue>>,
           \A i \in Items : item[i].status # "NONE" => item'[i].status # "NONE"
    PROVE  /\ \A i \in Items : Queued(i) => Queued(i)'
           /\ \A o \in Ops : Asked(o) => Asked(o)'
  BY ItemsStay DEF Queued, Asked

-----------------------------------------------------------------------------
(* Steps of workers.                                                       *)

\* A worker goes on with its item, and is past it only when it is not PENDING.
LEMMA WorkerGoesOn ==
    ASSUME TypeInv, JobInv, OpensNothing, NEW w \in Workers, NEW l,
           worker' = [worker EXCEPT ![w] = l], l.item = worker[w].item,
           l.pc # "idle", UNCHANGED <<form, rec, queue, faults>>,
           \/ l.pc \in {"claim", "status", "items", "send", "write"}
           \/ worker[w].pc \notin {"claim", "status", "items", "send", "write"}
           \/ item'[worker[w].item].status # "PENDING"
    PROVE  JobInv'
<1>1. worker'[w] = l /\ \A v \in Workers \ {w} : worker'[v] = worker[v]
  BY DEF TypeInv, WorkersFit
<1>2. /\ \A i \in Items : Queued(i) => Queued(i)'
      /\ \A o \in Ops : Asked(o) => Asked(o)'
  BY QueuedStays DEF OpensNothing
<1>3. \A i \in Items : Pending(i)' /\ HasJob(i) => HasJob(i)'
  <2> SUFFICES ASSUME NEW i \in Items, Pending(i)', NEW v \in Workers, WorkingOn(v, i)
               PROVE  WorkingOn(v, i)'
    BY <1>2 DEF HasJob
  <2>1. CASE v = w
    BY <1>1, <2>1 DEF WorkingOn, Pending
  <2>2. CASE v # w
    BY <1>1, <2>2 DEF WorkingOn
  <2> QED
    BY <2>1, <2>2
<1>4. \A o \in Ops : HasWork(o) => HasWork(o)'
  <2>1. \A v \in Workers : worker'[v].item = worker[v].item
    BY <1>1
  <2> QED
    BY <1>2, <2>1 DEF HasWork
<1>5. Held'
  BY <1>1, HeldStays DEF JobInv, Held, OpensNothing
<1> QED
  BY <1>3, <1>4, <1>5, JobsKept

\* A worker ends when its operation is closed or another item is PENDING.
LEMMA WorkerEnds ==
    ASSUME TypeInv, JobInv, OpensNothing, NEW w \in Workers, worker[w].pc # "idle",
           FreeWorker(w), UNCHANGED <<form, rec, queue, item, faults>>,
           faults = 0 /\ Pending(worker[w].item) /\ WorkingOn(w, worker[w].item) =>
               rec.item = worker[w].item,
           faults = 0 /\ op'[OpOf[worker[w].item]] \in {"PENDING", "PROCESSING"} =>
               \E j \in ItemsOf(OpOf[worker[w].item]) : Pending(j) /\ ~WorkingOn(w, j)
    PROVE  JobInv'
<1> DEFINE i == worker[w].item
           o == OpOf[i]
<1>0. i \in Items /\ o \in Ops /\ \A v \in Workers : worker[v].pc # "idle" => worker[v].item \in Items
  BY WorkerHas DEF TypeInv
<1>1. worker'[w] = IdleWorker /\ \A v \in Workers \ {w} : worker'[v] = worker[v]
  BY DEF FreeWorker, TypeInv, WorkersFit
<1>2. /\ \A j \in Items : Queued(j) => Queued(j)'
      /\ \A p \in Ops : Asked(p) => Asked(p)'
  BY QueuedStays
<1>3. \A j \in Items, v \in Workers \ {w} : WorkingOn(v, j) => WorkingOn(v, j)'
  BY <1>1 DEF WorkingOn
<1>4. ASSUME faults = 0, NEW j \in Items, Pending(j), HasJob(j)
      PROVE  HasJob(j)'
  <2>1. CASE WorkingOn(w, j)
    <3>1. Queued(j)
      BY <1>4, <2>1 DEF WorkingOn, Queued
    <3> QED
      BY <1>2, <3>1 DEF HasJob
  <2>2. CASE ~WorkingOn(w, j)
    BY <1>2, <1>3, <1>4, <2>2 DEF HasJob
  <2> QED
    BY <2>1, <2>2
<1>5. ASSUME faults = 0, NEW p \in Ops, Open(p)', HasWork(p)
      PROVE  HasWork(p)'
  <2>1. CASE p # o
    BY <1>1, <1>2, <1>5, <2>1 DEF HasWork
  <2>2. CASE p = o
    <3>1. PICK j \in ItemsOf(o) : Pending(j) /\ ~WorkingOn(w, j)
      BY <1>5, <2>2 DEF Open
    <3>2. j \in Items /\ OpOf[j] = o
      BY <3>1 DEF ItemsOf
    <3>3. HasJob(j)
      BY <1>5, <3>1, <3>2 DEF JobInv, NoneLeft
    <3>4. CASE \E v \in Workers \ {w} : WorkingOn(v, j)
      <4>1. PICK v \in Workers \ {w} : WorkingOn(v, j)
        BY <3>4
      <4>2. worker'[v].item = j /\ j # Nobody
        BY <1>1, <3>2, <4>1, OperationAssumption DEF WorkingOn
      <4> QED
        BY <2>2, <3>2, <4>2 DEF HasWork
    <3>5. CASE Queued(j)
      <4>1. j # Nobody
        BY <3>2, OperationAssumption
      <4>2. Asked(o)
        BY <3>1, <3>2, <3>5, <4>1 DEF Queued, Asked
      <4> QED
        BY <1>0, <1>2, <2>2, <4>2 DEF HasWork
    <3> QED
      BY <3>1, <3>3, <3>4, <3>5 DEF HasJob
  <2> QED
    BY <2>1, <2>2
<1>6. Held'
  BY <1>1, HeldStays DEF JobInv, Held, IdleWorker
<1> QED
  BY <1>4, <1>5, <1>6, JobsKept

LEMMA QuietOpens ==
    ASSUME UNCHANGED <<op, item>>
    PROVE  OpensNothing
  BY DEF OpensNothing, Pending, Open

LEMMA WorkersJobs ==
    ASSUME TypeInv, SentInv, JobInv, NEW w \in Workers,
           \/ \E i \in Items : Take(w, i)
           \/ WorkerStep(w) \/ WorkerThrows(w)
           \/ \E stalled \in BOOLEAN : WorkerDies(w, stalled)
    PROVE  JobInv'
<1> USE DEF AtWorker
<1>0. /\ worker[w] \in Worker
      /\ worker[w].pc # "idle" => worker[w].item \in Items /\ OpOf[worker[w].item] \in Ops
      /\ worker[w].pc = "finish" => worker[w].answer \in Verdict
  BY WorkerHas DEF TypeInv, WorkersFit, WorkerFits
\* A job is taken by the worker that will do it.
<1>1. ASSUME NEW i \in Items, Take(w, i) PROVE JobInv'
  <2>1. /\ worker'[w].pc = "claim" /\ worker'[w].item = i
        /\ \A v \in Workers \ {w} : worker'[v] = worker[v]
    BY <1>1 DEF Take, IdleWorker, TypeInv, WorkersFit
  <2>2. UNCHANGED <<form, rec, item, op, faults>>
    BY <1>1 DEF Take, WorkerFrame, rows, bounds
  <2>3. \A j \in Items \ {i} : queue'[j] = queue[j]
    BY <1>1 DEF Take, TypeInv, QueueFits
  <2>4. WorkingOn(w, i)' /\ \A j \in Items, v \in Workers : WorkingOn(v, j) => WorkingOn(v, j)'
    BY <1>1, <2>1 DEF Take, WorkingOn
  <2>5. \A j \in Items : HasJob(j) => HasJob(j)'
    BY <2>2, <2>3, <2>4 DEF HasJob, Queued
  <2>6. ASSUME NEW o \in Ops, HasWork(o) PROVE HasWork(o)'
    <3>1. i # Nobody
      BY OperationAssumption
    <3>2. CASE OpOf[i] = o
      BY <2>1, <3>1, <3>2 DEF HasWork
    <3>3. CASE OpOf[i] # o
      <4>1. ItemsOf(o)' = ItemsOf(o) /\ i \notin ItemsOf(o)
        BY <2>2, <3>3 DEF ItemsOf
      <4>2. Asked(o) => Asked(o)'
        BY <2>2, <2>3, <4>1 DEF Asked, ItemsOf
      <4>3. \A v \in Workers : worker[v].item # Nobody /\ OpOf[worker[v].item] = o =>
                worker'[v].item = worker[v].item \/ v = w
        BY <2>1
      <4>4. CASE worker[w].item # Nobody /\ OpOf[worker[w].item] = o
        BY <1>1, <4>4 DEF Take, JobInv, Held
      <4> QED
        BY <2>6, <4>2, <4>3, <4>4 DEF HasWork
    <3> QED
      BY <3>2, <3>3
  <2>7. Held'
    BY <2>1, <2>2, HeldStays DEF JobInv, Held
  <2> QED
    BY <2>2, <2>5, <2>6, <2>7, JobsKept, QuietOpens
\* It goes on.
<1>2. ASSUME NEW pc \in {"status", "items", "send", "project", "debtId", "countPending",
                        "countFailed"},
             worker[w].pc # "idle", GoWorker(w, pc), OpensNothing,
             UNCHANGED <<form, rec, queue, faults>>,
             \/ pc \in {"status", "items", "send"}
             \/ worker[w].pc \notin {"claim", "status", "items", "send", "write"}
             \/ item'[worker[w].item].status # "PENDING"
      PROVE  JobInv'
  <2> DEFINE l == [worker[w] EXCEPT !.pc = pc]
  <2>1. l.pc = pc /\ l.item = worker[w].item
    BY <1>0 DEF Worker
  <2>2. worker' = [worker EXCEPT ![w] = l]
    BY <1>2 DEF GoWorker, TypeInv, WorkersFit
  <2> HIDE DEF l
  <2> QED
    BY <1>2, <2>1, <2>2, WorkerGoesOn
<1>3. CASE Claim(w)
  <2>1. OpensNothing
    BY <1>0, <1>3 DEF Claim, OpensNothing, Pending, Open, TypeInv, RowsFit
  <2> QED
    BY <1>2, <1>3, <2>1 DEF Claim, WorkerFrame, bounds
\* It skips a CANCELLED operation, of which it leaves nothing behind.
<1>4. CASE ReadStatus(w)
  <2> DEFINE o == OpOf[worker[w].item]
  <2>1. CASE op[o] # "CANCELLED"
    BY <1>2, <1>4, <2>1, QuietOpens DEF ReadStatus, WorkerFrame, bounds, rows
  <2>2. CASE op[o] = "CANCELLED"
    <3>1. UNCHANGED <<form, rec, queue, item, op, faults>> /\ FreeWorker(w)
      BY <1>4, <2>2 DEF ReadStatus, WorkerFrame, bounds, rows
    <3>2. faults = 0 /\ Pending(worker[w].item) => rec.item = worker[w].item
      BY <1>0, <1>4, <2>2 DEF ReadStatus, JobInv, NoneLeft
    <3> QED
      BY <1>4, <2>2, <3>1, <3>2, WorkerEnds, QuietOpens DEF ReadStatus
  <2> QED
    BY <2>1, <2>2
<1>5. CASE ReadItems(w)
  BY <1>2, <1>5, QuietOpens DEF ReadItems, WorkerFrame, bounds, rows
<1>6. ASSUME NEW answer \in {"accepted", "updated", "failed"}, NEW lost \in BOOLEAN,
             Send(w, answer, lost)
      PROVE  JobInv'
  <2> DEFINE l == [worker[w] EXCEPT !.pc = "write", !.answer = answer]
  <2>1. l.pc = "write" /\ l.item = worker[w].item
    BY <1>0 DEF Worker
  <2>2. worker' = [worker EXCEPT ![w] = l]
    BY <1>6 DEF Send
  <2> HIDE DEF l
  <2> QED
    BY <1>6, <2>1, <2>2, WorkerGoesOn, QuietOpens DEF Send, rows
<1>7. CASE WriteItem(w)
  <2> DEFINE i == worker[w].item
  <2>1. item'[i].status \in {"WAITING_PROVIDER_EVENT", "REGISTERED", "FAILED"}
    BY <1>0, <1>7 DEF WriteItem, TypeInv, RowsFit, Item
  <2>2. \A j \in Items : j # i => item'[j] = item[j]
    BY <1>7 DEF WriteItem, TypeInv, RowsFit
  <2>3. OpensNothing
    BY <1>7, <2>1, <2>2 DEF WriteItem, OpensNothing, Pending, Open
  <2> QED
    BY <1>2, <1>7, <2>1, <2>3 DEF WriteItem, WorkerFrame, bounds
<1>8. CASE Project(w)
  <2> DEFINE pc == IF worker[w].answer = "accepted" /\ ~Removes(worker[w].item)
                   THEN "debtId" ELSE "countPending"
             l == [worker[w] EXCEPT !.answer = "none", !.pc = pc]
  <2>1. l.pc # "idle" /\ l.item = worker[w].item
    BY <1>0 DEF Worker
  <2>2. worker' = [worker EXCEPT ![w] = l]
    BY <1>8 DEF Project
  <2> HIDE DEF l
  <2> QED
    BY <1>8, <2>1, <2>2, WorkerGoesOn, QuietOpens DEF Project, WorkerFrame, bounds
<1>9. CASE \E given \in BOOLEAN : WriteDebtId(w, given)
  BY <1>2, <1>9, QuietOpens DEF WriteDebtId, WorkerFrame, bounds
\* It leaves the operation to a batch that is still to come, or closes it.
<1>10. CASE CountPending(w)
  <2> DEFINE o == OpOf[worker[w].item]
  <2>1. CASE Having(o, "PENDING") = {}
    BY <1>2, <1>10, <2>1, QuietOpens DEF CountPending, WorkerFrame, bounds, rows
  <2>2. CASE Having(o, "PENDING") # {}
    <3>1. PICK j \in ItemsOf(o) : Pending(j)
      BY <2>2 DEF Having, Pending
    <3>2. \A i \in Items : ~WorkingOn(w, i)
      BY <1>10 DEF CountPending, WorkingOn
    <3>3. j \in Items
      BY <3>1 DEF ItemsOf
    <3>4. FreeWorker(w) /\ UNCHANGED <<form, rec, queue, item, op, faults>>
      BY <1>10, <2>2 DEF CountPending, WorkerFrame, bounds, rows
    <3> QED
      BY <1>0, <1>10, <3>1, <3>2, <3>3, <3>4, WorkerEnds, QuietOpens DEF CountPending
  <2> QED
    BY <2>1, <2>2
<1>11. CASE CountFailed(w)
  <2> DEFINE answer == CASE Having(OpOf[worker[w].item], "FAILED") = {} -> "COMPLETED"
                         [] Having(OpOf[worker[w].item], "FAILED") =
                               ItemsOf(OpOf[worker[w].item]) -> "FAILED"
                         [] OTHER -> "PARTIALLY_FAILED"
             l == [worker[w] EXCEPT !.pc = "finish", !.answer = answer]
  <2>1. l.pc = "finish" /\ l.item = worker[w].item
    BY <1>0 DEF Worker
  <2>2. worker' = [worker EXCEPT ![w] = l]
    BY <1>11 DEF CountFailed
  <2> HIDE DEF l
  <2> QED
    BY <1>11, <2>1, <2>2, WorkerGoesOn, QuietOpens DEF CountFailed, WorkerFrame, bounds, rows
<1>12. CASE Finish(w)
  <2> DEFINE o == OpOf[worker[w].item]
  <2>1. o \in Ops /\ worker[w].answer \in Verdict
    BY <1>0, <1>12 DEF Finish
  <2>2. op'[o] \in Verdict /\ \A p \in Ops \ {o} : op'[p] = op[p]
    BY <1>12, <2>1 DEF Finish, TypeInv, RowsFit
  <2>3. UNCHANGED <<form, rec, queue, item, faults>> /\ FreeWorker(w)
    BY <1>12 DEF Finish, WorkerFrame, bounds
  <2>4. OpensNothing
    BY <2>2, <2>3 DEF OpensNothing, Pending, Open, Verdict
  <2>5. ~(op'[o] \in {"PENDING", "PROCESSING"})
    BY <2>2 DEF Verdict
  <2>6. \A i \in Items : ~WorkingOn(w, i)
    BY <1>12 DEF Finish, WorkingOn
  <2> QED
    BY <1>0, <1>12, <2>3, <2>4, <2>5, <2>6, WorkerEnds DEF Finish
<1>13. CASE Catch(w)
  <2> DEFINE i == worker[w].item
  <2>1. i \in Items
    BY <1>0, <1>13 DEF Catch
  <2>2. item'[i].status # "PENDING"
    BY <1>13, <2>1 DEF Catch, TypeInv, RowsFit, Item
  <2>3. \A j \in Items : item'[j] = item[j] \/ item'[j].status = "FAILED"
    BY <1>13, <2>1 DEF Catch, TypeInv, RowsFit, Item
  <2>4. OpensNothing
    BY <1>13, <2>3 DEF Catch, OpensNothing, Pending, Open
  <2> QED
    BY <1>2, <1>13, <2>2, <2>4 DEF Catch, WorkerFrame, bounds
\* A call throws, or the process dies.
<1>14. ASSUME NEW l, worker' = [worker EXCEPT ![w] = l], l.pc = "idle" => l.item = Nobody,
              UNCHANGED <<form, rec, item>>, faults' = faults + 1
       PROVE  JobInv'
  <2>1. \A v \in Workers : worker'[v].pc = "idle" => worker'[v].item = Nobody
    BY <1>14 DEF TypeInv, WorkersFit, JobInv, Held
  <2> QED
    BY <1>14, <2>1, HeldStays, FaultJobs DEF JobInv
<1>15. CASE WorkerThrows(w)
  <2> DEFINE l == [worker[w] EXCEPT !.pc = "catch", !.answer = "none"]
  <2>1. l.pc = "catch"
    BY <1>0 DEF Worker
  <2>2. worker' = [worker EXCEPT ![w] = l]
    BY <1>15 DEF WorkerThrows
  <2> HIDE DEF l
  <2> QED
    BY <1>14, <1>15, <2>1, <2>2 DEF WorkerThrows, rows
<1>16. ASSUME NEW stalled \in BOOLEAN, WorkerDies(w, stalled) PROVE JobInv'
  <2>1. IdleWorker.item = Nobody
    BY DEF IdleWorker
  <2> QED
    BY <1>14, <1>16, <2>1 DEF WorkerDies, FreeWorker, rows
<1> QED
  BY <1>1, <1>3, <1>4, <1>5, <1>6, <1>7, <1>8, <1>9, <1>10, <1>11, <1>12, <1>13, <1>15,
     <1>16 DEF WorkerStep

-----------------------------------------------------------------------------
(* Steps of requests.                                                      *)

\* The work of the worker processes stays, and that of the cron.
LEMMA WorkStays ==
    ASSUME UNCHANGED <<worker, rec>>,
           \A i \in Items : item[i].status # "NONE" => item'[i].status # "NONE",
           \A i \in Items : queue[i] > 0 => queue'[i] > 0
    PROVE  /\ \A i \in Items : HasJob(i) /\ ~(form[OpOf[i]].pc = "enqueue" /\ i \in form[OpOf[i]].items)
                  => HasJob(i)'
           /\ \A o \in Ops : HasWork(o) /\ form[o].pc # "enqueue" => HasWork(o)'
<1>1. \A w \in Workers, i \in Items : WorkingOn(w, i)' = WorkingOn(w, i)
  BY DEF WorkingOn
<1> QED
  BY <1>1, ItemsStay DEF HasJob, Queued, HasWork, Asked, ItemsOf

LEMMA FormJobs ==
    ASSUME TypeInv, SentInv, JobInv, NEW o \in Ops,
           \/ \E items \in SUBSET Items : Select(o, items)
           \/ \E source \in Ops : SelectUnconfirmed(o, source)
           \/ Submit(o) \/ FormDies(o) \/ ReadCancel(o) \/ Cancel(o)
           \/ \E i \in Items : Enqueue(o, i)
    PROVE  JobInv'
<1>0. /\ form \in [Ops -> Form]
      /\ \A p \in Ops : \A i \in form[p].items : OpOf[i] = p
  BY DEF TypeInv, FormsFit, SentInv, Traced
\* The contracts are selected.
<1>1. ASSUME NEW f, form' = [form EXCEPT ![o] = f], f.pc = "submit", form[o].pc = "idle",
             UNCHANGED <<op, item, queue, worker, rec, faults>>
      PROVE  JobInv'
  <2>1. form'[o] = f /\ \A p \in Ops \ {o} : form'[p] = form[p]
    BY <1>0, <1>1
  <2>2. Held'
    BY <1>1, <2>1 DEF JobInv, Held
  <2>3. \A i \in Items : HasJob(i) => HasJob(i)'
    <3> SUFFICES ASSUME NEW i \in Items, HasJob(i) PROVE HasJob(i)'
      OBVIOUS
    <3>1. CASE form[OpOf[i]].pc = "enqueue" /\ i \in form[OpOf[i]].items
      BY <1>1, <2>1, <3>1, NamesFit DEF HasJob, Queued
    <3>2. CASE ~(form[OpOf[i]].pc = "enqueue" /\ i \in form[OpOf[i]].items)
      BY <1>1, <3>2, WorkStays
    <3> QED
      BY <3>1, <3>2
  <2>4. \A p \in Ops : HasWork(p) => HasWork(p)'
    <3>1. \A p \in Ops : form[p].pc = "enqueue" => form'[p].pc = "enqueue"
      BY <1>1, <2>1
    <3> QED
      BY <1>1, <3>1, WorkStays DEF HasWork, Asked
  <2> QED
    BY <1>1, <2>2, <2>3, <2>4, JobsKept, QuietOpens
<1>2. ASSUME NEW items \in SUBSET Items, Select(o, items) PROVE JobInv'
  <2> DEFINE f == [pc |-> "submit", items |-> items, replay |-> FALSE]
  <2>1. f.pc = "submit"
    OBVIOUS
  <2>2. form' = [form EXCEPT ![o] = f] /\ form[o].pc = "idle"
    BY <1>2 DEF Select
  <2> HIDE DEF f
  <2> QED
    BY <1>1, <1>2, <2>1, <2>2 DEF Select, FormOnly, rows, bounds
<1>3. ASSUME NEW source \in Ops, SelectUnconfirmed(o, source) PROVE JobInv'
  <2> DEFINE items == {i \in Items : OpOf[i] = o /\ ContractOf[i] \in Unconfirmed(source)}
             f == [pc |-> "submit", items |-> items, replay |-> TRUE]
  <2>1. f.pc = "submit"
    OBVIOUS
  <2>2. form' = [form EXCEPT ![o] = f] /\ form[o].pc = "idle"
    BY <1>3 DEF SelectUnconfirmed
  <2> HIDE DEF f
  <2> QED
    BY <1>1, <1>3, <2>1, <2>2 DEF SelectUnconfirmed, FormOnly, rows, bounds
\* The rows exist, PENDING, and their jobs are still to be queued.
<1>4. CASE Submit(o)
  <2>1. /\ form'[o].pc = "enqueue" /\ form'[o].items = form[o].items /\ form[o].pc = "submit"
        /\ \A p \in Ops \ {o} : form'[p] = form[p]
    BY <1>0, <1>4 DEF Submit, Form
  <2>2. UNCHANGED <<queue, worker, rec, faults>>
    BY <1>4 DEF Submit, bounds
  <2>3. /\ \A i \in form[o].items \cap Items : item'[i].status = "PENDING"
        /\ \A i \in Items \ form[o].items : item'[i] = item[i]
    BY <1>4 DEF Submit, TypeInv, RowsFit, Item
  <2>4. op'[o] = "PENDING" /\ \A p \in Ops \ {o} : op'[p] = op[p]
    BY <1>4 DEF Submit, TypeInv, RowsFit
  <2>5. \A i \in Items : item[i].status # "NONE" => item'[i].status # "NONE"
    BY <2>3
  <2>6. Held'
    <3>1. \A p \in Ops : form[p].items \subseteq Items
      BY <1>0 DEF Form
    <3>2. rec.pc # "next" => rec.item \in Items
      BY DEF TypeInv, RecFits
    <3> QED
      BY <2>1, <2>2, <2>3, <2>5, <3>1, <3>2 DEF JobInv, Held
  <2>7. ASSUME faults = 0, NEW i \in Items, Pending(i)' PROVE HasJob(i)'
    <3>1. CASE i \in form[o].items
      BY <1>0, <2>1, <3>1 DEF HasJob, Queued
    <3>2. CASE i \notin form[o].items
      <4>1. HasJob(i)
        BY <2>3, <2>7, <3>2 DEF Pending, JobInv, NoneLeft
      <4>2. CASE form[OpOf[i]].pc = "enqueue" /\ i \in form[OpOf[i]].items
        BY <2>1, <4>2, NamesFit DEF HasJob, Queued
      <4>3. CASE ~(form[OpOf[i]].pc = "enqueue" /\ i \in form[OpOf[i]].items)
        BY <2>2, <2>5, <4>1, <4>3, WorkStays
      <4> QED
        BY <4>2, <4>3
    <3> QED
      BY <3>1, <3>2
  <2>8. ASSUME faults = 0, NEW p \in Ops, Open(p)' PROVE HasWork(p)'
    <3>1. CASE form'[p].pc = "enqueue"
      BY <3>1 DEF HasWork, Asked
    <3>2. CASE form'[p].pc # "enqueue"
      <4>1. p # o /\ form[p].pc # "enqueue"
        BY <2>1, <3>2
      <4>2. HasWork(p)
        BY <2>4, <2>8, <4>1 DEF Open, JobInv, NoneLeft
      <4> QED
        BY <2>2, <2>5, <4>1, <4>2, WorkStays
    <3> QED
      BY <3>1, <3>2
  <2>9. ASSUME faults = 0, NEW i \in Items, op'[OpOf[i]] = "CANCELLED", Pending(i)'
        PROVE  rec'.pc = "reopen" /\ rec'.item = i
    <3>1. OpOf[i] # o
      BY <2>4, <2>9
    <3>2. op[OpOf[i]] = "CANCELLED" /\ Pending(i)
      BY <1>0, <2>3, <2>4, <2>9, <3>1, NamesFit DEF Pending
    <3> QED
      BY <2>2, <2>9, <3>2 DEF JobInv, NoneLeft
  <2> QED
    BY <2>2, <2>6, <2>7, <2>8, <2>9 DEF JobInv, NoneLeft
<1>5. CASE FormDies(o)
  <2>1. \A p \in Ops : form'[p].pc = "enqueue" => form'[p] = form[p]
    BY <1>0, <1>5 DEF FormDies, IdleForm
  <2>2. Held'
    BY <1>5, <2>1 DEF FormDies, rows, JobInv, Held
  <2> QED
    BY <1>5, <2>2, FaultJobs DEF FormDies
<1>6. CASE ReadCancel(o)
  <2>1. UNCHANGED <<op, item, form, queue, worker, rec, faults>>
    BY <1>6 DEF ReadCancel, rows
  <2>2. Held'
    BY <2>1 DEF JobInv, Held
  <2>3. /\ \A i \in Items : HasJob(i) => HasJob(i)'
        /\ \A p \in Ops : HasWork(p) => HasWork(p)'
    BY <2>1 DEF HasJob, Queued, HasWork, Asked, ItemsOf, WorkingOn
  <2> QED
    BY <2>1, <2>2, <2>3, JobsKept, QuietOpens
\* No item of a CANCELLED operation stays PENDING.
<1>7. CASE Cancel(o)
  <2>1. UNCHANGED <<form, queue, worker, rec, faults>>
    BY <1>7 DEF Cancel, bounds
  <2>2. op'[o] = "CANCELLED" /\ \A p \in Ops \ {o} : op'[p] = op[p]
    BY <1>7 DEF Cancel, TypeInv, RowsFit
  <2>3. \A i \in Items : \/ item'[i] = item[i] /\ (OpOf[i] = o => ~Pending(i))
                         \/ Pending(i) /\ item'[i].status = "FAILED"
    BY <1>7 DEF Cancel, ItemsOf, Pending, TypeInv, RowsFit, Item
  <2>4. \A i \in Items : item[i].status # "NONE" => item'[i].status # "NONE"
    BY <2>3
  <2>5. Held'
    BY <2>1, <2>4, HeldStays DEF JobInv, Held
  <2>6. \A i \in Items : Pending(i)' => Pending(i) /\ OpOf[i] # o
    BY <2>3 DEF Pending
  <2>7. \A i \in Items : HasJob(i) => HasJob(i)'
    BY <2>1 DEF HasJob, Queued, WorkingOn
  <2>8. \A p \in Ops : HasWork(p) => HasWork(p)'
    BY <2>1, <2>4, ItemsStay DEF HasWork, Asked
  <2>9. faults = 0 => NoneLeft'
    <3> SUFFICES ASSUME faults = 0 PROVE NoneLeft'
      OBVIOUS
    <3>1. \A i \in Items : Pending(i)' => HasJob(i)'
      BY <2>6, <2>7 DEF JobInv, NoneLeft
    <3>2. \A p \in Ops : Open(p)' => HasWork(p)'
      BY <2>2, <2>8 DEF JobInv, NoneLeft, Open
    <3>3. \A i \in Items : op'[OpOf[i]] = "CANCELLED" /\ Pending(i)' =>
              rec'.pc = "reopen" /\ rec'.item = i
      BY <2>1, <2>2, <2>6, NamesFit DEF JobInv, NoneLeft
    <3> QED
      BY <3>1, <3>2, <3>3 DEF NoneLeft
  <2> QED
    BY <2>1, <2>5, <2>9 DEF JobInv
\* A job is queued.
<1>8. ASSUME NEW i \in Items, Enqueue(o, i) PROVE JobInv'
  <2>1. OpOf[i] = o /\ item[i].status # "NONE"
    BY <1>0, <1>8 DEF Enqueue, JobInv, Held
  <2>2. UNCHANGED <<op, item, worker, rec, faults>>
    BY <1>8 DEF Enqueue, rows, bounds
  <2>3. queue'[i] > 0 /\ \A j \in Items \ {i} : queue'[j] = queue[j]
    <3>1. queue[i] \in Nat
      BY DEF TypeInv, QueueFits
    <3>2. queue'[i] = queue[i] + 1 /\ \A j \in Items \ {i} : queue'[j] = queue[j]
      BY <1>8 DEF Enqueue, TypeInv, QueueFits
    <3> QED
      BY <3>1, <3>2
  <2>4. /\ form'[o].items = form[o].items \ {i}
        /\ form'[o].pc = IF form[o].items = {i} THEN "done" ELSE "enqueue"
        /\ form[o].pc = "enqueue"
        /\ \A p \in Ops \ {o} : form'[p] = form[p]
    <3> DEFINE f == [form[o] EXCEPT !.pc = IF form[o].items = {i} THEN "done" ELSE "enqueue",
                                    !.items = form[o].items \ {i}]
    <3>1. /\ f.items = form[o].items \ {i}
          /\ f.pc = IF form[o].items = {i} THEN "done" ELSE "enqueue"
      BY <1>0 DEF Form
    <3>2. form' = [form EXCEPT ![o] = f] /\ form[o].pc = "enqueue"
      BY <1>8 DEF Enqueue
    <3> HIDE DEF f
    <3> QED
      BY <1>0, <3>1, <3>2
  <2>5. Held'
    BY <2>2, <2>4 DEF JobInv, Held
  <2>6. \A j \in Items : HasJob(j) => HasJob(j)'
    <3> SUFFICES ASSUME NEW j \in Items, HasJob(j) PROVE HasJob(j)'
      OBVIOUS
    <3>1. CASE j = i
      BY <2>3, <3>1 DEF HasJob, Queued
    <3>2. CASE j # i /\ form[OpOf[j]].pc = "enqueue" /\ j \in form[OpOf[j]].items
      BY <2>4, <3>2, NamesFit DEF HasJob, Queued
    <3>3. CASE j # i /\ ~(form[OpOf[j]].pc = "enqueue" /\ j \in form[OpOf[j]].items)
      BY <2>2, <2>3, <3>3, WorkStays
    <3> QED
      BY <3>1, <3>2, <3>3
  <2>7. \A p \in Ops : HasWork(p) => HasWork(p)'
    <3> SUFFICES ASSUME NEW p \in Ops, HasWork(p) PROVE HasWork(p)'
      OBVIOUS
    <3>1. CASE p = o
      <4>1. i \in ItemsOf(o)'
        BY <2>1, <2>2 DEF ItemsOf
      <4> QED
        BY <2>3, <3>1, <4>1 DEF HasWork, Asked
    <3>2. CASE p # o /\ form[p].pc = "enqueue"
      BY <2>4, <3>2 DEF HasWork, Asked
    <3>3. CASE p # o /\ form[p].pc # "enqueue"
      BY <2>2, <2>3, <3>3, WorkStays
    <3> QED
      BY <3>1, <3>2, <3>3
  <2> QED
    BY <2>2, <2>5, <2>6, <2>7, JobsKept, QuietOpens
<1> QED
  BY <1>2, <1>3, <1>4, <1>5, <1>6, <1>7, <1>8

-----------------------------------------------------------------------------
(* Steps of webhooks and of the cron.                                      *)

\* A webhook closes items, and the rest stands still.
LEMMA HooksJobs ==
    ASSUME TypeInv, SentInv, JobInv, NEW h \in Hooks,
           \/ \E t \in owed, done, twice \in BOOLEAN : Deliver(h, t, done, twice)
           \/ \E e \in again : DeliverAgain(h, e)
           \/ HookStep(h) \/ HookDies(h)
    PROVE  JobInv'
<1>1. UNCHANGED <<op, form, queue, worker, rec>>
  BY DEF Deliver, DeliverAgain, Receive, HookStep, Dedup, Record, Match, ApplyToItem,
         FailContract, ApplyToContract, HookDies, HookFrame
<1>2. \A i \in Items : item'[i] = item[i] \/ item'[i].status \notin {"NONE", "PENDING"}
  <2>1. CASE ApplyToItem(h)
    <3>1. item \in [Items -> Item]
      BY DEF TypeInv, RowsFit
    <3>2. \E status \in {"FAILED", "REMOVED", "REGISTERED"} :
              SetStatus(EventOf(h).of.item, status)
      BY <2>1 DEF ApplyToItem
    <3> QED
      BY <3>1, <3>2 DEF SetStatus, Item
  <2>2. CASE ~ApplyToItem(h)
    <3>1. UNCHANGED item
      BY <2>2 DEF Deliver, DeliverAgain, Receive, HookStep, Dedup, Record, Match,
           FailContract, ApplyToContract, HookDies
    <3> QED
      BY <3>1
  <2> QED
    BY <2>1, <2>2
<1>3. OpensNothing
  BY <1>1, <1>2 DEF OpensNothing, Pending, Open
<1>4. faults' = faults \/ faults' = faults + 1
  BY DEF Deliver, DeliverAgain, Receive, HookStep, Dedup, Record, Match, ApplyToItem,
         FailContract, ApplyToContract, HookDies, bounds
<1>5. faults' = 0 => faults = 0
  BY <1>4 DEF TypeInv, BoundsFit
<1>6. Held'
  BY <1>1, <1>3, HeldStays DEF JobInv, Held, OpensNothing
<1>7. \A i \in Items : HasJob(i) => HasJob(i)'
  BY <1>1 DEF HasJob, Queued, WorkingOn
<1>8. \A o \in Ops : HasWork(o) => HasWork(o)'
  BY <1>1, <1>3, ItemsStay DEF HasWork, Asked, OpensNothing
<1> QED
  BY <1>1, <1>3, <1>5, <1>6, <1>7, <1>8, JobsKept

LEMMA RecJobs ==
    ASSUME TypeInv, SentInv, JobInv,
           \/ RecRead \/ RecReopen \/ RecEnqueue \/ RecDies
           \/ \E k \in rec.todo : RecSkip(k) \/ RecGiveUp(k) \/ RecClaim(k)
    PROVE  JobInv'
<1>0. /\ rec \in Rec /\ (rec.pc # "next" => rec.item \in Items)
      /\ \A k \in rec.todo : k.item \in Items
      /\ Nobody \notin Items
      /\ form \in [Ops -> Form]
  BY OperationAssumption DEF TypeInv, RecFits, Rec, FormsFit
\* The cron looks at a candidate and queues nothing.
<1>1. ASSUME OpensNothing, UNCHANGED <<form, worker, queue, op, faults>>,
             rec.pc = "next", rec'.pc = "next", rec'.item = rec.item
      PROVE  JobInv'
  <2>1. rec.item = Nobody
    BY <1>1 DEF JobInv, Held
  <2>2. Held'
    BY <1>0, <1>1, <2>1 DEF JobInv, Held, OpensNothing, Form
  <2>3. \A i \in Items : HasJob(i) => HasJob(i)'
    BY <1>1 DEF HasJob, Queued, WorkingOn
  <2>4. \A o \in Ops : HasWork(o) => HasWork(o)'
    BY <1>1, ItemsStay DEF HasWork, Asked, OpensNothing
  <2> QED
    BY <1>1, <2>2, <2>3, <2>4, JobsKept
<1>2. CASE RecRead
  <2>1. rec'.pc = "next" /\ rec'.item = rec.item /\ rec.pc = "next"
    BY <1>0, <1>2 DEF RecRead, Rec
  <2> QED
    BY <1>1, <1>2, <2>1, QuietOpens DEF RecRead, RecFrame, rows, bounds
<1>3. ASSUME NEW k \in rec.todo
      PROVE  Without(k) \in Rec /\ Without(k).pc = rec.pc /\ Without(k).item = rec.item
  BY <1>0 DEF Without, Rec
<1>4. ASSUME NEW k \in rec.todo, RecSkip(k) PROVE JobInv'
  BY <1>1, <1>3, <1>4, QuietOpens DEF RecSkip, AtRec, RecFrame, rows, bounds
<1>5. ASSUME NEW k \in rec.todo, RecGiveUp(k) PROVE JobInv'
  <2>1. \A i \in Items : item'[i] = item[i] \/ item'[i].status = "FAILED"
    BY <1>5 DEF RecGiveUp, SetStatus, TypeInv, RowsFit, Item
  <2>2. OpensNothing
    BY <1>5, <2>1 DEF RecGiveUp, OpensNothing, Pending, Open
  <2> QED
    BY <1>1, <1>3, <1>5, <2>2 DEF RecGiveUp, AtRec, RecFrame, bounds
\* It claims an item: the item is PENDING and the cron has it in hand.
<1>6. ASSUME NEW k \in rec.todo, RecClaim(k) PROVE JobInv'
  <2>1. CASE item[k.item].status # "WAITING_PROVIDER_EVENT"
    <3>1. UNCHANGED <<form, worker, queue, op, item, faults>> /\ rec' = Without(k)
      BY <1>6, <2>1 DEF RecClaim, RecFrame, bounds
    <3>2. rec.pc = "next"
      BY <1>6 DEF RecClaim, AtRec
    <3> QED
      BY <1>1, <1>3, <3>1, <3>2, QuietOpens
  <2>2. CASE item[k.item].status = "WAITING_PROVIDER_EVENT"
    <3>1. rec.pc = "next" /\ rec.item = Nobody
      BY <1>6 DEF RecClaim, AtRec, JobInv, Held
    <3>2. rec'.pc = "reopen" /\ rec'.item = k.item
      BY <1>3, <1>6, <2>2 DEF RecClaim, Rec
    <3>3. UNCHANGED <<form, worker, queue, op, faults>>
      BY <1>6 DEF RecClaim, RecFrame, bounds
    <3>4. /\ item'[k.item].status = "PENDING"
          /\ \A i \in Items \ {k.item} : item'[i] = item[i]
      <4>1. SetStatus(k.item, "PENDING") /\ k.item \in Items
        BY <1>0, <1>6, <2>2 DEF RecClaim
      <4>2. item \in [Items -> Item]
        BY DEF TypeInv, RowsFit
      <4> QED
        BY <4>1, <4>2 DEF SetStatus, Item
    <3>5. \A i \in Items : item[i].status # "NONE" => item'[i].status # "NONE"
      BY <3>4
    <3>6. Held'
      BY <1>0, <3>2, <3>3, <3>4, <3>5 DEF JobInv, Held, Form
    <3>7. ASSUME faults = 0, NEW i \in Items, Pending(i)' PROVE HasJob(i)'
      <4>1. CASE i = k.item
        BY <3>2, <4>1 DEF HasJob, Queued
      <4>2. CASE i # k.item
        <5>1. HasJob(i)
          BY <3>4, <3>7, <4>2 DEF Pending, JobInv, NoneLeft
        <5> QED
          BY <1>0, <3>1, <3>3, <5>1 DEF HasJob, Queued, WorkingOn
      <4> QED
        BY <4>1, <4>2
    <3>8. ASSUME faults = 0, NEW o \in Ops, Open(o)' PROVE HasWork(o)'
      <4>1. HasWork(o)
        BY <3>3, <3>8 DEF Open, JobInv, NoneLeft
      <4> QED
        BY <3>1, <3>3, <3>5, <4>1, ItemsStay DEF HasWork, Asked
    <3>9. ASSUME faults = 0, NEW i \in Items, op'[OpOf[i]] = "CANCELLED", Pending(i)'
          PROVE  rec'.pc = "reopen" /\ rec'.item = i
      <4>1. CASE i = k.item
        BY <3>2, <4>1
      <4>2. CASE i # k.item
        BY <3>1, <3>3, <3>4, <3>9, <4>2 DEF Pending, JobInv, NoneLeft
      <4> QED
        BY <4>1, <4>2
    <3> QED
      BY <3>3, <3>6, <3>7, <3>8, <3>9 DEF JobInv, NoneLeft
  <2> QED
    BY <2>1, <2>2
<1>7. CASE RecReopen
  <2>1. rec'.pc = "enqueue" /\ rec'.item = rec.item /\ rec.pc = "reopen"
    BY <1>0, <1>7 DEF RecReopen, Rec
  <2>2. UNCHANGED <<form, worker, queue, item, faults>>
    BY <1>7 DEF RecReopen, RecFrame, bounds
  <2>3. /\ op'[OpOf[rec.item]] = "PENDING"
        /\ \A o \in Ops \ {OpOf[rec.item]} : op'[o] = op[o]
    BY <1>0, <1>7, <2>1, NamesFit DEF RecReopen, TypeInv, RowsFit
  <2>4. Held'
    BY <1>0, <2>1, <2>2 DEF JobInv, Held, Form
  <2>5. \A i \in Items : HasJob(i) => HasJob(i)'
    BY <2>1, <2>2 DEF HasJob, Queued, WorkingOn
  <2>6. ASSUME faults = 0, NEW o \in Ops, Open(o)' PROVE HasWork(o)'
    <3>1. CASE o = OpOf[rec.item]
      BY <1>0, <2>1, <3>1 DEF HasWork, Asked
    <3>2. CASE o # OpOf[rec.item]
      <4>1. HasWork(o)
        BY <2>3, <2>6, <3>2 DEF Open, JobInv, NoneLeft
      <4> QED
        BY <2>1, <2>2, <4>1 DEF HasWork, Asked, ItemsOf
    <3> QED
      BY <3>1, <3>2
  <2>7. ASSUME faults = 0, NEW i \in Items, op'[OpOf[i]] = "CANCELLED", Pending(i)' PROVE FALSE
    <3>1. OpOf[i] # OpOf[rec.item] /\ op[OpOf[i]] = "CANCELLED" /\ Pending(i)
      BY <2>2, <2>3, <2>7, NamesFit DEF Pending
    <3> QED
      BY <2>7, <3>1 DEF JobInv, NoneLeft
  <2> QED
    BY <2>2, <2>4, <2>5, <2>6, <2>7 DEF JobInv, NoneLeft, Pending
<1>8. CASE RecEnqueue
  <2>1. rec'.pc = "next" /\ rec'.item = Nobody /\ rec.pc = "enqueue" /\ rec.item \in Items
    BY <1>0, <1>8 DEF RecEnqueue, Rec
  <2>2. UNCHANGED <<form, worker, op, item, faults>>
    BY <1>8 DEF RecEnqueue, RecFrame, rows, bounds
  <2>3. queue'[rec.item] > 0 /\ \A i \in Items \ {rec.item} : queue'[i] = queue[i]
    <3>1. queue[rec.item] \in Nat
      BY <2>1 DEF TypeInv, QueueFits
    <3>2. /\ queue'[rec.item] = queue[rec.item] + 1
          /\ \A i \in Items \ {rec.item} : queue'[i] = queue[i]
      BY <1>8, <2>1 DEF RecEnqueue, TypeInv, QueueFits
    <3> QED
      BY <3>1, <3>2
  <2>4. Held'
    BY <1>0, <2>1, <2>2 DEF JobInv, Held, Form
  <2>5. \A i \in Items : HasJob(i) => HasJob(i)'
    BY <2>2, <2>3 DEF HasJob, Queued, WorkingOn
  <2>6. \A o \in Ops : HasWork(o) => HasWork(o)'
    <3> SUFFICES ASSUME NEW o \in Ops, HasWork(o) PROVE HasWork(o)'
      OBVIOUS
    <3>1. CASE OpOf[rec.item] = o
      <4>1. rec.item \in ItemsOf(o)
        BY <2>1, <3>1 DEF ItemsOf, JobInv, Held
      <4>2. \E i \in ItemsOf(o)' : queue'[i] > 0
        BY <2>2, <2>3, <4>1 DEF ItemsOf
      <4> QED
        BY <4>2 DEF HasWork, Asked
    <3>2. CASE OpOf[rec.item] # o
      BY <2>2, <2>3, <3>2 DEF HasWork, Asked, ItemsOf
    <3> QED
      BY <3>1, <3>2
  <2> QED
    BY <2>1, <2>2, <2>4, <2>5, <2>6, JobsKept, QuietOpens
<1>9. CASE RecDies
  <2>1. rec'.pc = "next" /\ rec'.item = Nobody
    BY <1>9 DEF RecDies, IdleRec
  <2>2. Held'
    BY <1>0, <1>9, <2>1 DEF RecDies, RecFrame, rows, JobInv, Held, Form
  <2> QED
    BY <1>9, <2>2, FaultJobs DEF RecDies
<1> QED
  BY <1>2, <1>4, <1>5, <1>6, <1>7, <1>8, <1>9

LEMMA JobNext == TypeInv /\ SentInv /\ JobInv /\ [Next]_vars => JobInv'
<1> SUFFICES ASSUME TypeInv, SentInv, JobInv, [Next]_vars PROVE JobInv'
  OBVIOUS
<1>1. CASE UNCHANGED vars
  BY <1>1 DEF vars, JobInv, Held, NoneLeft, Pending, Open, HasJob, Queued, HasWork, Asked,
         ItemsOf, WorkingOn
<1>2. CASE Next
  BY <1>2, FormJobs, WorkersJobs, HooksJobs, RecJobs DEF Next
<1> QED
  BY <1>1, <1>2

LEMMA Jobs == Spec => []JobInv
  BY TypeInit, TypeNext, SentInit, SentNext, JobInit, JobNext, PTL DEF Spec

\* The queue and the cron of removals: while nothing fails, an item that is PENDING
\* has somebody who will take it up, whatever is cancelled or repeated meanwhile.
THEOREM PendingsHaveJobs == Spec => []PendingHasJob
<1>1. JobInv => PendingHasJob
  BY DEF JobInv, NoneLeft, PendingHasJob, Pending, HasJob, Queued
<1> QED
  BY <1>1, Jobs, PTL

\* updateOperationStatusIfComplete: while nothing fails, an operation that is PENDING
\* or PROCESSING has work left, so of two workers that end at once one closes it.
THEOREM OpensHaveWork == Spec => []OpenHasWork
<1>1. JobInv => OpenHasWork
  BY DEF JobInv, NoneLeft, OpenHasWork, Open, HasWork, Asked
<1> QED
  BY <1>1, Jobs, PTL
=============================================================================
