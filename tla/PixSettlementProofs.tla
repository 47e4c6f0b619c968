------------------------ MODULE PixSettlementProofs ------------------------
(***************************************************************************)
(* What holds of PixSettlement for every number of charges, contracts,     *)
(* deliveries, cycles and resynchronisations, every batch size and every   *)
(* number of faults.                                                       *)
(***************************************************************************)
EXTENDS PixSettlement, TLAPS

\* A process that works on a charge has one, and the counter of interactions
\* still to record is in step with where the delivery is.
WorkingWebhook(r) ==
    /\ r.pc # "idle" => r.charge \in Charges
    /\ r.pc \in {"dedup", "find", "lock", "refetch", "event"} => r.notes = 0
    /\ r.pc \in {"ensure", "create"} => r.notes \in {0, 1}
    /\ r.pc \in {"note", "noteCreate"} => r.notes \in {1, 2}
WorkingCycle(r) ==
    r.pc \in {"lock", "event", "find", "settle"} => r.charge \in Charges \cap r.todo
WorkingSync(r) == r.pc # "idle" => r.charge \in Charges

Working == /\ \A w \in Webhooks : WorkingWebhook(wh[w])
           /\ \A j \in Cycles : WorkingCycle(job[j])
           /\ \A s \in Syncs : WorkingSync(sync[s])

TypeInv == TypeOK /\ Working

-----------------------------------------------------------------------------
(* The shape of rows and of processes *)

USE DEF Row, NoRow, NoCharge, Open, Status

\* The three names of a payment are keys, and tell which charge they name.
LEMMA KeyType ==
    ASSUME NEW c \in Charges
    PROVE  E2E(c) \in Key /\ TXID(c) \in Key /\ ID(c) \in Key
BY DEF Key, E2E, TXID, ID

\* A versioned update leaves well-formed rows.
LEMMA MoveToType ==
    ASSUME charge \in [Charges -> Row], NEW c \in Charges, NEW s \in Status, MoveTo(c, s)
    PROVE  charge' \in [Charges -> Row]
BY DEF MoveTo

\* take: n cuts a query's result short and adds nothing to it.
LEMMA FirstNType == ASSUME NEW S, NEW n PROVE FirstN(S, n) \subseteq S
BY DEF FirstN

\* A query adds well-formed rows to those a cycle holds.
LEMMA ReadType ==
    ASSUME charge \in [Charges -> Row], NEW held \in [Charges -> Row], NEW S
    PROVE  Read(held, S) \in [Charges -> Row]
BY DEF Read

\* The settlements of a charge are settlements.
LEMMA SettledByType == \A c : SettledBy(c) \subseteq settlements
BY DEF SettledBy

\* The comparison of the projection is a Boolean.
LEMMA CoversType == \A S, t : Covers(S, t) \in BOOLEAN
BY DEF Covers

\* What mapBbStatusToChargeStatus can return.
LEMMA AnswerType == \A c : Answer(c) \in {"PAID", "CANCELLED", "ISSUED"}
BY DEF Answer

\* What reconcileCharge can choose is a status.
LEMMA TransitionType ==
    ASSUME NEW row, NEW late, NEW a
    PROVE  Transition(row, late, a) \subseteq Status
BY DEF Transition

\* Leaving a charge leaves a well-typed cycle.
LEMMA FinishChargeType ==
    ASSUME job \in [Cycles -> Cycle], NEW j \in Cycles, NEW c, FinishCharge(j, c)
    PROVE  /\ job' \in [Cycles -> Cycle]
           /\ \A i \in Cycles \ {j} : job'[i] = job[i]
           /\ job'[j].pc \in {"idle", "next"}
<1>1. IdleCycle \in Cycle
  BY DEF IdleCycle, Cycle
<1>2. CASE job[j].todo \subseteq {c}
  <2>1. job' = [job EXCEPT ![j] = IdleCycle]
    BY <1>2 DEF FinishCharge
  <2>2. QED
    BY <1>1, <2>1 DEF IdleCycle
<1>3. CASE ~(job[j].todo \subseteq {c})
  <2> DEFINE r == [job[j] EXCEPT !.pc = "next", !.todo = job[j].todo \ {c},
                                 !.charge = NoCharge, !.target = "PENDING",
                                 !.won = FALSE]
  <2>1. r \in Cycle /\ r.pc = "next"
    BY ZenonT(60) DEF Cycle
  <2>2. job' = [job EXCEPT ![j] = r]
    BY <1>3 DEF FinishCharge
  <2> HIDE DEF r
  <2>3. QED
    BY <2>1, <2>2
<1>4. QED
  BY <1>2, <1>3

-----------------------------------------------------------------------------
(* Type correctness *)

\* The initial states are well typed.
LEMMA TypeInit == Init => TypeInv
<1> SUFFICES ASSUME Init PROVE TypeInv
  OBVIOUS
<1>1. TypeOK
  BY BoundsAssumption DEF Init, TypeOK, IdleWebhook, IdleCycle, IdleSync, Webhook, Cycle,
     Sync, Key, Event
<1>2. Working
  BY DEF Init, Working, WorkingWebhook, WorkingCycle, WorkingSync, IdleWebhook, IdleCycle, IdleSync
<1>3. QED
  BY <1>1, <1>2 DEF TypeInv

\* The bank and the clock leave everything well typed.
LEMMA TypeEnvironment == TypeInv /\ Environment => TypeInv'
<1> SUFFICES ASSUME TypeInv, NEW c \in Charges,
                    BankRegister(c) \/ BankPay(c) \/ BankRemove(c) \/ Expire(c)
             PROVE  TypeInv'
  BY DEF Environment
<1>1. UNCHANGED <<rows, procs, faults>>
  BY DEF BankRegister, BankPay, BankRemove, Expire
<1>2. /\ overdue' \subseteq Charges
      /\ cob' \in [Charges -> {"NONE", "ATIVA", "CONCLUIDA", "REMOVIDA"}]
  BY DEF BankRegister, BankPay, BankRemove, Expire, TypeInv, TypeOK
<1>3. QED
  BY <1>1, <1>2 DEF TypeInv, TypeOK, Working, rows, procs

\* What every table holds after a step of a process, whichever it is.
TablesTyped ==
    /\ charge \in [Charges -> Row]
    /\ settlements \subseteq Key
    /\ events \subseteq Event
    /\ interactions \in [Key -> Nat]
    /\ contract \in [Contracts -> [paid : BOOLEAN, counted : SUBSET Key]]
    /\ removals \subseteq Contracts

\* A step of one delivery that leaves a well-typed record in its place.
LEMMA WebhookFrame ==
    ASSUME TypeInv, NEW w \in Webhooks, NEW r \in Webhook, WorkingWebhook(r),
           wh' = [wh EXCEPT ![w] = r], TablesTyped', UNCHANGED <<bank, job, sync>>,
           faults' \in 0..MaxFaults
    PROVE  TypeInv'
<1>1. TypeOK'
  BY DEF TypeInv, TypeOK, TablesTyped, bank
<1>2. \A v \in Webhooks : WorkingWebhook(wh'[v])
  BY DEF TypeInv, TypeOK, Working
<1>3. QED
  BY <1>1, <1>2 DEF TypeInv, Working, WorkingWebhook, WorkingCycle, WorkingSync

\* Counting one interaction down leaves a well-typed delivery.
LEMMA NotedType ==
    ASSUME NEW w \in Webhooks, wh[w] \in Webhook, wh[w].notes \in {1, 2},
           wh[w].charge \in Charges
    PROVE  Noted(w) \in Webhook /\ WorkingWebhook(Noted(w))
<1>1. CASE wh[w].notes = 1
  <2>1. Noted(w) = [wh[w] EXCEPT !.pc = "done", !.notes = 0]
    BY <1>1 DEF Noted, NotePc
  <2>2. QED
    BY <2>1 DEF Webhook, WorkingWebhook
<1>2. CASE wh[w].notes = 2
  <2>1. Noted(w) = [wh[w] EXCEPT !.pc = "note", !.notes = 1]
    BY <1>2 DEF Noted, NotePc
  <2>2. QED
    BY <2>1 DEF Webhook, WorkingWebhook
<1>3. QED
  BY <1>1, <1>2

\* Every step of a delivery keeps the types.
LEMMA TypeWebhook ==
    ASSUME TypeInv, NEW w \in Webhooks, WebhookStep(w)
    PROVE  TypeInv'
<1> DEFINE booked == E2E(wh[w].charge) \in settlements
           noted == interactions[E2E(wh[w].charge)] > 0
<1>0. /\ wh \in [Webhooks -> Webhook] /\ wh[w] \in Webhook /\ WorkingWebhook(wh[w])
      /\ TablesTyped /\ faults \in 0..MaxFaults
  BY DEF TypeInv, TypeOK, Working, TablesTyped
<1>1. ASSUME DedupLookup(w) PROVE TypeInv'
  <2> DEFINE r == IF booked THEN [wh[w] EXCEPT !.pc = "note", !.notes = 1]
           ELSE [wh[w] EXCEPT !.pc = "find"]
  <2>1. wh' = [wh EXCEPT ![w] = r]
    BY <1>0, <1>1 DEF DedupLookup, ToWebhook
  <2>2. r \in Webhook /\ WorkingWebhook(r)
    BY <1>0, <1>1 DEF DedupLookup, Webhook, WorkingWebhook, TablesTyped
  <2> HIDE DEF r
  <2>3. TablesTyped' /\ UNCHANGED <<bank, job, sync, faults>>
    BY <1>0, <1>1 DEF DedupLookup, WebhookUnchanged, rows, TablesTyped, Webhook,
       WorkingWebhook
  <2>4. QED
    BY <1>0, <2>1, <2>2, <2>3, WebhookFrame
<1>2. ASSUME FindCharge(w) PROVE TypeInv'
  <2> DEFINE r == [wh[w] EXCEPT !.row = charge[wh[w].charge],
                              !.pc = IF charge[wh[w].charge].status = "PAID"
                                     THEN "ensure" ELSE "lock"]
  <2>1. wh' = [wh EXCEPT ![w] = r]
    BY <1>0, <1>2 DEF FindCharge, ToWebhook
  <2>2. r \in Webhook /\ WorkingWebhook(r)
    BY <1>0, <1>2 DEF FindCharge, Webhook, WorkingWebhook, TablesTyped
  <2> HIDE DEF r
  <2>3. TablesTyped' /\ UNCHANGED <<bank, job, sync, faults>>
    BY <1>0, <1>2 DEF FindCharge, WebhookUnchanged, rows, TablesTyped, Webhook,
       WorkingWebhook
  <2>4. QED
    BY <1>0, <2>1, <2>2, <2>3, WebhookFrame
<1>3. ASSUME LockPaid(w) PROVE TypeInv'
  <2> DEFINE r == [wh[w] EXCEPT !.pc = IF VersionMatches(wh[w].charge, wh[w].row)
                                     THEN "event" ELSE "refetch"]
  <2>1. wh' = [wh EXCEPT ![w] = r]
    BY <1>0, <1>3 DEF LockPaid, ToWebhook, VersionMatches
  <2>2. r \in Webhook /\ WorkingWebhook(r)
    BY <1>0, <1>3 DEF LockPaid, Webhook, WorkingWebhook, TablesTyped
  <2> HIDE DEF r
  <2>3. TablesTyped' /\ UNCHANGED <<bank, job, sync, faults>>
    BY <1>0, <1>3, MoveToType DEF LockPaid, WebhookUnchanged, rows, TablesTyped, Webhook,
       WorkingWebhook
  <2>4. QED
    BY <1>0, <2>1, <2>2, <2>3, WebhookFrame
<1>4. ASSUME Refetch(w) PROVE TypeInv'
  <2> DEFINE r == [wh[w] EXCEPT !.pc = IF charge[wh[w].charge].status = "PAID"
                                     THEN "ensure" ELSE "done"]
  <2>1. wh' = [wh EXCEPT ![w] = r]
    BY <1>0, <1>4 DEF Refetch, ToWebhook
  <2>2. r \in Webhook /\ WorkingWebhook(r)
    BY <1>0, <1>4 DEF Refetch, Webhook, WorkingWebhook, TablesTyped
  <2> HIDE DEF r
  <2>3. TablesTyped' /\ UNCHANGED <<bank, job, sync, faults>>
    BY <1>0, <1>4 DEF Refetch, WebhookUnchanged, rows, TablesTyped, Webhook,
       WorkingWebhook
  <2>4. QED
    BY <1>0, <2>1, <2>2, <2>3, WebhookFrame
<1>5. ASSUME WebhookEvent(w) PROVE TypeInv'
  <2> DEFINE r == [wh[w] EXCEPT !.pc = "ensure", !.notes = 1]
  <2>1. wh' = [wh EXCEPT ![w] = r]
    BY <1>0, <1>5 DEF WebhookEvent, ToWebhook
  <2>2. r \in Webhook /\ WorkingWebhook(r)
    BY <1>0, <1>5 DEF WebhookEvent, Webhook, WorkingWebhook, TablesTyped
  <2> HIDE DEF r
  <2>3. TablesTyped' /\ UNCHANGED <<bank, job, sync, faults>>
    BY <1>0, <1>5 DEF WebhookEvent, WebhookUnchanged, rows, TablesTyped, Webhook,
       WorkingWebhook, WriteEvent, Event
  <2>4. QED
    BY <1>0, <2>1, <2>2, <2>3, WebhookFrame
<1>6. ASSUME EnsureLookup(w) PROVE TypeInv'
  <2> DEFINE more == wh[w].notes + 1
             r == IF booked THEN [wh[w] EXCEPT !.pc = "total", !.notes = more]
           ELSE [wh[w] EXCEPT !.pc = "create"]
  <2>1. wh' = [wh EXCEPT ![w] = r]
    BY <1>0, <1>6 DEF EnsureLookup, ToWebhook
  <2>2. wh[w].notes \in {0, 1} /\ wh[w].charge \in Charges
    BY <1>0, <1>6 DEF EnsureLookup, WorkingWebhook
  <2>3. more \in {1, 2}
    BY <2>2
  <2> HIDE DEF more
  <2>4. r \in Webhook /\ WorkingWebhook(r)
    BY <1>0, <2>2, <2>3 DEF Webhook, WorkingWebhook, TablesTyped
  <2> HIDE DEF r
  <2>5. TablesTyped' /\ UNCHANGED <<bank, job, sync, faults>>
    BY <1>0, <1>6 DEF EnsureLookup, WebhookUnchanged, rows, TablesTyped, Webhook,
       WorkingWebhook
  <2>6. QED
    BY <1>0, <2>1, <2>4, <2>5, WebhookFrame
<1>7. ASSUME CreateSettlement(w) PROVE TypeInv'
  <2> DEFINE more == wh[w].notes + 1
             r == IF booked THEN [wh[w] EXCEPT !.pc = "total"]
           ELSE [wh[w] EXCEPT !.pc = "total", !.notes = more]
  <2>1. wh' = [wh EXCEPT ![w] = r]
    BY <1>0, <1>7 DEF CreateSettlement, ToWebhook
  <2>2. wh[w].notes \in {0, 1} /\ wh[w].charge \in Charges
    BY <1>0, <1>7 DEF CreateSettlement, WorkingWebhook
  <2>3. more \in {1, 2}
    BY <2>2
  <2> HIDE DEF more
  <2>4. r \in Webhook /\ WorkingWebhook(r)
    BY <1>0, <2>2, <2>3 DEF Webhook, WorkingWebhook, TablesTyped
  <2> HIDE DEF r
  <2>5. TablesTyped' /\ UNCHANGED <<bank, job, sync, faults>>
    BY <1>0, <1>7, KeyType DEF CreateSettlement, WebhookUnchanged, rows, TablesTyped, Webhook,
       WorkingWebhook
  <2>6. QED
    BY <1>0, <2>1, <2>4, <2>5, WebhookFrame
<1>8. ASSUME ReadTotal(w) PROVE TypeInv'
  <2>1. PICK full \in BOOLEAN :
           wh' = [wh EXCEPT ![w] = [@ EXCEPT !.pc = "project",
                    !.counted = ContractSettlements(ContractOf[wh[w].charge]),
                    !.full = full]]
    BY <1>8, CoversType DEF ReadTotal
  <2> DEFINE r == [wh[w] EXCEPT !.pc = "project",
                      !.counted = ContractSettlements(ContractOf[wh[w].charge]),
                      !.full = full]
  <2>2. wh' = [wh EXCEPT ![w] = r]
    BY <2>1
  <2>3. r \in Webhook /\ WorkingWebhook(r)
    BY <1>0, <1>8 DEF ReadTotal, Webhook, WorkingWebhook, TablesTyped, ContractSettlements
  <2> HIDE DEF r
  <2>4. TablesTyped' /\ UNCHANGED <<bank, job, sync, faults>>
    BY <1>0, <1>8 DEF ReadTotal, WebhookUnchanged, rows, TablesTyped
  <2>5. QED
    BY <1>0, <2>2, <2>3, <2>4, WebhookFrame
<1>9. ASSUME WriteProjection(w) PROVE TypeInv'
  <2> DEFINE r == [wh[w] EXCEPT !.pc = IF wh[w].full THEN "remove" ELSE NotePc(wh[w].notes)]
  <2>1. wh' = [wh EXCEPT ![w] = r]
    BY <1>0, <1>9 DEF WriteProjection, ToWebhook
  <2>2. r \in Webhook /\ WorkingWebhook(r)
    BY <1>0, <1>9 DEF WriteProjection, Webhook, WorkingWebhook, TablesTyped, NotePc
  <2> HIDE DEF r
  <2>3. TablesTyped' /\ UNCHANGED <<bank, job, sync, faults>>
    BY <1>0, <1>9, ContractAssumption DEF WriteProjection, WebhookUnchanged, rows, TablesTyped, Webhook,
       WorkingWebhook
  <2>4. QED
    BY <1>0, <2>1, <2>2, <2>3, WebhookFrame
<1>10. ASSUME RequestRemoval(w) PROVE TypeInv'
  <2> DEFINE r == [wh[w] EXCEPT !.pc = NotePc(wh[w].notes)]
  <2>1. wh' = [wh EXCEPT ![w] = r]
    BY <1>0, <1>10 DEF RequestRemoval, ToWebhook
  <2>2. r \in Webhook /\ WorkingWebhook(r)
    BY <1>0, <1>10 DEF RequestRemoval, Webhook, WorkingWebhook, TablesTyped, NotePc
  <2> HIDE DEF r
  <2>3. TablesTyped' /\ UNCHANGED <<bank, job, sync, faults>>
    BY <1>0, <1>10, ContractAssumption DEF RequestRemoval, WebhookUnchanged, rows, TablesTyped, Webhook,
       WorkingWebhook
  <2>4. QED
    BY <1>0, <2>1, <2>2, <2>3, WebhookFrame
<1>11. ASSUME NoteLookup(w) PROVE TypeInv'
  <2> DEFINE r == IF noted THEN Noted(w) ELSE [wh[w] EXCEPT !.pc = "noteCreate"]
  <2>1. wh' = [wh EXCEPT ![w] = r]
    BY <1>0, <1>11 DEF NoteLookup, ToWebhook
  <2>2. r \in Webhook /\ WorkingWebhook(r)
    BY <1>0, <1>11, NotedType DEF NoteLookup, Webhook, WorkingWebhook, TablesTyped
  <2> HIDE DEF r
  <2>3. TablesTyped' /\ UNCHANGED <<bank, job, sync, faults>>
    BY <1>0, <1>11 DEF NoteLookup, WebhookUnchanged, rows, TablesTyped, Webhook,
       WorkingWebhook
  <2>4. QED
    BY <1>0, <2>1, <2>2, <2>3, WebhookFrame
<1>12. ASSUME NoteCreate(w) PROVE TypeInv'
  <2> DEFINE r == Noted(w)
  <2>1. wh' = [wh EXCEPT ![w] = r]
    BY <1>0, <1>12 DEF NoteCreate, ToWebhook
  <2>2. r \in Webhook /\ WorkingWebhook(r)
    BY <1>0, <1>12, NotedType DEF NoteCreate, Webhook, WorkingWebhook, TablesTyped
  <2> HIDE DEF r
  <2>3. TablesTyped' /\ UNCHANGED <<bank, job, sync, faults>>
    BY <1>0, <1>12, KeyType DEF NoteCreate, WebhookUnchanged, rows, TablesTyped, Webhook,
       WorkingWebhook, CountInteraction
  <2>4. QED
    BY <1>0, <2>1, <2>2, <2>3, WebhookFrame
<1> QED
  BY <1>1, <1>2, <1>3, <1>4, <1>5, <1>6, <1>7, <1>8, <1>9, <1>10, <1>11, <1>12
     DEF WebhookStep

\* So does a delivery that arrives.
LEMMA TypeDeliver ==
    ASSUME TypeInv, NEW w \in Webhooks, NEW c \in Charges, Deliver(w, c)
    PROVE  TypeInv'
<1> DEFINE r == [IdleWebhook EXCEPT !.pc = "dedup", !.charge = c]
<1>1. wh' = [wh EXCEPT ![w] = r]
  BY DEF Deliver
<1>2. r \in Webhook /\ WorkingWebhook(r)
  BY DEF IdleWebhook, Webhook, WorkingWebhook
<1> HIDE DEF r
<1>3. TablesTyped' /\ UNCHANGED <<bank, job, sync, faults>> /\ faults \in 0..MaxFaults
  BY DEF Deliver, WebhookUnchanged, rows, TablesTyped, TypeInv, TypeOK
<1>4. QED
  BY <1>1, <1>2, <1>3, WebhookFrame

\* A step of one cycle that leaves a well-typed record in its place.
LEMMA CycleFrame ==
    ASSUME TypeInv, NEW j \in Cycles, job' \in [Cycles -> Cycle],
           \A i \in Cycles \ {j} : job'[i] = job[i], WorkingCycle(job'[j]),
           TablesTyped', UNCHANGED <<bank, wh, sync>>, faults' \in 0..MaxFaults
    PROVE  TypeInv'
<1>1. TypeOK'
  BY DEF TypeInv, TypeOK, TablesTyped, bank
<1>2. \A i \in Cycles : WorkingCycle(job'[i])
  BY DEF TypeInv, Working
<1>3. QED
  BY <1>1, <1>2 DEF TypeInv, Working, WorkingWebhook, WorkingCycle, WorkingSync

\* Every step of a job cycle keeps the types.
LEMMA TypeCycle ==
    ASSUME TypeInv, NEW j \in Cycles, CycleStep(j)
    PROVE  TypeInv'
<1>0. /\ job \in [Cycles -> Cycle] /\ job[j] \in Cycle /\ WorkingCycle(job[j])
      /\ TablesTyped /\ faults \in 0..MaxFaults /\ overdue \subseteq Charges
  BY DEF TypeInv, TypeOK, Working, TablesTyped
<1>1. ASSUME StartCycle(j) PROVE TypeInv'
  <2> DEFINE pending == FirstN({c \in Charges : charge[c].status = "PENDING"}, BatchSize)
             pc == IF Cardinality(pending) < BatchSize THEN "expired" ELSE "next"
             held == Read(IdleCycle.rows, pending)
             r == [IdleCycle EXCEPT !.pc = pc, !.todo = pending, !.late = overdue,
                                    !.rows = held]
  <2>1. pending \subseteq Charges
    BY FirstNType, Zenon
  <2>2. IdleCycle.rows \in [Charges -> Row]
    BY DEF IdleCycle
  <2>3. held \in [Charges -> Row]
    BY <1>0, <2>2, ReadType DEF TablesTyped
  <2>4. pc \in {"expired", "next"}
    OBVIOUS
  <2>5. job' = [job EXCEPT ![j] = r]
    BY <1>1 DEF StartCycle
  <2> HIDE DEF pending, pc, held
  <2>6. r \in Cycle /\ r.pc \in {"expired", "next"}
    BY <1>0, <2>1, <2>3, <2>4 DEF IdleCycle, Cycle
  <2> HIDE DEF r
  <2>7. /\ job' \in [Cycles -> Cycle] /\ WorkingCycle(job'[j])
        /\ \A i \in Cycles \ {j} : job'[i] = job[i]
    BY <1>0, <2>5, <2>6 DEF WorkingCycle
  <2>8. TablesTyped' /\ UNCHANGED <<bank, wh, sync, faults>>
    BY <1>0, <1>1 DEF StartCycle, JobUnchanged, rows, TablesTyped
  <2>9. QED
    BY <1>0, <2>7, <2>8, CycleFrame
<1>8. ASSUME ReadExpired(j) PROVE TypeInv'
  <2> DEFINE found == FirstN(Overdue(j), BatchSize - Cardinality(job[j].todo))
             todo == job[j].todo \cup found
             held == Read(job[j].rows, found)
             r == IF todo = {} THEN IdleCycle
                  ELSE [job[j] EXCEPT !.pc = "next", !.todo = todo, !.rows = held]
  <2>1. found \subseteq Overdue(j)
    BY FirstNType, Zenon
  <2>2. todo \subseteq Charges /\ job[j].rows \in [Charges -> Row]
    BY <1>0, <2>1 DEF Overdue, Cycle
  <2>3. held \in [Charges -> Row]
    BY <1>0, <2>2, ReadType DEF TablesTyped
  <2>4. job' = [job EXCEPT ![j] = r]
    BY <1>8 DEF ReadExpired
  <2> HIDE DEF todo, held
  <2>5. IdleCycle \in Cycle /\ IdleCycle.pc = "idle"
    BY DEF IdleCycle, Cycle
  <2>6. r \in Cycle /\ r.pc \in {"idle", "next"}
    BY <1>0, <2>2, <2>3, <2>5, ZenonT(60) DEF Cycle
  <2> HIDE DEF r
  <2>7. /\ job' \in [Cycles -> Cycle] /\ WorkingCycle(job'[j])
        /\ \A i \in Cycles \ {j} : job'[i] = job[i]
    BY <1>0, <2>4, <2>6 DEF WorkingCycle
  <2>8. TablesTyped' /\ UNCHANGED <<bank, wh, sync, faults>>
    BY <1>0, <1>8 DEF ReadExpired, JobUnchanged, rows, TablesTyped
  <2>9. QED
    BY <1>0, <2>7, <2>8, CycleFrame
<1>2. ASSUME NEW c \in Charges, JobFetch(j, c) PROVE TypeInv'
  <2> DEFINE move == Transition(job[j].rows[c], c \in job[j].late, Answer(c))
             To(target) == job' = [job EXCEPT ![j] = [job[j] EXCEPT
                                     !.pc = "lock", !.charge = c, !.target = target]]
  <2>0. FinishCharge(j, c) \/ \E target \in move : To(target)
    BY <1>2 DEF JobFetch
  <2>1. CASE FinishCharge(j, c)
    <3>1. TablesTyped' /\ UNCHANGED <<bank, wh, sync, faults>>
      BY <1>0, <1>2 DEF JobFetch, JobUnchanged, rows, TablesTyped
    <3>2. QED
      BY <1>0, <2>1, <3>1, FinishChargeType, CycleFrame DEF WorkingCycle
  <2>2. ASSUME NEW target \in move, To(target) PROVE TypeInv'
    <3>1. target \in Status
      BY TransitionType
    <3> DEFINE r == [job[j] EXCEPT !.pc = "lock", !.charge = c, !.target = target]
    <3>2. c \in job[j].todo
      BY <1>2 DEF JobFetch, IsNext
    <3>3. r \in Cycle /\ WorkingCycle(r)
      BY <1>0, <3>1, <3>2 DEF Cycle, WorkingCycle
    <3>4. job' = [job EXCEPT ![j] = r]
      BY <2>2
    <3> HIDE DEF r
    <3>5. TablesTyped' /\ UNCHANGED <<bank, wh, sync, faults>>
      BY <1>0, <1>2 DEF JobFetch, JobUnchanged, rows, TablesTyped
    <3>6. QED
      BY <1>0, <3>3, <3>4, <3>5, CycleFrame
  <2>3. QED
    BY <2>0, <2>1, <2>2
<1>3. ASSUME NEW c \in Charges, JobFetchFails(j, c) PROVE TypeInv'
  <2>1. TablesTyped' /\ UNCHANGED <<bank, wh, sync, faults>> /\ FinishCharge(j, c)
    BY <1>0, <1>3 DEF JobFetchFails, JobUnchanged, rows, TablesTyped
  <2>2. QED
    BY <1>0, <2>1, FinishChargeType, CycleFrame DEF WorkingCycle
<1>4. ASSUME JobLock(j) PROVE TypeInv'
  <2> DEFINE won == VersionMatches(job[j].charge, job[j].rows[job[j].charge])
             r == [job[j] EXCEPT !.pc = "event", !.won = won]
  <2>1. won \in BOOLEAN
    BY DEF VersionMatches
  <2>2. job' = [job EXCEPT ![j] = r]
    BY <1>4 DEF JobLock
  <2> HIDE DEF won
  <2>3. r \in Cycle /\ WorkingCycle(r)
    BY <1>0, <1>4, <2>1 DEF JobLock, Cycle, WorkingCycle
  <2> HIDE DEF r
  <2>4. job[j].charge \in Charges /\ job[j].target \in Status
    BY <1>0, <1>4 DEF JobLock, Cycle, WorkingCycle
  <2>5. TablesTyped' /\ UNCHANGED <<bank, wh, sync, faults>>
    BY <1>0, <1>4, <2>4, MoveToType DEF JobLock, JobUnchanged, TablesTyped
  <2>6. QED
    BY <1>0, <2>2, <2>3, <2>5, CycleFrame
<1>5. ASSUME JobEvent(j) PROVE TypeInv'
  <2>1. job[j].charge \in Charges /\ job[j].target \in Status
        /\ job[j].rows[job[j].charge] \in Row
    BY <1>0, <1>5 DEF JobEvent, Cycle, WorkingCycle
  <2>2. TablesTyped' /\ UNCHANGED <<bank, wh, sync, faults>>
    BY <1>0, <1>5, <2>1 DEF JobEvent, JobUnchanged, TablesTyped, WriteEvent, Event
  <2>3. CASE FinishCharge(j, job[j].charge)
    BY <1>0, <2>2, <2>3, FinishChargeType, CycleFrame DEF WorkingCycle
  <2>4. CASE job' = [job EXCEPT ![j].pc = "find"]
    <3> DEFINE r == [job[j] EXCEPT !.pc = "find"]
    <3>1. r \in Cycle /\ WorkingCycle(r)
      BY <1>0, <1>5 DEF JobEvent, Cycle, WorkingCycle
    <3>2. job' = [job EXCEPT ![j] = r]
      BY <2>4
    <3> HIDE DEF r
    <3>3. QED
      BY <1>0, <2>2, <3>1, <3>2, CycleFrame
  <2>5. QED
    BY <1>5, <2>3, <2>4 DEF JobEvent, AfterJobEvent
<1>6. ASSUME JobFindSettlement(j) PROVE TypeInv'
  <2>1. TablesTyped' /\ UNCHANGED <<bank, wh, sync, faults>>
    BY <1>0, <1>6 DEF JobFindSettlement, JobUnchanged, rows, TablesTyped
  <2>2. CASE FinishCharge(j, job[j].charge)
    BY <1>0, <2>1, <2>2, FinishChargeType, CycleFrame DEF WorkingCycle
  <2>3. CASE job' = [job EXCEPT ![j].pc = "settle"]
    <3> DEFINE r == [job[j] EXCEPT !.pc = "settle"]
    <3>1. r \in Cycle /\ WorkingCycle(r)
      BY <1>0, <1>6 DEF JobFindSettlement, Cycle, WorkingCycle
    <3>2. job' = [job EXCEPT ![j] = r]
      BY <2>3
    <3> HIDE DEF r
    <3>3. QED
      BY <1>0, <2>1, <3>1, <3>2, CycleFrame
  <2>4. QED
    BY <1>6, <2>2, <2>3 DEF JobFindSettlement
<1>7. ASSUME JobSettle(j) PROVE TypeInv'
  <2>1. TablesTyped' /\ UNCHANGED <<bank, wh, sync, faults>> /\ FinishCharge(j, job[j].charge)
    BY <1>0, <1>7, KeyType DEF JobSettle, JobUnchanged, TablesTyped, WorkingCycle
  <2>2. QED
    BY <1>0, <2>1, FinishChargeType, CycleFrame DEF WorkingCycle
<1>9. QED
  BY <1>1, <1>2, <1>3, <1>4, <1>5, <1>6, <1>7, <1>8 DEF CycleStep

\* A step of one resynchronisation that leaves a well-typed record in its place.
LEMMA SyncFrame ==
    ASSUME TypeInv, NEW s \in Syncs, NEW r \in Sync, WorkingSync(r),
           sync' = [sync EXCEPT ![s] = r], TablesTyped', UNCHANGED <<bank, wh, job>>,
           faults' \in 0..MaxFaults
    PROVE  TypeInv'
<1>1. TypeOK'
  BY DEF TypeInv, TypeOK, TablesTyped, bank
<1>2. \A t \in Syncs : WorkingSync(sync'[t])
  BY DEF TypeInv, TypeOK, Working
<1>3. QED
  BY <1>1, <1>2 DEF TypeInv, Working, WorkingWebhook, WorkingCycle, WorkingSync

\* ... and most of them only change where it is.
LEMMA ToSyncType ==
    ASSUME TypeInv, NEW s \in Syncs, sync[s].pc # "idle",
           NEW pc \in {"fetch", "write", "event", "find", "settle", "note", "noteCreate", "done"},
           ToSync(s, pc), TablesTyped', UNCHANGED <<bank, wh, job>>,
           faults' \in 0..MaxFaults
    PROVE  TypeInv'
<1> DEFINE r == [sync[s] EXCEPT !.pc = pc]
<1>1. sync' = [sync EXCEPT ![s] = r]
  BY DEF ToSync
<1>2. r \in Sync /\ WorkingSync(r)
  BY ZenonT(60) DEF TypeInv, TypeOK, Working, WorkingSync, Sync
<1> HIDE DEF r
<1>3. QED
  BY <1>1, <1>2, SyncFrame

\* Every step of a resynchronisation keeps the types.
LEMMA TypeSync ==
    ASSUME TypeInv, NEW s \in Syncs, SyncStep(s)
    PROVE  TypeInv'
<1>0. /\ sync \in [Syncs -> Sync] /\ sync[s] \in Sync
      /\ sync[s].pc # "idle" => sync[s].charge \in Charges
      /\ TablesTyped /\ faults \in 0..MaxFaults
  BY DEF TypeInv, TypeOK, Working, WorkingSync, TablesTyped
<1> USE DEF SyncUnchanged, rows
<1>1. ASSUME SyncFetch(s) PROVE TypeInv'
  <2> DEFINE r == [sync[s] EXCEPT !.pc = "write", !.answer = Answer(sync[s].charge)]
  <2>1. sync' = [sync EXCEPT ![s] = r]
    BY <1>1 DEF SyncFetch
  <2>2. Answer(sync[s].charge) \in Status
    BY AnswerType
  <2>3. r \in Sync /\ WorkingSync(r)
    BY <1>0, <1>1, <2>2 DEF SyncFetch, Sync, WorkingSync
  <2> HIDE DEF r
  <2>4. TablesTyped' /\ UNCHANGED <<bank, wh, job, faults>>
    BY <1>0, <1>1 DEF SyncFetch, TablesTyped
  <2>5. QED
    BY <1>0, <2>1, <2>3, <2>4, SyncFrame
<1>2. ASSUME SyncFetchFails(s) PROVE TypeInv'
  <2>1. TablesTyped' /\ UNCHANGED <<bank, wh, job, faults>>
    BY <1>0, <1>2 DEF SyncFetchFails, TablesTyped
  <2>2. QED
    BY <1>0, <1>2, <2>1, ToSyncType DEF SyncFetchFails
<1>3. ASSUME SyncWrite(s) PROVE TypeInv'
  <2>1. sync[s].charge \in Charges /\ sync[s].answer \in Status
    BY <1>0, <1>3 DEF SyncWrite, Sync
  <2>2. charge' \in [Charges -> Row]
    BY <1>0, <1>3, <2>1 DEF SyncWrite, TablesTyped
  <2>3. TablesTyped' /\ UNCHANGED <<bank, wh, job, faults>>
    BY <1>0, <1>3, <2>2 DEF SyncWrite, TablesTyped
  <2>4. QED
    BY <1>0, <1>3, <2>3, ToSyncType DEF SyncWrite
<1>4. ASSUME SyncEvent(s) PROVE TypeInv'
  <2>1. /\ sync[s].charge \in Charges /\ sync[s].answer \in Status
        /\ sync[s].row.status \in Status
    BY <1>0, <1>4 DEF SyncEvent, Sync
  <2>2. TablesTyped' /\ UNCHANGED <<bank, wh, job, faults>>
    BY <1>0, <1>4, <2>1 DEF SyncEvent, TablesTyped, WriteEvent, Event
  <2>3. QED
    BY <1>0, <1>4, <2>2, ToSyncType DEF SyncEvent, AfterSyncEvent
<1>5. ASSUME SyncFindSettlement(s) PROVE TypeInv'
  <2>1. TablesTyped' /\ UNCHANGED <<bank, wh, job, faults>>
    BY <1>0, <1>5 DEF SyncFindSettlement, TablesTyped
  <2>2. QED
    BY <1>0, <1>5, <2>1, ToSyncType DEF SyncFindSettlement
<1>6. ASSUME SyncSettle(s) PROVE TypeInv'
  <2>1. TablesTyped' /\ UNCHANGED <<bank, wh, job, faults>>
    BY <1>0, <1>6, KeyType DEF SyncSettle, TablesTyped
  <2>2. QED
    BY <1>0, <1>6, <2>1, ToSyncType DEF SyncSettle
<1>7. ASSUME SyncNoteLookup(s) PROVE TypeInv'
  <2>1. TablesTyped' /\ UNCHANGED <<bank, wh, job, faults>>
    BY <1>0, <1>7 DEF SyncNoteLookup, TablesTyped
  <2>2. QED
    BY <1>0, <1>7, <2>1, ToSyncType DEF SyncNoteLookup
<1>8. ASSUME SyncNoteCreate(s) PROVE TypeInv'
  <2>1. TablesTyped' /\ UNCHANGED <<bank, wh, job, faults>>
    BY <1>0, <1>8, KeyType DEF SyncNoteCreate, TablesTyped, CountInteraction
  <2>2. QED
    BY <1>0, <1>8, <2>1, ToSyncType DEF SyncNoteCreate
<1>9. QED
  BY <1>1, <1>2, <1>3, <1>4, <1>5, <1>6, <1>7, <1>8 DEF SyncStep

\* So does the request that starts one.
LEMMA TypeSyncRead ==
    ASSUME TypeInv, NEW s \in Syncs, NEW c \in Charges, SyncRead(s, c)
    PROVE  TypeInv'
<1> DEFINE r == [IdleSync EXCEPT !.pc = "fetch", !.charge = c, !.row = charge[c]]
<1>1. sync' = [sync EXCEPT ![s] = r]
  BY DEF SyncRead
<1>2. charge[c] \in Row
  BY DEF TypeInv, TypeOK
<1>3. r \in Sync /\ WorkingSync(r)
  BY <1>2 DEF IdleSync, Sync, WorkingSync
<1> HIDE DEF r
<1>4. TablesTyped' /\ UNCHANGED <<bank, wh, job, faults>> /\ faults \in 0..MaxFaults
  BY DEF SyncRead, SyncUnchanged, rows, TablesTyped, TypeInv, TypeOK
<1>5. QED
  BY <1>1, <1>3, <1>4, SyncFrame

\* A delivery that crashes or fails a call keeps the types.
LEMMA TypeWebhookFault ==
    ASSUME TypeInv, NEW w \in Webhooks, WebhookFault(w)
    PROVE  TypeInv'
<1>1. /\ wh[w] \in Webhook /\ wh[w].pc # "idle" /\ wh[w].charge \in Charges
      /\ TablesTyped' /\ UNCHANGED <<bank, job, sync>> /\ faults' \in 0..MaxFaults
  BY BoundsAssumption DEF WebhookFault, Fault, rows, TypeInv, TypeOK, Working, WorkingWebhook,
     TablesTyped
<1>2. CASE ToWebhook(w, "done")
  <2> DEFINE r == [wh[w] EXCEPT !.pc = "done"]
  <2>1. wh' = [wh EXCEPT ![w] = r]
    BY <1>2 DEF ToWebhook
  <2>2. r \in Webhook /\ WorkingWebhook(r)
    BY <1>1 DEF Webhook, WorkingWebhook
  <2> HIDE DEF r
  <2>3. QED
    BY <1>1, <2>1, <2>2, WebhookFrame
<1>3. CASE wh' = [wh EXCEPT ![w] = [wh[w] EXCEPT !.pc = "ensure", !.notes = 1]]
  <2> DEFINE r == [wh[w] EXCEPT !.pc = "ensure", !.notes = 1]
  <2>1. wh' = [wh EXCEPT ![w] = r]
    BY <1>3
  <2>2. r \in Webhook /\ WorkingWebhook(r)
    BY <1>1 DEF Webhook, WorkingWebhook
  <2> HIDE DEF r
  <2>3. QED
    BY <1>1, <2>1, <2>2, WebhookFrame
<1>4. QED
  BY <1>2, <1>3 DEF WebhookFault

\* A cycle that crashes or fails a call keeps the types.
LEMMA TypeCycleFault ==
    ASSUME TypeInv, NEW j \in Cycles, CycleFault(j)
    PROVE  TypeInv'
<1>1. /\ job \in [Cycles -> Cycle] /\ job[j] \in Cycle /\ WorkingCycle(job[j])
      /\ TablesTyped' /\ UNCHANGED <<bank, wh, sync>> /\ faults' \in 0..MaxFaults
  BY BoundsAssumption DEF CycleFault, Fault, rows, TypeInv, TypeOK, Working, TablesTyped
<1>2. CASE job' = [job EXCEPT ![j] = IdleCycle]
  <2>1. IdleCycle \in Cycle /\ WorkingCycle(IdleCycle)
    BY DEF IdleCycle, Cycle, WorkingCycle
  <2>2. QED
    BY <1>1, <1>2, <2>1, CycleFrame
<1>3. CASE FinishCharge(j, job[j].charge)
  BY <1>1, <1>3, FinishChargeType, CycleFrame DEF WorkingCycle
<1>4. CASE job[j].pc = "event" /\ job' = [job EXCEPT ![j].pc = "find"]
  <2> DEFINE r == [job[j] EXCEPT !.pc = "find"]
  <2>1. r \in Cycle /\ WorkingCycle(r)
    BY <1>1, <1>4 DEF Cycle, WorkingCycle
  <2>2. job' = [job EXCEPT ![j] = r]
    BY <1>4
  <2> HIDE DEF r
  <2>3. QED
    BY <1>1, <2>1, <2>2, CycleFrame
<1>5. QED
  BY <1>2, <1>3, <1>4 DEF CycleFault, AfterJobEvent

\* A resynchronisation that crashes or fails a call keeps the types.
LEMMA TypeSyncFault ==
    ASSUME TypeInv, NEW s \in Syncs, SyncFault(s)
    PROVE  TypeInv'
<1>1. /\ sync[s].pc # "idle" /\ TablesTyped' /\ UNCHANGED <<bank, wh, job>>
      /\ faults' \in 0..MaxFaults
  BY BoundsAssumption DEF SyncFault, Fault, rows, TypeInv, TypeOK, TablesTyped
<1>2. \E pc \in {"done", "find", "note"} : ToSync(s, pc)
  BY DEF SyncFault, AfterSyncEvent
<1>3. QED
  BY <1>1, <1>2, ToSyncType

\* Type correctness is inductive.
LEMMA TypeStep == TypeInv /\ [Next]_vars => TypeInv'
<1> SUFFICES ASSUME TypeInv, [Next]_vars PROVE TypeInv'
  OBVIOUS
<1>1. CASE UNCHANGED vars
  BY <1>1 DEF vars, TypeInv, TypeOK, Working, WorkingWebhook, WorkingCycle, WorkingSync
<1>2. CASE Next
  BY <1>2, TypeEnvironment, TypeWebhook, TypeWebhookFault, TypeDeliver, TypeCycle,
     TypeCycleFault, TypeSync, TypeSyncFault, TypeSyncRead DEF Next
<1>3. QED
  BY <1>1, <1>2

\* Every row the three writers of payment-charges, bb-pix-webhook and
\* charge-lifecycle leave behind is well formed, and none of them reaches a
\* database call without a charge, whatever they interleave with.
THEOREM TypeCorrect == Spec => []TypeInv /\ []TypeOK
<1>1. TypeInv => TypeOK
  BY DEF TypeInv
<1>2. QED
  BY <1>1, TypeInit, TypeStep, PTL DEF Spec

-----------------------------------------------------------------------------
(* No phantom payment.  A process that is about to write a payment holds a   *)
(* charge the bank has already reported as CONCLUIDA, which is final.        *)

Busy == {"lock", "event", "find", "settle"}

Backed ==
    /\ \A w \in Webhooks : wh[w].pc # "idle" => wh[w].charge \in BankPaid
    /\ \A j \in Cycles :
         /\ job[j].pc \in {"find", "settle"} => job[j].target = "PAID"
         /\ job[j].pc \in Busy /\ job[j].target = "PAID" => job[j].charge \in BankPaid
    /\ \A s \in Syncs :
         /\ sync[s].pc \in {"find", "settle"} => sync[s].answer = "PAID"
         /\ sync[s].pc \notin {"idle", "fetch", "done"} /\ sync[s].answer = "PAID"
               => sync[s].charge \in BankPaid

\* A step that books payments books those of the charges in S only.
Books(S) ==
    /\ \A c \in Charges : charge'[c].status = "PAID" => charge[c].status = "PAID" \/ c \in S
    /\ \A k \in settlements' : k \in settlements \/ k.charge \in S
    /\ \A e \in events' : e.to = "PAID" => e \in events \/ e.charge \in S
    /\ \A k \in Contracts : contract'[k].paid \/ k \in removals'
          => contract[k].paid \/ k \in removals \/ \E c \in S : ContractOf[c] = k

PhantomInv == TypeInv /\ Backed /\ NoPhantomPayment

\* What is booked for charges the bank has been paid for is not phantom.
LEMMA BooksBacked ==
    ASSUME NoPhantomPayment, NEW S, S \subseteq BankPaid, Books(S), BankPaid \subseteq BankPaid'
    PROVE  NoPhantomPayment'
<1>1. \A c \in Charges : charge'[c].status = "PAID" => c \in BankPaid'
  BY DEF Books, NoPhantomPayment
<1>2. Settled' \subseteq BankPaid'
  BY DEF Books, NoPhantomPayment, Settled, SettledBy
<1>3. \A e \in events' : e.to = "PAID" => e.charge \in BankPaid'
  BY DEF Books, NoPhantomPayment
<1>4. \A k \in Contracts : contract'[k].paid \/ k \in removals'
                            => ChargesOf(k) \cap BankPaid' # {}
  <2>1. \A k \in Contracts : contract[k].paid \/ k \in removals
                              => ChargesOf(k) \cap BankPaid # {}
    BY DEF NoPhantomPayment
  <2>2. \A c \in S : c \in ChargesOf(ContractOf[c])
    BY DEF ChargesOf, BankPaid
  <2>3. QED
    BY <2>1, <2>2 DEF Books
<1>5. QED
  BY <1>1, <1>2, <1>3, <1>4 DEF NoPhantomPayment, ChargesOf

\* CONCLUIDA is final at the bank.
LEMMA BankPaidStays ==
    ASSUME TypeInv, [Next]_vars
    PROVE  BankPaid \subseteq BankPaid'
<1>1. CASE UNCHANGED cob
  BY <1>1 DEF BankPaid
<1>2. CASE Environment
  BY <1>2 DEF Environment, BankRegister, BankPay, BankRemove, Expire, BankPaid, TypeInv, TypeOK
<1>3. UNCHANGED cob \/ Environment
  BY ZenonT(60) DEF Next, vars, WebhookStep, DedupLookup, FindCharge, LockPaid, Refetch, WebhookEvent,
     EnsureLookup, CreateSettlement, ReadTotal, WriteProjection, RequestRemoval, NoteLookup,
     NoteCreate, Deliver, WebhookUnchanged, WebhookFault, CycleStep, StartCycle, ReadExpired, JobFetch,
     JobFetchFails, JobLock, JobEvent, JobFindSettlement, JobSettle, JobUnchanged, CycleFault,
     SyncStep, SyncFetch, SyncFetchFails, SyncWrite, SyncEvent, SyncFindSettlement, SyncSettle,
     SyncNoteLookup, SyncNoteCreate, SyncRead, SyncUnchanged, SyncFault, Fault, bank
<1>4. QED
  BY <1>1, <1>2, <1>3

\* A step of a delivery books its own charge at most.
LEMMA WebhookBooks ==
    ASSUME TypeInv, NEW w \in Webhooks, WebhookStep(w)
    PROVE  /\ Books({wh[w].charge})
           /\ wh'[w].charge = wh[w].charge /\ wh[w].pc # "idle"
           /\ \A v \in Webhooks \ {w} : wh'[v] = wh[v]
           /\ UNCHANGED <<cob, job, sync>>
<1> DEFINE c == wh[w].charge
           Goal == /\ Books({c}) /\ wh'[w].charge = c /\ wh[w].pc # "idle"
                   /\ \A v \in Webhooks \ {w} : wh'[v] = wh[v]
                   /\ UNCHANGED <<cob, job, sync>>
<1>0. /\ wh \in [Webhooks -> Webhook] /\ wh[w] \in Webhook
      /\ charge \in [Charges -> Row]
      /\ contract \in [Contracts -> [paid : BOOLEAN, counted : SUBSET Key]]
  BY DEF TypeInv, TypeOK
<1>a. ASSUME UNCHANGED rows PROVE Books({c})
  BY <1>a DEF Books, rows
<1> USE DEF WebhookUnchanged, ToWebhook, bank
<1>1. CASE DedupLookup(w)
  <2>1. UNCHANGED rows /\ UNCHANGED <<cob, job, sync>> /\ wh[w].pc # "idle"
    BY <1>1 DEF DedupLookup
  <2>2. wh'[w].charge = c /\ \A v \in Webhooks \ {w} : wh'[v] = wh[v]
    BY <1>0, <1>1 DEF DedupLookup, Webhook
  <2>3. QED
    BY <1>a, <2>1, <2>2
<1>2. CASE FindCharge(w)
  <2>1. UNCHANGED rows /\ UNCHANGED <<cob, job, sync>> /\ wh[w].pc # "idle"
    BY <1>2 DEF FindCharge
  <2>2. wh'[w].charge = c /\ \A v \in Webhooks \ {w} : wh'[v] = wh[v]
    BY <1>0, <1>2 DEF FindCharge, Webhook
  <2>3. QED
    BY <1>a, <2>1, <2>2
<1>3. CASE Refetch(w)
  <2>1. UNCHANGED rows /\ UNCHANGED <<cob, job, sync>> /\ wh[w].pc # "idle"
    BY <1>3 DEF Refetch
  <2>2. wh'[w].charge = c /\ \A v \in Webhooks \ {w} : wh'[v] = wh[v]
    BY <1>0, <1>3 DEF Refetch, Webhook
  <2>3. QED
    BY <1>a, <2>1, <2>2
<1>4. CASE EnsureLookup(w)
  <2>1. UNCHANGED rows /\ UNCHANGED <<cob, job, sync>> /\ wh[w].pc # "idle"
    BY <1>4 DEF EnsureLookup
  <2>2. wh'[w].charge = c /\ \A v \in Webhooks \ {w} : wh'[v] = wh[v]
    BY <1>0, <1>4 DEF EnsureLookup, Webhook
  <2>3. QED
    BY <1>a, <2>1, <2>2
<1>5. CASE ReadTotal(w)
  <2>1. UNCHANGED rows /\ UNCHANGED <<cob, job, sync>> /\ wh[w].pc # "idle"
    BY <1>5 DEF ReadTotal
  <2>2. wh'[w].charge = c /\ \A v \in Webhooks \ {w} : wh'[v] = wh[v]
    BY <1>0, <1>5 DEF ReadTotal, Webhook
  <2>3. QED
    BY <1>a, <2>1, <2>2
<1>6. CASE NoteLookup(w)
  <2>1. UNCHANGED rows /\ UNCHANGED <<cob, job, sync>> /\ wh[w].pc # "idle"
    BY <1>6 DEF NoteLookup
  <2>2. wh'[w].charge = c /\ \A v \in Webhooks \ {w} : wh'[v] = wh[v]
    BY <1>0, <1>6 DEF NoteLookup, Webhook, Noted
  <2>3. QED
    BY <1>a, <2>1, <2>2
<1>7. CASE LockPaid(w)
  <2>1. Books({c}) /\ UNCHANGED <<cob, job, sync>> /\ wh[w].pc # "idle"
    BY <1>0, <1>7 DEF LockPaid, Books, MoveTo
  <2>2. wh'[w].charge = c /\ \A v \in Webhooks \ {w} : wh'[v] = wh[v]
    BY <1>0, <1>7 DEF LockPaid, Webhook
  <2>3. QED
    BY <2>1, <2>2
<1>8. CASE WebhookEvent(w)
  <2>1. Books({c}) /\ UNCHANGED <<cob, job, sync>> /\ wh[w].pc # "idle"
    BY <1>0, <1>8 DEF WebhookEvent, Books, WriteEvent
  <2>2. wh'[w].charge = c /\ \A v \in Webhooks \ {w} : wh'[v] = wh[v]
    BY <1>0, <1>8 DEF WebhookEvent, Webhook
  <2>3. QED
    BY <2>1, <2>2
<1>9. CASE CreateSettlement(w)
  <2>1. Books({c}) /\ UNCHANGED <<cob, job, sync>> /\ wh[w].pc # "idle"
    BY <1>0, <1>9 DEF CreateSettlement, Books, E2E
  <2>2. wh'[w].charge = c /\ \A v \in Webhooks \ {w} : wh'[v] = wh[v]
    BY <1>0, <1>9 DEF CreateSettlement, Webhook
  <2>3. QED
    BY <2>1, <2>2
<1>10. CASE WriteProjection(w)
  <2>1. Books({c}) /\ UNCHANGED <<cob, job, sync>> /\ wh[w].pc # "idle"
    BY <1>0, <1>10 DEF WriteProjection, Books
  <2>2. wh'[w].charge = c /\ \A v \in Webhooks \ {w} : wh'[v] = wh[v]
    BY <1>0, <1>10 DEF WriteProjection, Webhook
  <2>3. QED
    BY <2>1, <2>2
<1>11. CASE RequestRemoval(w)
  <2>1. Books({c}) /\ UNCHANGED <<cob, job, sync>> /\ wh[w].pc # "idle"
    BY <1>0, <1>11 DEF RequestRemoval, Books
  <2>2. wh'[w].charge = c /\ \A v \in Webhooks \ {w} : wh'[v] = wh[v]
    BY <1>0, <1>11 DEF RequestRemoval, Webhook
  <2>3. QED
    BY <2>1, <2>2
<1>12. CASE NoteCreate(w)
  <2>1. Books({c}) /\ UNCHANGED <<cob, job, sync>> /\ wh[w].pc # "idle"
    BY <1>0, <1>12 DEF NoteCreate, Books
  <2>2. wh'[w].charge = c /\ \A v \in Webhooks \ {w} : wh'[v] = wh[v]
    BY <1>0, <1>12 DEF NoteCreate, Webhook, Noted
  <2>3. QED
    BY <2>1, <2>2
<1> QED
  BY <1>1, <1>2, <1>3, <1>4, <1>5, <1>6, <1>7, <1>8, <1>9, <1>10, <1>11, <1>12
     DEF WebhookStep

\* ... which the bank reported as paid when it delivered.
LEMMA PhantomWebhook ==
    ASSUME PhantomInv, NEW w \in Webhooks, WebhookStep(w)
    PROVE  Backed' /\ NoPhantomPayment'
<1>1. /\ Books({wh[w].charge}) /\ wh'[w].charge = wh[w].charge /\ wh[w].pc # "idle"
      /\ \A v \in Webhooks \ {w} : wh'[v] = wh[v]
      /\ UNCHANGED <<cob, job, sync>>
  BY WebhookBooks DEF PhantomInv
<1>2. BankPaid' = BankPaid /\ {wh[w].charge} \subseteq BankPaid
  BY <1>1 DEF BankPaid, PhantomInv, Backed
<1>3. NoPhantomPayment'
  BY <1>1, <1>2, BooksBacked DEF PhantomInv
<1>4. Backed'
  BY <1>1, <1>2 DEF PhantomInv, Backed
<1>5. QED
  BY <1>3, <1>4

\* The two queries of a cycle book nothing.
LEMMA CycleReads ==
    ASSUME TypeInv, NEW j \in Cycles, StartCycle(j) \/ ReadExpired(j)
    PROVE  /\ job'[j].pc \in {"idle", "expired", "next"}
           /\ \A i \in Cycles \ {j} : job'[i] = job[i]
<1>0. job \in [Cycles -> Cycle] /\ job[j] \in Cycle
  BY DEF TypeInv, TypeOK
<1>1. CASE StartCycle(j)
  <2> DEFINE pending == FirstN({c \in Charges : charge[c].status = "PENDING"}, BatchSize)
             pc == IF Cardinality(pending) < BatchSize THEN "expired" ELSE "next"
             held == Read(IdleCycle.rows, pending)
             r == [IdleCycle EXCEPT !.pc = pc, !.todo = pending, !.late = overdue,
                                    !.rows = held]
  <2>1. job' = [job EXCEPT ![j] = r] /\ pc \in {"expired", "next"}
    BY <1>1 DEF StartCycle
  <2> HIDE DEF pc, pending, held
  <2>2. r.pc \in {"idle", "expired", "next"}
    BY <2>1 DEF IdleCycle
  <2> HIDE DEF r
  <2>3. job'[j] = r /\ \A i \in Cycles \ {j} : job'[i] = job[i]
    BY <1>0, <2>1
  <2>4. QED
    BY <2>2, <2>3
<1>2. CASE ReadExpired(j)
  <2> DEFINE found == FirstN(Overdue(j), BatchSize - Cardinality(job[j].todo))
             todo == job[j].todo \cup found
             held == Read(job[j].rows, found)
             r == IF todo = {} THEN IdleCycle
                  ELSE [job[j] EXCEPT !.pc = "next", !.todo = todo, !.rows = held]
  <2>1. job' = [job EXCEPT ![j] = r]
    BY <1>2 DEF ReadExpired
  <2> HIDE DEF todo, held
  <2>2. IdleCycle.pc = "idle"
    BY DEF IdleCycle
  <2>3. r.pc \in {"idle", "expired", "next"}
    BY <1>0, <2>2 DEF Cycle
  <2> HIDE DEF r
  <2>4. job'[j] = r /\ \A i \in Cycles \ {j} : job'[i] = job[i]
    BY <1>0, <2>1
  <2>5. QED
    BY <2>3, <2>4
<1>3. QED
  BY <1>1, <1>2

\* A cycle books a charge only after the bank answered that it is paid.
LEMMA PhantomCycle ==
    ASSUME PhantomInv, NEW j \in Cycles, CycleStep(j)
    PROVE  Backed' /\ NoPhantomPayment'
<1> DEFINE c == job[j].charge
           S == IF job[j].target = "PAID" /\ job[j].pc \in Busy THEN {c} ELSE {}
           Own == /\ job'[j].pc \in {"find", "settle"} => job'[j].target = "PAID"
                  /\ job'[j].pc \in Busy /\ job'[j].target = "PAID"
                        => job'[j].charge \in BankPaid
           Others == \A i \in Cycles \ {j} : job'[i] = job[i]
<1> USE DEF Busy
<1>0. /\ job \in [Cycles -> Cycle] /\ job[j] \in Cycle /\ charge \in [Charges -> Row]
      /\ job[j].pc \in {"find", "settle"} => job[j].target = "PAID"
      /\ S \subseteq BankPaid
      /\ \A d : FinishCharge(j, d) => Own /\ Others
  BY FinishChargeType DEF PhantomInv, TypeInv, TypeOK, Backed, Busy
<1>a. ASSUME UNCHANGED rows PROVE Books(S)
  BY <1>a DEF Books, rows
<1>b. /\ UNCHANGED <<cob, wh, sync>>
  BY DEF CycleStep, StartCycle, ReadExpired, JobFetch, JobFetchFails, JobLock, JobEvent,
     JobFindSettlement, JobSettle, JobUnchanged, bank
<1>1. ASSUME StartCycle(j) \/ ReadExpired(j) PROVE Books(S) /\ Own /\ Others
  <2>1. Books(S)
    BY <1>1, <1>a DEF StartCycle, ReadExpired
  <2>2. job'[j].pc \in {"idle", "expired", "next"} /\ Others
    BY <1>1, CycleReads DEF PhantomInv
  <2>3. QED
    BY <2>1, <2>2
<1>2. ASSUME NEW d \in Charges, JobFetch(j, d) PROVE Books(S) /\ Own /\ Others
  <2>1. Books(S)
    BY <1>2, <1>a DEF JobFetch
  <2> DEFINE move == Transition(job[j].rows[d], d \in job[j].late, Answer(d))
             To(target) == job' = [job EXCEPT ![j] = [job[j] EXCEPT
                                     !.pc = "lock", !.charge = d, !.target = target]]
  <2>2. FinishCharge(j, d) \/ \E target \in move : To(target)
    BY <1>2 DEF JobFetch
  <2>3. ASSUME NEW target \in move, To(target) PROVE Own /\ Others
    <3>1. target = "PAID" => d \in BankPaid
      BY DEF Transition, Answer, BankPaid
    <3>2. /\ job'[j].pc = "lock" /\ job'[j].charge = d /\ job'[j].target = target
          /\ Others
      BY <1>0, <2>3 DEF Cycle
    <3>3. QED
      BY <3>1, <3>2
  <2>4. QED
    BY <1>0, <2>1, <2>2, <2>3
<1>3. ASSUME NEW d \in Charges, JobFetchFails(j, d) PROVE Books(S) /\ Own /\ Others
  BY <1>3, <1>0, <1>a DEF JobFetchFails
<1>4. ASSUME JobLock(j) PROVE Books(S) /\ Own /\ Others
  <2>1. Books(S)
    BY <1>0, <1>4 DEF JobLock, Books, MoveTo
  <2>2. /\ job'[j].pc = "event" /\ job'[j].charge = c /\ job'[j].target = job[j].target
        /\ job[j].pc = "lock" /\ Others
    BY <1>0, <1>4 DEF JobLock, Cycle
  <2>3. QED
    BY <1>0, <2>1, <2>2
<1>5. ASSUME JobEvent(j) PROVE Books(S) /\ Own /\ Others
  <2>1. Books(S)
    BY <1>5 DEF JobEvent, Books, WriteEvent
  <2>2. ASSUME job[j].target = "PAID", job' = [job EXCEPT ![j].pc = "find"]
        PROVE  Own /\ Others
    <3>1. /\ job'[j].pc = "find" /\ job'[j].charge = c /\ job'[j].target = "PAID"
          /\ job[j].pc = "event" /\ Others
      BY <1>0, <1>5, <2>2 DEF JobEvent, Cycle
    <3>2. QED
      BY <1>0, <2>2, <3>1
  <2>3. QED
    BY <1>0, <1>5, <2>1, <2>2 DEF JobEvent, AfterJobEvent
<1>6. ASSUME JobFindSettlement(j) PROVE Books(S) /\ Own /\ Others
  <2>1. Books(S)
    BY <1>6, <1>a DEF JobFindSettlement
  <2>2. ASSUME job' = [job EXCEPT ![j].pc = "settle"] PROVE Own /\ Others
    <3>1. /\ job'[j].pc = "settle" /\ job'[j].charge = c /\ job'[j].target = job[j].target
          /\ job[j].pc = "find" /\ Others
      BY <1>0, <1>6, <2>2 DEF JobFindSettlement, Cycle
    <3>2. QED
      BY <1>0, <3>1
  <2>3. QED
    BY <1>0, <1>6, <2>1, <2>2 DEF JobFindSettlement
<1>7. ASSUME JobSettle(j) PROVE Books(S) /\ Own /\ Others
  <2>1. Books(S)
    BY <1>0, <1>7 DEF JobSettle, Books, TXID
  <2>2. QED
    BY <1>0, <1>7, <2>1 DEF JobSettle
<1>8. Books(S) /\ Own /\ Others
  BY <1>1, <1>2, <1>3, <1>4, <1>5, <1>6, <1>7 DEF CycleStep
<1>9. BankPaid' = BankPaid
  BY <1>b DEF BankPaid
<1>10. NoPhantomPayment'
  BY <1>0, <1>8, <1>9, BooksBacked DEF PhantomInv
<1>11. Backed'
  BY <1>8, <1>9, <1>b DEF PhantomInv, Backed
<1>12. QED
  BY <1>10, <1>11

\* A step of a resynchronisation that only moves it on.
LEMMA ToSyncMoves ==
    ASSUME sync \in [Syncs -> Sync], NEW s \in Syncs, NEW pc, ToSync(s, pc)
    PROVE  /\ sync'[s].pc = pc /\ sync'[s].charge = sync[s].charge
           /\ sync'[s].answer = sync[s].answer
           /\ \A t \in Syncs \ {s} : sync'[t] = sync[t]
<1>1. sync[s] \in Sync
  OBVIOUS
<1>2. QED
  BY <1>1 DEF ToSync, Sync

\* A resynchronisation books a charge only after the bank answered that it is paid.
LEMMA PhantomSync ==
    ASSUME PhantomInv, NEW s \in Syncs, SyncStep(s)
    PROVE  Backed' /\ NoPhantomPayment'
<1> DEFINE c == sync[s].charge
           S == IF sync[s].answer = "PAID" /\ sync[s].pc \notin {"idle", "fetch", "done"}
                THEN {c} ELSE {}
           Own == /\ sync'[s].pc \in {"find", "settle"} => sync'[s].answer = "PAID"
                  /\ sync'[s].pc \notin {"idle", "fetch", "done"} /\ sync'[s].answer = "PAID"
                        => sync'[s].charge \in BankPaid
           Others == \A t \in Syncs \ {s} : sync'[t] = sync[t]
           Moved(pc) == /\ sync'[s].pc = pc /\ sync'[s].charge = c
                        /\ sync'[s].answer = sync[s].answer
<1>0. /\ sync \in [Syncs -> Sync] /\ sync[s] \in Sync /\ charge \in [Charges -> Row]
      /\ sync[s].pc \in {"find", "settle"} => sync[s].answer = "PAID"
      /\ S \subseteq BankPaid
  BY DEF PhantomInv, TypeInv, TypeOK, Backed
<1>a. ASSUME UNCHANGED rows PROVE Books(S)
  BY <1>a DEF Books, rows
<1>b. UNCHANGED <<cob, wh, job>>
  BY DEF SyncStep, SyncFetch, SyncFetchFails, SyncWrite, SyncEvent, SyncFindSettlement,
     SyncSettle, SyncNoteLookup, SyncNoteCreate, SyncUnchanged, bank
<1>c. ASSUME NEW pc, ToSync(s, pc) PROVE Moved(pc) /\ Others
  BY <1>0, <1>c, ToSyncMoves
<1>1. ASSUME SyncFetch(s) PROVE Books(S) /\ Own /\ Others
  <2>1. Books(S)
    BY <1>1, <1>a DEF SyncFetch
  <2>2. /\ sync'[s].pc = "write" /\ sync'[s].charge = c /\ sync'[s].answer = Answer(c)
        /\ sync[s].pc = "fetch" /\ Others
    BY <1>0, <1>1 DEF SyncFetch, Sync
  <2>3. c \in Charges
    BY <2>2 DEF PhantomInv, TypeInv, Working, WorkingSync
  <2>4. Answer(c) = "PAID" => c \in BankPaid
    BY <2>3 DEF Answer, BankPaid
  <2>5. QED
    BY <2>1, <2>2, <2>4
<1>2. ASSUME SyncFetchFails(s) PROVE Books(S) /\ Own /\ Others
  BY <1>2, <1>a, <1>c DEF SyncFetchFails
<1>3. ASSUME SyncWrite(s) PROVE Books(S) /\ Own /\ Others
  <2>1. Books(S)
    BY <1>0, <1>3 DEF SyncWrite, Books
  <2>2. QED
    BY <1>0, <1>3, <1>c, <2>1 DEF SyncWrite
<1>4. ASSUME SyncEvent(s) PROVE Books(S) /\ Own /\ Others
  <2>1. Books(S)
    BY <1>4 DEF SyncEvent, Books, WriteEvent
  <2>2. QED
    BY <1>0, <1>4, <1>c, <2>1 DEF SyncEvent, AfterSyncEvent
<1>5. ASSUME SyncFindSettlement(s) PROVE Books(S) /\ Own /\ Others
  BY <1>0, <1>5, <1>a, <1>c DEF SyncFindSettlement
<1>6. ASSUME SyncSettle(s) PROVE Books(S) /\ Own /\ Others
  <2>1. Books(S)
    BY <1>0, <1>6 DEF SyncSettle, Books, TXID
  <2>2. QED
    BY <1>0, <1>6, <1>c, <2>1 DEF SyncSettle
<1>7. ASSUME SyncNoteLookup(s) PROVE Books(S) /\ Own /\ Others
  BY <1>0, <1>7, <1>a, <1>c DEF SyncNoteLookup
<1>8. ASSUME SyncNoteCreate(s) PROVE Books(S) /\ Own /\ Others
  <2>1. Books(S)
    BY <1>8 DEF SyncNoteCreate, Books
  <2>2. QED
    BY <1>0, <1>8, <1>c, <2>1 DEF SyncNoteCreate
<1>9. Books(S) /\ Own /\ Others
  BY <1>1, <1>2, <1>3, <1>4, <1>5, <1>6, <1>7, <1>8 DEF SyncStep
<1>10. BankPaid' = BankPaid
  BY <1>b DEF BankPaid
<1>11. NoPhantomPayment'
  BY <1>0, <1>9, <1>10, BooksBacked DEF PhantomInv
<1>12. Backed'
  BY <1>9, <1>10, <1>b DEF PhantomInv, Backed
<1>13. QED
  BY <1>11, <1>12

\* A fault books nothing: it ends a process or moves it past a failed call.
LEMMA PhantomFault ==
    ASSUME PhantomInv,
           \/ \E w \in Webhooks : WebhookFault(w)
           \/ \E j \in Cycles : CycleFault(j)
           \/ \E s \in Syncs : SyncFault(s)
    PROVE  Backed' /\ NoPhantomPayment'
<1>1. Fault
  BY DEF WebhookFault, CycleFault, SyncFault
<1>2. BankPaid' = BankPaid /\ UNCHANGED rows
  BY <1>1 DEF Fault, bank, BankPaid
<1>3. NoPhantomPayment'
  BY <1>2 DEF PhantomInv, NoPhantomPayment, rows, Settled, SettledBy
<1>4. ASSUME NEW w \in Webhooks, WebhookFault(w) PROVE Backed'
  <2>1. /\ wh[w].pc # "idle" /\ wh'[w].charge = wh[w].charge
        /\ \A v \in Webhooks \ {w} : wh'[v] = wh[v]
    <3>1. wh \in [Webhooks -> Webhook] /\ wh[w] \in Webhook
      BY DEF PhantomInv, TypeInv, TypeOK
    <3>2. \/ ToWebhook(w, "done") /\ wh[w].pc # "idle"
          \/ /\ wh' = [wh EXCEPT ![w] = [wh[w] EXCEPT !.pc = "ensure", !.notes = 1]]
             /\ wh[w].pc = "event"
      BY <1>4 DEF WebhookFault
    <3>3. ASSUME ToWebhook(w, "done")
          PROVE  wh'[w].charge = wh[w].charge /\ \A v \in Webhooks \ {w} : wh'[v] = wh[v]
      BY <3>1, <3>3 DEF ToWebhook, Webhook
    <3>4. ASSUME wh' = [wh EXCEPT ![w] = [wh[w] EXCEPT !.pc = "ensure", !.notes = 1]]
          PROVE  wh'[w].charge = wh[w].charge /\ \A v \in Webhooks \ {w} : wh'[v] = wh[v]
      BY <3>1, <3>4 DEF Webhook
    <3>5. QED
      BY <3>2, <3>3, <3>4
  <2>2. QED
    BY <1>2, <1>4, <2>1 DEF WebhookFault, PhantomInv, Backed
<1>5. ASSUME NEW j \in Cycles, CycleFault(j) PROVE Backed'
  <2>0. job \in [Cycles -> Cycle] /\ job[j] \in Cycle
    BY DEF PhantomInv, TypeInv, TypeOK
  <2>1. ASSUME job' = [job EXCEPT ![j] = IdleCycle]
        PROVE  job'[j].pc \in {"idle", "next"}
    BY <2>0, <2>1 DEF IdleCycle
  <2>2. ASSUME job[j].pc = "event", AfterJobEvent(j)
        PROVE  \/ job'[j].pc \in {"idle", "next"}
               \/ /\ job'[j].pc = "find" /\ job[j].target = "PAID"
                  /\ job'[j].target = "PAID" /\ job'[j].charge = job[j].charge
    BY <2>0, <2>2, FinishChargeType DEF AfterJobEvent, Cycle
  <2>3. \/ job'[j].pc \in {"idle", "next"}
        \/ /\ job'[j].pc = "find" /\ job[j].target = "PAID" /\ job[j].pc = "event"
           /\ job'[j].target = "PAID" /\ job'[j].charge = job[j].charge
    BY <1>5, <2>0, <2>1, <2>2, FinishChargeType DEF CycleFault
  <2>4. \A i \in Cycles \ {j} : job'[i] = job[i]
    BY <1>5, <2>0, FinishChargeType DEF CycleFault, AfterJobEvent
  <2>5. QED
    BY <1>2, <1>5, <2>3, <2>4 DEF CycleFault, PhantomInv, Backed, Busy
<1>6. ASSUME NEW s \in Syncs, SyncFault(s) PROVE Backed'
  <2>0. sync \in [Syncs -> Sync] /\ sync[s] \in Sync
    BY DEF PhantomInv, TypeInv, TypeOK
  <2>1. /\ sync'[s].pc \in {"done", "find", "note"}
        /\ sync'[s].pc # "done" => sync[s].pc \in {"event", "find", "settle"}
        /\ sync'[s].pc = "find" => sync[s].answer = "PAID"
        /\ sync'[s].charge = sync[s].charge /\ sync'[s].answer = sync[s].answer
        /\ \A t \in Syncs \ {s} : sync'[t] = sync[t]
    <3>1. PICK pc \in {"done", "find", "note"} :
             /\ ToSync(s, pc)
             /\ pc # "done" => sync[s].pc \in {"event", "find", "settle"}
             /\ pc = "find" => sync[s].answer = "PAID"
      BY <1>6 DEF SyncFault, AfterSyncEvent
    <3>2. /\ sync'[s].pc = pc /\ sync'[s].charge = sync[s].charge
          /\ sync'[s].answer = sync[s].answer
          /\ \A t \in Syncs \ {s} : sync'[t] = sync[t]
      BY <2>0, <3>1, ToSyncMoves
    <3>3. QED
      BY <3>1, <3>2
  <2>2. QED
    BY <1>2, <1>6, <2>1 DEF SyncFault, PhantomInv, Backed
<1>7. QED
  BY <1>3, <1>4, <1>5, <1>6

\* What the bank, a delivery that arrives and an operator who asks leave alone.
LEMMA PhantomOther ==
    ASSUME PhantomInv, [Next]_vars,
           \/ Environment
           \/ \E w \in Webhooks, c \in Charges : Deliver(w, c)
           \/ \E s \in Syncs, c \in Charges : SyncRead(s, c)
    PROVE  Backed' /\ NoPhantomPayment'
<1>0. BankPaid \subseteq BankPaid'
  BY BankPaidStays DEF PhantomInv
<1>1. UNCHANGED rows
  BY DEF Environment, BankRegister, BankPay, BankRemove, Expire, Deliver, SyncRead
<1>2. NoPhantomPayment'
  <2>1. Books({})
    BY <1>1 DEF Books, rows
  <2>2. QED
    BY <1>0, <2>1, BooksBacked DEF PhantomInv
<1>3. CASE Environment
  <2>1. UNCHANGED procs
    BY <1>3 DEF Environment, BankRegister, BankPay, BankRemove, Expire
  <2>2. QED
    BY <1>0, <1>2, <2>1 DEF PhantomInv, Backed, procs
<1>4. ASSUME NEW w \in Webhooks, NEW c \in Charges, Deliver(w, c) PROVE Backed'
  <2> DEFINE r == [IdleWebhook EXCEPT !.pc = "dedup", !.charge = c]
  <2>1. r.charge = c /\ wh' = [wh EXCEPT ![w] = r]
    BY <1>4 DEF Deliver, IdleWebhook
  <2> HIDE DEF r
  <2>2. c \in BankPaid /\ UNCHANGED <<job, sync>>
    BY <1>4 DEF Deliver, BankPaid, WebhookUnchanged
  <2>3. wh'[w].charge \in BankPaid /\ \A v \in Webhooks \ {w} : wh'[v] = wh[v]
    BY <2>1, <2>2 DEF PhantomInv, TypeInv, TypeOK
  <2>4. QED
    BY <1>0, <2>2, <2>3 DEF PhantomInv, Backed
<1>5. ASSUME NEW s \in Syncs, NEW c \in Charges, SyncRead(s, c) PROVE Backed'
  <2> DEFINE r == [IdleSync EXCEPT !.pc = "fetch", !.charge = c, !.row = charge[c]]
  <2>1. r.pc = "fetch" /\ sync' = [sync EXCEPT ![s] = r] /\ UNCHANGED <<wh, job>>
    BY <1>5 DEF SyncRead, IdleSync, SyncUnchanged
  <2> HIDE DEF r
  <2>2. sync'[s].pc = "fetch" /\ \A t \in Syncs \ {s} : sync'[t] = sync[t]
    BY <2>1 DEF PhantomInv, TypeInv, TypeOK
  <2>3. QED
    BY <1>0, <2>1, <2>2 DEF PhantomInv, Backed
<1>6. QED
  BY <1>2, <1>3, <1>4, <1>5

\* The strengthened invariant is inductive.
LEMMA PhantomStep == PhantomInv /\ [Next]_vars => PhantomInv'
<1> SUFFICES ASSUME PhantomInv, [Next]_vars PROVE PhantomInv'
  OBVIOUS
<1>1. TypeInv'
  BY TypeStep DEF PhantomInv
<1>2. CASE UNCHANGED vars
  BY <1>1, <1>2 DEF vars, PhantomInv, Backed, NoPhantomPayment, BankPaid, Settled, SettledBy,
     ChargesOf
<1>3. CASE Next
  BY <1>1, <1>3, PhantomWebhook, PhantomCycle, PhantomSync, PhantomFault, PhantomOther
     DEF Next, PhantomInv
<1>4. QED
  BY <1>2, <1>3

\* Nothing is booked or under way at first.
LEMMA PhantomInit == Init => PhantomInv
<1> SUFFICES ASSUME Init PROVE PhantomInv
  OBVIOUS
<1>1. TypeInv
  BY TypeInit
<1>2. Backed
  BY DEF Init, Backed, IdleWebhook, IdleCycle, IdleSync
<1>3. NoPhantomPayment
  BY DEF Init, NoPhantomPayment, Settled, SettledBy
<1>4. QED
  BY <1>1, <1>2, <1>3 DEF PhantomInv

\* No interleaving of webhook deliveries, job cycles, resynchronisations and
\* faults marks a charge or contract paid, books a settlement or asks for a
\* Serasa removal without money the bank has received for that contract.
THEOREM NoPhantom == Spec => []NoPhantomPayment
<1>1. PhantomInv => NoPhantomPayment
  BY DEF PhantomInv
<1>2. QED
  BY <1>1, PhantomInit, PhantomStep, PTL DEF Spec

-----------------------------------------------------------------------------
(* The ledger.  Money arrives by a step of the bank, which writes no row of  *)
(* ours, and is recorded by a step that adds one settlement.                 *)

\* Booking one settlement of a paid charge is a step of the ledger or a stutter.
LEMMA BookOne ==
    ASSUME TypeInv, Next
    PROVE  \/ Environment /\ UNCHANGED settlements
           \/ UNCHANGED <<cob, settlements>>
           \/ UNCHANGED cob /\ \E k \in Key : settlements' = settlements \cup {k}
<1>1. ASSUME NEW w \in Webhooks, CreateSettlement(w)
      PROVE  UNCHANGED cob /\ \E k \in Key : settlements' = settlements \cup {k}
  <2>1. wh[w].charge \in Charges
    BY <1>1 DEF CreateSettlement, TypeInv, Working, WorkingWebhook
  <2>2. QED
    BY <1>1, <2>1, KeyType DEF CreateSettlement, WebhookUnchanged, bank
<1>2. ASSUME NEW j \in Cycles, JobSettle(j)
      PROVE  UNCHANGED cob /\ \E k \in Key : settlements' = settlements \cup {k}
  <2>1. job[j].charge \in Charges
    BY <1>2 DEF JobSettle, TypeInv, Working, WorkingCycle
  <2>2. QED
    BY <1>2, <2>1, KeyType DEF JobSettle, JobUnchanged, bank
<1>3. ASSUME NEW s \in Syncs, SyncSettle(s)
      PROVE  UNCHANGED cob /\ \E k \in Key : settlements' = settlements \cup {k}
  <2>1. sync[s].charge \in Charges
    BY <1>3 DEF SyncSettle, TypeInv, Working, WorkingSync
  <2>2. QED
    BY <1>3, <2>1, KeyType DEF SyncSettle, SyncUnchanged, bank
<1>4. Environment => UNCHANGED settlements
  BY DEF Environment, BankRegister, BankPay, BankRemove, Expire, rows
<1>5. ASSUME NEW w \in Webhooks,
             WebhookStep(w) \/ WebhookFault(w) \/ \E c \in Charges : Deliver(w, c),
             ~CreateSettlement(w)
      PROVE  UNCHANGED <<cob, settlements>>
  BY <1>5 DEF WebhookStep, DedupLookup, FindCharge, LockPaid, Refetch, WebhookEvent,
     EnsureLookup, ReadTotal, WriteProjection, RequestRemoval, NoteLookup, NoteCreate,
     Deliver, WebhookUnchanged, WebhookFault, Fault, bank, rows
<1>6. ASSUME NEW j \in Cycles, CycleStep(j) \/ CycleFault(j), ~JobSettle(j)
      PROVE  UNCHANGED <<cob, settlements>>
  BY <1>6 DEF CycleStep, StartCycle, ReadExpired, JobFetch, JobFetchFails, JobLock, JobEvent,
     JobFindSettlement, JobUnchanged, CycleFault, Fault, bank, rows
<1>7. ASSUME NEW s \in Syncs,
             SyncStep(s) \/ SyncFault(s) \/ \E c \in Charges : SyncRead(s, c),
             ~SyncSettle(s)
      PROVE  UNCHANGED <<cob, settlements>>
  BY <1>7 DEF SyncStep, SyncFetch, SyncFetchFails, SyncWrite, SyncEvent, SyncFindSettlement,
     SyncNoteLookup, SyncNoteCreate, SyncRead, SyncUnchanged, SyncFault, Fault, bank, rows
<1>8. QED
  BY <1>1, <1>2, <1>3, <1>4, <1>5, <1>6, <1>7 DEF Next

\* Every step of the system is a step of the ledger or a stutter.
LEMMA LedgerStep ==
    ASSUME PhantomInv, PhantomInv', [Next]_vars
    PROVE  [Ledger!LedgerNext]_(Ledger!ledgerVars)
<1> USE DEF Ledger!LedgerNext, Ledger!Receive, Ledger!Record, Ledger!ledgerVars
<1>1. CASE UNCHANGED <<cob, settlements>>
  BY <1>1 DEF BankPaid, Settled, SettledBy
<1>2. CASE Environment /\ UNCHANGED settlements
  <2>1. UNCHANGED Settled
    BY <1>2 DEF Settled, SettledBy
  <2>2. ASSUME NEW c \in Charges, BankPay(c)
        PROVE  c \notin BankPaid /\ BankPaid' = BankPaid \cup {c}
    BY <2>2 DEF BankPay, BankPaid, PhantomInv, TypeInv, TypeOK
  <2>3. ASSUME NEW c \in Charges, BankRegister(c) \/ BankRemove(c) \/ Expire(c)
        PROVE  UNCHANGED BankPaid
    BY <2>3 DEF BankRegister, BankRemove, Expire, BankPaid, PhantomInv, TypeInv, TypeOK
  <2>4. QED
    BY <1>2, <2>1, <2>2, <2>3 DEF Environment
<1>3. ASSUME UNCHANGED cob, NEW k \in Key, settlements' = settlements \cup {k}
      PROVE  [Ledger!LedgerNext]_(Ledger!ledgerVars)
  <2>1. k.charge \in Charges /\ UNCHANGED BankPaid
    BY <1>3 DEF Key, BankPaid
  <2>2. Settled' = Settled \cup {k.charge}
    BY <1>3, <2>1 DEF Settled, SettledBy
  <2>3. Settled' \subseteq BankPaid
    BY <2>1 DEF PhantomInv, NoPhantomPayment
  <2>4. QED
    BY <2>1, <2>2, <2>3
<1>4. CASE UNCHANGED vars
  BY <1>1, <1>4 DEF vars
<1>5. QED
  BY <1>1, <1>2, <1>3, <1>4, BookOne DEF PhantomInv

\* However webhook, job and resynchronisation race and fail, they implement the
\* ledger: a charge is recorded once, after its money was received, and never
\* forgotten (the safety half; that it is recorded in the end is model-checked).
THEOREM ImplementsLedger == Spec => RefinesLedger
<1>1. Init => Ledger!LedgerInit
  BY DEF Init, Ledger!LedgerInit, BankPaid, Settled, SettledBy
<1>2. PhantomInv /\ PhantomInv' /\ [Next]_vars => [Ledger!LedgerNext]_(Ledger!ledgerVars)
  BY LedgerStep
<1>3. Init => PhantomInv
  BY PhantomInit
<1>4. QED
  BY <1>1, <1>2, <1>3, PhantomStep, PTL DEF Spec, RefinesLedger, Ledger!LedgerSpec

-----------------------------------------------------------------------------
(* The version column.  A row a writer still holds is never newer than the   *)
(* table, and when it is as new, the charge is not PAID: so a write whose    *)
(* version matches never hits a PAID charge.                                 *)

Fresh(row, c) ==
    /\ row.version <= charge[c].version
    /\ row.version = charge[c].version => charge[c].status # "PAID"

Versioned ==
    /\ \A w \in Webhooks : wh[w].pc = "lock" => Fresh(wh[w].row, wh[w].charge)
    /\ \A j \in Cycles : \A c \in job[j].todo : Fresh(job[j].rows[c], c)

LockInv == TypeInv /\ Versioned

\* A row that is old enough or shows an open charge stays so.
LEMMA FreshStays ==
    ASSUME charge \in [Charges -> Row], NEW c \in Charges, NEW row \in Row, Fresh(row, c),
           NEW d \in Charges, NEW status \in Status, MoveTo(d, status)
    PROVE  Fresh(row, c)'
<1>1. charge'[d].version = charge[d].version + 1 /\ (c # d => charge'[c] = charge[c])
  BY DEF MoveTo
<1>2. row.version \in Nat /\ charge[c].version \in Nat
  OBVIOUS
<1>3. CASE c = d
  BY <1>1, <1>2, <1>3 DEF Fresh
<1>4. CASE c # d
  BY <1>1, <1>4 DEF Fresh
<1>5. QED
  BY <1>3, <1>4

\* A delivery at its versioned update holds a row it has just read or held before.
LEMMA WebhookRow ==
    ASSUME TypeInv, NEW w \in Webhooks, WebhookStep(w), wh'[w].pc = "lock"
    PROVE  /\ UNCHANGED charge /\ wh'[w].charge \in Charges
           /\ wh'[w].row = charge[wh'[w].charge]
           /\ charge[wh'[w].charge].status # "PAID"
<1>0. wh \in [Webhooks -> Webhook] /\ wh[w] \in Webhook /\ WorkingWebhook(wh[w])
  BY DEF TypeInv, TypeOK, Working
<1> USE DEF ToWebhook
<1>1. ASSUME DedupLookup(w) PROVE wh'[w].pc \in {"note", "find"}
  BY <1>0, <1>1 DEF DedupLookup, Webhook
<1>2. ASSUME LockPaid(w) PROVE wh'[w].pc \in {"event", "refetch"}
  BY <1>0, <1>2 DEF LockPaid, Webhook
<1>3. ASSUME Refetch(w) PROVE wh'[w].pc \in {"ensure", "done"}
  BY <1>0, <1>3 DEF Refetch, Webhook
<1>4. ASSUME WebhookEvent(w) PROVE wh'[w].pc \in {"ensure"}
  BY <1>0, <1>4 DEF WebhookEvent, Webhook
<1>5. ASSUME EnsureLookup(w) PROVE wh'[w].pc \in {"total", "create"}
  BY <1>0, <1>5 DEF EnsureLookup, Webhook
<1>6. ASSUME CreateSettlement(w) PROVE wh'[w].pc \in {"total"}
  BY <1>0, <1>6 DEF CreateSettlement, Webhook
<1>7. ASSUME ReadTotal(w) PROVE wh'[w].pc \in {"project"}
  BY <1>0, <1>7 DEF ReadTotal, Webhook
<1>8. ASSUME WriteProjection(w) PROVE wh'[w].pc \in {"remove", "done", "note"}
  BY <1>0, <1>8 DEF WriteProjection, Webhook, NotePc
<1>9. ASSUME RequestRemoval(w) PROVE wh'[w].pc \in {"done", "note"}
  BY <1>0, <1>9 DEF RequestRemoval, Webhook, NotePc
<1>10. ASSUME NoteLookup(w) PROVE wh'[w].pc \in {"done", "note", "noteCreate"}
  BY <1>0, <1>10 DEF NoteLookup, Webhook, Noted, NotePc
<1>11. ASSUME NoteCreate(w) PROVE wh'[w].pc \in {"done", "note"}
  BY <1>0, <1>11 DEF NoteCreate, Webhook, Noted, NotePc
<1>12. FindCharge(w)
  BY <1>1, <1>2, <1>3, <1>4, <1>5, <1>6, <1>7, <1>8, <1>9, <1>10, <1>11 DEF WebhookStep
<1>13. wh'[w].charge = wh[w].charge /\ wh'[w].row = charge[wh[w].charge]
  BY <1>0, <1>12 DEF FindCharge, Webhook
<1>14. charge[wh[w].charge].status # "PAID"
  BY <1>0, <1>12 DEF FindCharge, Webhook
<1>15. wh[w].charge \in Charges /\ UNCHANGED charge
  BY <1>0, <1>12 DEF FindCharge, WorkingWebhook, rows
<1>16. QED
  BY <1>13, <1>14, <1>15

\* A cycle works from the rows of its batch, none of which is PAID when read.
CycleRows(j) ==
    \A c \in job'[j].todo :
        \/ c \in job[j].todo /\ job'[j].rows[c] = job[j].rows[c]
        \/ /\ UNCHANGED charge /\ c \in Charges
           /\ job'[j].rows[c] = charge[c] /\ charge[c].status # "PAID"

\* Leaving a charge keeps the rows of the others.
LEMMA FinishChargeRows ==
    ASSUME job \in [Cycles -> Cycle], NEW j \in Cycles, NEW c, FinishCharge(j, c)
    PROVE  \A d \in job'[j].todo : d \in job[j].todo /\ job'[j].rows[d] = job[j].rows[d]
<1>1. CASE job[j].todo \subseteq {c}
  <2>1. job'[j] = IdleCycle
    BY <1>1 DEF FinishCharge
  <2>2. QED
    BY <2>1 DEF IdleCycle
<1>2. CASE ~(job[j].todo \subseteq {c})
  <2> DEFINE r == [job[j] EXCEPT !.pc = "next", !.todo = job[j].todo \ {c},
                                 !.charge = NoCharge, !.target = "PENDING",
                                 !.won = FALSE]
  <2>1. r.todo \subseteq job[j].todo /\ r.rows = job[j].rows
    BY DEF Cycle
  <2>2. job' = [job EXCEPT ![j] = r]
    BY <1>2 DEF FinishCharge
  <2> HIDE DEF r
  <2>3. QED
    BY <2>1, <2>2
<1>3. QED
  BY <1>1, <1>2

\* A cycle works from the rows its queries returned and no others.
LEMMA CycleKeepsRows ==
    ASSUME TypeInv, NEW j \in Cycles, CycleStep(j) \/ CycleFault(j)
    PROVE  CycleRows(j)
<1>0. job \in [Cycles -> Cycle] /\ job[j] \in Cycle
  BY DEF TypeInv, TypeOK
<1>a. ASSUME NEW c, FinishCharge(j, c) PROVE CycleRows(j)
  BY <1>0, <1>a, FinishChargeRows DEF CycleRows
<1>b. ASSUME job'[j].todo = job[j].todo, job'[j].rows = job[j].rows PROVE CycleRows(j)
  BY <1>b DEF CycleRows
<1>1. ASSUME StartCycle(j) PROVE CycleRows(j)
  <2> DEFINE pending == FirstN({c \in Charges : charge[c].status = "PENDING"}, BatchSize)
             pc == IF Cardinality(pending) < BatchSize THEN "expired" ELSE "next"
             held == Read(IdleCycle.rows, pending)
             r == [IdleCycle EXCEPT !.pc = pc, !.todo = pending, !.late = overdue,
                                    !.rows = held]
  <2>1. \A c \in pending : c \in Charges /\ charge[c].status = "PENDING"
    <3>1. pending \subseteq {c \in Charges : charge[c].status = "PENDING"}
      BY FirstNType, Zenon
    <3> HIDE DEF pending
    <3>2. QED
      BY <3>1
  <2>2. job' = [job EXCEPT ![j] = r] /\ UNCHANGED charge
    BY <1>1 DEF StartCycle, rows
  <2>3. \A c \in pending : held[c] = charge[c]
    BY <2>1 DEF Read
  <2> HIDE DEF pending, pc, held
  <2>4. r.todo = pending /\ r.rows = held
    BY DEF IdleCycle
  <2> HIDE DEF r
  <2>5. job'[j] = r
    BY <1>0, <2>2
  <2>6. QED
    BY <2>1, <2>2, <2>3, <2>4, <2>5 DEF CycleRows
<1>9. ASSUME ReadExpired(j) PROVE CycleRows(j)
  <2> DEFINE found == FirstN(Overdue(j), BatchSize - Cardinality(job[j].todo))
             todo == job[j].todo \cup found
             held == Read(job[j].rows, found)
             r == IF todo = {} THEN IdleCycle
                  ELSE [job[j] EXCEPT !.pc = "next", !.todo = todo, !.rows = held]
  <2>1. \A c \in found : c \in Charges /\ charge[c].status # "PAID" /\ c \notin job[j].todo
    <3>1. found \subseteq Overdue(j)
      BY FirstNType, Zenon
    <3> HIDE DEF found
    <3>2. QED
      BY <1>0, <3>1 DEF Overdue, Cycle
  <2>2. job' = [job EXCEPT ![j] = r] /\ UNCHANGED charge
    BY <1>9 DEF ReadExpired, rows
  <2>3. \A c \in todo : \/ c \in found /\ held[c] = charge[c]
                        \/ c \in job[j].todo /\ held[c] = job[j].rows[c]
    <3>1. ASSUME NEW c \in Charges
          PROVE  held[c] = IF c \in found THEN charge[c] ELSE job[j].rows[c]
      BY DEF Read
    <3>2. job[j].todo \subseteq Charges
      BY <1>0 DEF Cycle
    <3>3. \A c \in todo : c \in found \/ c \in job[j].todo
      OBVIOUS
    <3> HIDE DEF found, todo, held
    <3>4. ASSUME NEW c \in todo
          PROVE  \/ c \in found /\ held[c] = charge[c]
                 \/ c \in job[j].todo /\ held[c] = job[j].rows[c]
      <4>1. c \in Charges
        BY <2>1, <3>2, <3>3
      <4>2. held[c] = IF c \in found THEN charge[c] ELSE job[j].rows[c]
        BY <3>1, <4>1
      <4>3. CASE c \in found
        BY <4>2, <4>3
      <4>4. CASE c \notin found
        BY <3>3, <4>2, <4>4
      <4>5. QED
        BY <4>3, <4>4
    <3>5. QED
      BY <3>4
  <2>4. CASE todo = {}
    <3>1. r = IdleCycle
      BY <2>4
    <3> HIDE DEF r
    <3>2. job'[j].todo = {}
      BY <1>0, <2>2, <3>1 DEF IdleCycle
    <3>3. QED
      BY <3>2 DEF CycleRows
  <2>5. CASE todo # {}
    <3>1. r = [job[j] EXCEPT !.pc = "next", !.todo = todo, !.rows = held]
      BY <2>5
    <3> HIDE DEF found, todo, held, r
    <3>2. r.todo = todo /\ r.rows = held
      BY <1>0, <3>1 DEF Cycle
    <3>3. job'[j] = r
      BY <1>0, <2>2
    <3>4. QED
      BY <2>1, <2>2, <2>3, <3>2, <3>3 DEF CycleRows
  <2>6. QED
    BY <2>4, <2>5
<1>2. ASSUME NEW c \in Charges, JobFetch(j, c) PROVE CycleRows(j)
  <2>1. FinishCharge(j, c) \/ \E target : job' = [job EXCEPT ![j] = [job[j] EXCEPT
                                     !.pc = "lock", !.charge = c, !.target = target]]
    BY <1>2 DEF JobFetch
  <2>2. ASSUME NEW target, job' = [job EXCEPT ![j] = [job[j] EXCEPT
                                     !.pc = "lock", !.charge = c, !.target = target]]
        PROVE  CycleRows(j)
    <3>1. job'[j].todo = job[j].todo /\ job'[j].rows = job[j].rows
      BY <1>0, <2>2 DEF Cycle
    <3>2. QED
      BY <3>1, <1>b
  <2>3. QED
    BY <2>1, <2>2, <1>a
<1>3. ASSUME NEW c \in Charges, JobFetchFails(j, c) PROVE CycleRows(j)
  BY <1>3, <1>a DEF JobFetchFails
<1>4. ASSUME JobLock(j) PROVE CycleRows(j)
  <2>1. job'[j].todo = job[j].todo /\ job'[j].rows = job[j].rows
    BY <1>0, <1>4 DEF JobLock, Cycle
  <2>2. QED
    BY <2>1, <1>b
<1>5. ASSUME NEW pc, job' = [job EXCEPT ![j].pc = pc] PROVE CycleRows(j)
  <2>1. job'[j].todo = job[j].todo /\ job'[j].rows = job[j].rows
    BY <1>0, <1>5 DEF Cycle
  <2>2. QED
    BY <2>1, <1>b
<1>6. ASSUME JobEvent(j) \/ JobFindSettlement(j) \/ JobSettle(j) PROVE CycleRows(j)
  BY <1>6, <1>5, <1>a DEF JobEvent, AfterJobEvent, JobFindSettlement, JobSettle
<1>7. ASSUME CycleFault(j) PROVE CycleRows(j)
  <2>1. ASSUME job' = [job EXCEPT ![j] = IdleCycle] PROVE CycleRows(j)
    BY <1>0, <2>1 DEF IdleCycle, CycleRows
  <2>2. QED
    BY <1>7, <2>1, <1>5, <1>a DEF CycleFault, AfterJobEvent
<1>8. QED
  BY <1>1, <1>2, <1>3, <1>4, <1>6, <1>7, <1>9 DEF CycleStep

\* A step of one cycle leaves the other cycles alone.
LEMMA CycleOthers ==
    ASSUME TypeInv, NEW j \in Cycles, CycleStep(j) \/ CycleFault(j)
    PROVE  \A i \in Cycles \ {j} : job'[i] = job[i]
<1>0. job \in [Cycles -> Cycle]
  BY DEF TypeInv, TypeOK
<1>a. ASSUME NEW c, FinishCharge(j, c) PROVE \A i \in Cycles \ {j} : job'[i] = job[i]
  BY <1>0, <1>a, FinishChargeType
<1>b. ASSUME NEW r, job' = [job EXCEPT ![j] = r]
      PROVE  \A i \in Cycles \ {j} : job'[i] = job[i]
  BY <1>0, <1>b
<1>1. \/ job' = job
      \/ \E c : FinishCharge(j, c)
      \/ \E r : job' = [job EXCEPT ![j] = r]
  BY DEF CycleStep, StartCycle, ReadExpired, JobFetch, JobFetchFails, JobLock, JobEvent, AfterJobEvent,
     JobFindSettlement, JobSettle, CycleFault
<1>2. QED
  BY <1>1, <1>a, <1>b

\* A resynchronisation that has not written yet did not write before.
LEMMA ResyncLasts ==
    ASSUME TypeInv, [Next]_vars, NoResync'
    PROVE  NoResync /\ \A s \in Syncs : ~SyncWrite(s)
<1>0. sync \in [Syncs -> Sync]
  BY DEF TypeInv, TypeOK
<1>1. ASSUME NEW s \in Syncs, SyncWrite(s) PROVE FALSE
  <2>1. sync'[s].pc \in {"event", "done"}
    BY <1>0, <1>1 DEF SyncWrite, ToSync, Sync
  <2>2. QED
    BY <2>1 DEF NoResync
<1>2. CASE UNCHANGED sync
  BY <1>1, <1>2 DEF NoResync
<1>3. ASSUME NEW s \in Syncs,
             SyncStep(s) \/ SyncFault(s) \/ \E c \in Charges : SyncRead(s, c)
      PROVE  NoResync
  <2>1. \A t \in Syncs \ {s} : sync'[t] = sync[t]
    BY <1>0, <1>3 DEF SyncStep, SyncFetch, SyncFetchFails, SyncWrite, SyncEvent, SyncFindSettlement,
       SyncSettle, SyncNoteLookup, SyncNoteCreate, SyncRead, SyncFault, AfterSyncEvent, ToSync
  <2>2. sync[s].pc \in {"idle", "fetch", "write"} \/ sync'[s].pc \notin {"idle", "fetch", "write"}
    <3>1. sync[s] \in Sync
      BY <1>0
    <3>2. ASSUME NEW pc, ToSync(s, pc) PROVE sync'[s].pc = pc
      BY <1>0, <3>1, <3>2 DEF ToSync, Sync
    <3>3. ASSUME SyncStep(s) \/ SyncFault(s), sync[s].pc \notin {"idle", "fetch", "write"}
          PROVE  \E pc \in {"find", "settle", "note", "noteCreate", "done"} : ToSync(s, pc)
      BY <3>3 DEF SyncStep, SyncFetch, SyncFetchFails, SyncWrite, SyncEvent, SyncFindSettlement,
         SyncSettle, SyncNoteLookup, SyncNoteCreate, SyncFault, AfterSyncEvent
    <3>4. (\E c \in Charges : SyncRead(s, c)) => sync[s].pc = "idle"
      BY DEF SyncRead
    <3>5. QED
      BY <1>3, <3>2, <3>3, <3>4
  <2>3. QED
    BY <2>1, <2>2 DEF NoResync
<1>4. UNCHANGED sync \/ \E s \in Syncs :
        SyncStep(s) \/ SyncFault(s) \/ \E c \in Charges : SyncRead(s, c)
  <2>1. ASSUME NEW w \in Webhooks,
               WebhookStep(w) \/ WebhookFault(w) \/ \E c \in Charges : Deliver(w, c)
        PROVE  UNCHANGED sync
    BY <2>1 DEF WebhookStep, DedupLookup, FindCharge, LockPaid, Refetch, WebhookEvent, EnsureLookup,
       CreateSettlement, ReadTotal, WriteProjection, RequestRemoval, NoteLookup, NoteCreate,
       Deliver, WebhookFault, WebhookUnchanged
  <2>2. ASSUME NEW j \in Cycles, CycleStep(j) \/ CycleFault(j) PROVE UNCHANGED sync
    BY <2>2 DEF CycleStep, StartCycle, ReadExpired, JobFetch, JobFetchFails, JobLock, JobEvent,
       JobFindSettlement, JobSettle, CycleFault, JobUnchanged
  <2>3. Environment => UNCHANGED sync
    BY DEF Environment, BankRegister, BankPay, BankRemove, Expire, procs
  <2>4. QED
    BY <2>1, <2>2, <2>3 DEF Next, vars
<1>5. QED
  BY <1>1, <1>2, <1>3, <1>4

\* Every write of a charge goes through the version, and spares PAID charges.
LEMMA ChargeMoves ==
    ASSUME LockInv, NoResync', Next
    PROVE  \/ UNCHANGED charge
           \/ \E c \in Charges, status \in Status :
                MoveTo(c, status) /\ charge[c].status # "PAID"
<1>1. ASSUME NEW w \in Webhooks, LockPaid(w), ~UNCHANGED charge
      PROVE  /\ wh[w].charge \in Charges /\ MoveTo(wh[w].charge, "PAID")
             /\ charge[wh[w].charge].status # "PAID"
  BY <1>1 DEF LockPaid, LockInv, TypeInv, Working, WorkingWebhook, Versioned, Fresh,
     VersionMatches
<1>2. ASSUME NEW j \in Cycles, JobLock(j), ~UNCHANGED charge
      PROVE  /\ job[j].charge \in Charges /\ MoveTo(job[j].charge, job[j].target)
             /\ job[j].target \in Status /\ charge[job[j].charge].status # "PAID"
  <2>1. job[j].charge \in Charges \cap job[j].todo /\ job[j].target \in Status
    BY <1>2 DEF JobLock, LockInv, TypeInv, TypeOK, Working, WorkingCycle, Cycle
  <2>2. Fresh(job[j].rows[job[j].charge], job[j].charge)
    BY <2>1 DEF LockInv, Versioned
  <2>3. QED
    BY <1>2, <2>1, <2>2 DEF JobLock, Fresh, VersionMatches
<1>3. ASSUME NEW w \in Webhooks,
             WebhookStep(w) \/ WebhookFault(w) \/ \E c \in Charges : Deliver(w, c),
             ~LockPaid(w)
      PROVE  UNCHANGED charge
  BY <1>3 DEF WebhookStep, DedupLookup, FindCharge, Refetch, WebhookEvent, EnsureLookup,
     CreateSettlement, ReadTotal, WriteProjection, RequestRemoval, NoteLookup, NoteCreate,
     Deliver, WebhookFault, Fault, rows
<1>4. ASSUME NEW j \in Cycles, CycleStep(j) \/ CycleFault(j), ~JobLock(j)
      PROVE  UNCHANGED charge
  BY <1>4 DEF CycleStep, StartCycle, ReadExpired, JobFetch, JobFetchFails, JobEvent, JobFindSettlement,
     JobSettle, CycleFault, Fault, rows
<1>5. Environment => UNCHANGED charge
  BY DEF Environment, BankRegister, BankPay, BankRemove, Expire, rows
<1>6. ASSUME NEW s \in Syncs,
             SyncStep(s) \/ SyncFault(s) \/ \E c \in Charges : SyncRead(s, c)
      PROVE  UNCHANGED charge
  <2>1. ~SyncWrite(s)
    BY ResyncLasts DEF LockInv
  <2>2. QED
    BY <1>6, <2>1 DEF SyncStep, SyncFetch, SyncFetchFails, SyncEvent, SyncFindSettlement,
       SyncSettle, SyncNoteLookup, SyncNoteCreate, SyncRead, SyncFault, Fault, rows
<1>7. QED
  BY <1>1, <1>2, <1>3, <1>4, <1>5, <1>6 DEF Next

\* A row a process still holds after a step was held before it or just read.
LEMMA HeldRows ==
    ASSUME TypeInv, Next
    PROVE  /\ \A w \in Webhooks : wh'[w].pc = "lock" =>
                \/ /\ wh[w].pc = "lock" /\ wh'[w].row = wh[w].row
                   /\ wh'[w].charge = wh[w].charge
                \/ /\ UNCHANGED charge /\ wh'[w].charge \in Charges
                   /\ wh'[w].row = charge[wh'[w].charge]
                   /\ charge[wh'[w].charge].status # "PAID"
           /\ \A j \in Cycles : CycleRows(j)
<1> DEFINE Same(w) == wh'[w] = wh[w]
           Quiet(w) == wh'[w].pc # "lock"
<1>0. wh \in [Webhooks -> Webhook] /\ job \in [Cycles -> Cycle]
  BY DEF TypeInv, TypeOK
<1>1. ASSUME UNCHANGED job PROVE \A j \in Cycles : CycleRows(j)
  BY <1>1 DEF CycleRows
<1>2. ASSUME NEW w \in Webhooks, WebhookStep(w)
      PROVE  UNCHANGED job /\ \A v \in Webhooks \ {w} : Same(v)
  BY <1>2, WebhookBooks
<1>3. ASSUME NEW w \in Webhooks, WebhookFault(w)
      PROVE  UNCHANGED job /\ Quiet(w) /\ \A v \in Webhooks \ {w} : Same(v)
  <2>1. wh[w] \in Webhook
    BY <1>0
  <2>2. UNCHANGED job
    BY <1>3 DEF WebhookFault
  <2>3. ASSUME ToWebhook(w, "done") PROVE Quiet(w) /\ \A v \in Webhooks \ {w} : Same(v)
    BY <1>0, <2>1, <2>3 DEF ToWebhook, Webhook
  <2>4. ASSUME wh' = [wh EXCEPT ![w] = [wh[w] EXCEPT !.pc = "ensure", !.notes = 1]]
        PROVE  Quiet(w) /\ \A v \in Webhooks \ {w} : Same(v)
    BY <1>0, <2>1, <2>4 DEF Webhook
  <2>5. QED
    BY <1>3, <2>2, <2>3, <2>4 DEF WebhookFault
<1>4. ASSUME NEW w \in Webhooks, NEW c \in Charges, Deliver(w, c)
      PROVE  UNCHANGED job /\ Quiet(w) /\ \A v \in Webhooks \ {w} : Same(v)
  <2> DEFINE r == [IdleWebhook EXCEPT !.pc = "dedup", !.charge = c]
  <2>1. r.pc = "dedup" /\ wh' = [wh EXCEPT ![w] = r] /\ UNCHANGED job
    BY <1>4 DEF Deliver, IdleWebhook, WebhookUnchanged
  <2> HIDE DEF r
  <2>2. QED
    BY <1>0, <2>1
<1>5. ASSUME NEW j \in Cycles, CycleStep(j) \/ CycleFault(j)
      PROVE  /\ UNCHANGED wh
             /\ \A i \in Cycles : CycleRows(i)
  <2>1. \A i \in Cycles \ {j} : job'[i] = job[i]
    BY <1>0, <1>5, CycleOthers
  <2>2. UNCHANGED wh
    BY <1>5 DEF CycleStep, StartCycle, ReadExpired, JobFetch, JobFetchFails, JobLock, JobEvent,
       JobFindSettlement, JobSettle, JobUnchanged, CycleFault
  <2>3. \A i \in Cycles \ {j} : CycleRows(i)
    BY <2>1 DEF CycleRows
  <2>4. QED
    BY <1>5, <2>2, <2>3, CycleKeepsRows
<1>6. ASSUME NEW s \in Syncs,
             SyncStep(s) \/ SyncFault(s) \/ \E c \in Charges : SyncRead(s, c)
      PROVE  UNCHANGED <<wh, job>>
  BY <1>6 DEF SyncStep, SyncFetch, SyncFetchFails, SyncWrite, SyncEvent, SyncFindSettlement,
     SyncSettle, SyncNoteLookup, SyncNoteCreate, SyncRead, SyncUnchanged, SyncFault
<1>7. Environment => UNCHANGED <<wh, job>>
  BY DEF Environment, BankRegister, BankPay, BankRemove, Expire, procs
<1>8. ASSUME NEW w \in Webhooks, WebhookStep(w), wh'[w].pc = "lock"
      PROVE  /\ UNCHANGED charge /\ wh'[w].charge \in Charges
             /\ wh'[w].row = charge[wh'[w].charge]
             /\ charge[wh'[w].charge].status # "PAID"
  BY <1>8, WebhookRow
<1>9. QED
  BY <1>1, <1>2, <1>3, <1>4, <1>5, <1>6, <1>7, <1>8 DEF Next

\* The invariant behind the version column is inductive.
LEMMA LockStep ==
    ASSUME LockInv, NoResync', [Next]_vars
    PROVE  /\ LockInv'
           /\ \A c \in Charges : charge[c].status = "PAID" => charge'[c] = charge[c]
<1>0. TypeInv' /\ TypeInv /\ charge \in [Charges -> Row]
  BY TypeStep DEF LockInv, TypeInv, TypeOK
<1>1. CASE UNCHANGED vars
  BY <1>0, <1>1 DEF vars, LockInv, Versioned, Fresh
<1>2. CASE Next
  <2>1. \/ UNCHANGED charge
        \/ \E c \in Charges, status \in Status :
             MoveTo(c, status) /\ charge[c].status # "PAID"
    BY <1>2, ChargeMoves
  <2>2. ASSUME NEW c \in Charges, NEW row \in Row, Fresh(row, c) PROVE Fresh(row, c)'
    <3>1. CASE UNCHANGED charge
      BY <2>2, <3>1 DEF Fresh
    <3>2. ASSUME NEW d \in Charges, NEW status \in Status, MoveTo(d, status)
          PROVE  Fresh(row, c)'
      BY <1>0, <2>2, <3>2, FreshStays
    <3>3. QED
      BY <2>1, <3>1, <3>2
  <2>3. ASSUME NEW w \in Webhooks, wh'[w].pc = "lock"
        PROVE  Fresh(wh[w].row, wh[w].charge)'
    <3>1. wh[w] \in Webhook /\ (wh[w].pc = "lock" => wh[w].charge \in Charges)
      BY <1>0 DEF TypeInv, TypeOK, Working, WorkingWebhook
    <3>2. CASE /\ wh[w].pc = "lock" /\ wh'[w].row = wh[w].row
               /\ wh'[w].charge = wh[w].charge
      <4>1. Fresh(wh[w].row, wh[w].charge) /\ wh[w].row \in Row
        BY <3>1, <3>2 DEF LockInv, Versioned, Webhook
      <4>2. wh'[w].row.version <= charge'[wh'[w].charge].version
            /\ (wh'[w].row.version = charge'[wh'[w].charge].version
                  => charge'[wh'[w].charge].status # "PAID")
        BY <2>2, <3>1, <3>2, <4>1 DEF Fresh
      <4>3. QED
        BY <4>2 DEF Fresh
    <3>3. CASE /\ UNCHANGED charge /\ wh'[w].charge \in Charges
               /\ wh'[w].row = charge[wh'[w].charge]
               /\ charge[wh'[w].charge].status # "PAID"
      BY <1>0, <3>3 DEF Fresh
    <3>4. QED
      BY <1>0, <1>2, <2>3, <3>2, <3>3, HeldRows
  <2>4. ASSUME NEW j \in Cycles, NEW c \in job'[j].todo
        PROVE  Fresh(job[j].rows[c], c)'
    <3>1. job[j] \in Cycle /\ CycleRows(j)
      BY <1>0, <1>2, HeldRows DEF TypeInv, TypeOK
    <3>2. CASE c \in job[j].todo /\ job'[j].rows[c] = job[j].rows[c]
      <4>1. c \in Charges /\ job[j].rows[c] \in Row /\ Fresh(job[j].rows[c], c)
        BY <3>1, <3>2 DEF Cycle, LockInv, Versioned
      <4>2. /\ job'[j].rows[c].version <= charge'[c].version
            /\ job'[j].rows[c].version = charge'[c].version => charge'[c].status # "PAID"
        BY <2>2, <3>2, <4>1 DEF Fresh
      <4>3. QED
        BY <4>2 DEF Fresh
    <3>3. CASE /\ UNCHANGED charge /\ c \in Charges
               /\ job'[j].rows[c] = charge[c] /\ charge[c].status # "PAID"
      BY <1>0, <3>3 DEF Fresh
    <3>4. QED
      BY <3>1, <3>2, <3>3 DEF CycleRows
  <2>5. \A c \in Charges : charge[c].status = "PAID" => charge'[c] = charge[c]
    BY <1>0, <2>1 DEF MoveTo
  <2>6. QED
    BY <1>0, <2>3, <2>4, <2>5 DEF LockInv, Versioned
<1>3. QED
  BY <1>1, <1>2

\* As long as no resynchronisation has written, the version column of PaymentCharge
\* makes PAID final: no webhook or cycle, however stale the row it holds,
\* changes a charge that has been paid.
THEOREM PaidStays == Spec => PaidIsFinal
<1> DEFINE Inv == TypeInv /\ (NoResync => Versioned)
           Kept == \A c \in Charges : charge[c].status = "PAID" => charge'[c] = charge[c]
<1>1. Init => Inv
  <2> SUFFICES ASSUME Init PROVE Inv
    OBVIOUS
  <2>1. TypeInv
    BY TypeInit
  <2>2. Versioned
    BY DEF Init, Versioned, IdleWebhook, IdleCycle
  <2>3. QED
    BY <2>1, <2>2
<1>2. ASSUME Inv, [Next]_vars PROVE Inv' /\ (NoResync' => Kept)
  <2>1. TypeInv'
    BY <1>2, TypeStep
  <2>2. ASSUME NoResync' PROVE Versioned' /\ Kept
    <3>1. LockInv
      BY <1>2, <2>2, ResyncLasts DEF LockInv
    <3>2. QED
      BY <1>2, <2>2, <3>1, LockStep DEF LockInv
  <2>3. QED
    BY <2>1, <2>2
<1>3. Inv /\ [Next]_vars => Inv'
  BY <1>2
<1>4. Inv /\ [Next]_vars => [NoResync' => Kept]_vars
  BY <1>2
<1>5. QED
  BY <1>1, <1>3, <1>4, PTL DEF Spec, PaidIsFinal

-----------------------------------------------------------------------------
(* The hand-over to the Serasa removal.  A refresh marks the contract PAID   *)
(* before it asks for the removal, and no later refresh takes that back.     *)

HandOver ==
    /\ RemovalFollowsPaid
    /\ \A w \in Webhooks : wh[w].pc = "remove" => contract[ContractOf[wh[w].charge]].paid

RemovalInv == TypeInv /\ HandOver

\* The step of one delivery, in the terms of the hand-over.
LEMMA WebhookHandsOver ==
    ASSUME TypeInv, NEW w \in Webhooks, WebhookStep(w)
    PROVE  /\ \A k \in Contracts : contract[k].paid => contract'[k].paid
           /\ \A k \in removals' \ removals :
                wh[w].pc = "remove" /\ k = ContractOf[wh[w].charge]
           /\ wh'[w].pc = "remove" => contract'[ContractOf[wh[w].charge]].paid
<1> DEFINE Goal == /\ \A k \in Contracts : contract[k].paid => contract'[k].paid
                   /\ \A k \in removals' \ removals :
                        wh[w].pc = "remove" /\ k = ContractOf[wh[w].charge]
                   /\ wh'[w].pc = "remove" => contract'[ContractOf[wh[w].charge]].paid
<1>0. /\ wh \in [Webhooks -> Webhook] /\ wh[w] \in Webhook /\ WorkingWebhook(wh[w])
      /\ contract \in [Contracts -> [paid : BOOLEAN, counted : SUBSET Key]]
  BY DEF TypeInv, TypeOK, Working
<1> USE DEF ToWebhook
<1>1. ASSUME DedupLookup(w) PROVE wh'[w].pc \in {"note", "find"}
  BY <1>0, <1>1 DEF DedupLookup, Webhook
<1>2. ASSUME FindCharge(w) PROVE wh'[w].pc \in {"ensure", "lock"}
  BY <1>0, <1>2 DEF FindCharge, Webhook
<1>3. ASSUME LockPaid(w) PROVE wh'[w].pc \in {"event", "refetch"}
  BY <1>0, <1>3 DEF LockPaid, Webhook
<1>4. ASSUME Refetch(w) PROVE wh'[w].pc \in {"ensure", "done"}
  BY <1>0, <1>4 DEF Refetch, Webhook
<1>5. ASSUME WebhookEvent(w) PROVE wh'[w].pc \in {"ensure"}
  BY <1>0, <1>5 DEF WebhookEvent, Webhook
<1>6. ASSUME EnsureLookup(w) PROVE wh'[w].pc \in {"total", "create"}
  BY <1>0, <1>6 DEF EnsureLookup, Webhook
<1>7. ASSUME CreateSettlement(w) PROVE wh'[w].pc \in {"total"}
  BY <1>0, <1>7 DEF CreateSettlement, Webhook
<1>8. ASSUME ReadTotal(w) PROVE wh'[w].pc \in {"project"}
  BY <1>0, <1>8 DEF ReadTotal, Webhook
<1>9. ASSUME RequestRemoval(w) PROVE wh'[w].pc \in {"done", "note"}
  BY <1>0, <1>9 DEF RequestRemoval, Webhook, NotePc
<1>10. ASSUME NoteLookup(w) PROVE wh'[w].pc \in {"done", "note", "noteCreate"}
  BY <1>0, <1>10 DEF NoteLookup, Webhook, Noted, NotePc
<1>11. ASSUME NoteCreate(w) PROVE wh'[w].pc \in {"done", "note"}
  BY <1>0, <1>11 DEF NoteCreate, Webhook, Noted, NotePc
<1>12. ASSUME RequestRemoval(w) PROVE Goal
  BY <1>9, <1>12 DEF RequestRemoval
<1>13. ASSUME WriteProjection(w) PROVE Goal
  <2>1. ContractOf[wh[w].charge] \in Contracts
    BY <1>0, <1>13, ContractAssumption DEF WriteProjection, WorkingWebhook
  <2>2. UNCHANGED removals /\ \A k \in Contracts : contract[k].paid => contract'[k].paid
    BY <1>0, <1>13, <2>1 DEF WriteProjection
  <2>3. CASE wh[w].full
    BY <1>0, <1>13, <2>1, <2>2, <2>3 DEF WriteProjection
  <2>4. CASE ~wh[w].full
    <3>1. wh'[w].pc \in {"done", "note"}
      BY <1>0, <1>13, <2>4 DEF WriteProjection, NotePc, Webhook
    <3>2. QED
      BY <2>2, <3>1
  <2>5. QED
    BY <2>3, <2>4
<1>14. ~RequestRemoval(w) /\ ~WriteProjection(w) => UNCHANGED <<contract, removals>>
  BY DEF WebhookStep, DedupLookup, FindCharge, LockPaid, Refetch, WebhookEvent, EnsureLookup,
     CreateSettlement, ReadTotal, NoteLookup, NoteCreate, rows
<1>15. ~RequestRemoval(w) /\ ~WriteProjection(w) => wh'[w].pc # "remove"
  BY <1>1, <1>2, <1>3, <1>4, <1>5, <1>6, <1>7, <1>8, <1>10, <1>11 DEF WebhookStep
<1>16. QED
  BY <1>12, <1>13, <1>14, <1>15

\* A contract is marked paid before it is handed over: inductive.
LEMMA RemovalStep == RemovalInv /\ [Next]_vars => RemovalInv'
<1> SUFFICES ASSUME RemovalInv, [Next]_vars PROVE RemovalInv'
  OBVIOUS
<1>0. TypeInv /\ TypeInv' /\ wh \in [Webhooks -> Webhook]
  BY TypeStep DEF RemovalInv, TypeInv, TypeOK
<1>a. ASSUME UNCHANGED <<contract, removals>>,
             \A w \in Webhooks : wh'[w].pc = "remove" => wh'[w] = wh[w]
      PROVE  HandOver'
  BY <1>a DEF RemovalInv, HandOver, RemovalFollowsPaid
<1>1. ASSUME NEW w \in Webhooks, WebhookStep(w) PROVE HandOver'
  <2>1. /\ wh'[w].charge = wh[w].charge /\ \A v \in Webhooks \ {w} : wh'[v] = wh[v]
    BY <1>0, <1>1, WebhookBooks
  <2>2. /\ \A k \in Contracts : contract[k].paid => contract'[k].paid
        /\ \A k \in removals' \ removals :
             wh[w].pc = "remove" /\ k = ContractOf[wh[w].charge]
        /\ wh'[w].pc = "remove" => contract'[ContractOf[wh[w].charge]].paid
    BY <1>0, <1>1, WebhookHandsOver
  <2>3. \A v \in Webhooks : wh[v].pc = "remove" => ContractOf[wh[v].charge] \in Contracts
    BY <1>0, ContractAssumption DEF TypeInv, Working, WorkingWebhook
  <2>4. \A k \in removals : k \in Contracts
    BY <1>0 DEF TypeInv, TypeOK
  <2>5. \A k \in removals' : contract'[k].paid
    BY <2>2, <2>3, <2>4 DEF RemovalInv, HandOver, RemovalFollowsPaid
  <2>6. \A v \in Webhooks : wh'[v].pc = "remove" => contract'[ContractOf[wh'[v].charge]].paid
    BY <2>1, <2>2, <2>3 DEF RemovalInv, HandOver
  <2>7. QED
    BY <2>5, <2>6 DEF HandOver, RemovalFollowsPaid
<1>2. ASSUME NEW w \in Webhooks, WebhookFault(w) PROVE HandOver'
  <2>1. UNCHANGED <<contract, removals>>
    BY <1>2 DEF WebhookFault, Fault, rows
  <2>2. wh'[w].pc # "remove" /\ \A v \in Webhooks \ {w} : wh'[v] = wh[v]
    <3>1. wh[w] \in Webhook
      BY <1>0
    <3>2. ASSUME ToWebhook(w, "done")
          PROVE  wh'[w].pc # "remove" /\ \A v \in Webhooks \ {w} : wh'[v] = wh[v]
      BY <1>0, <3>1, <3>2 DEF ToWebhook, Webhook
    <3>3. ASSUME wh' = [wh EXCEPT ![w] = [wh[w] EXCEPT !.pc = "ensure", !.notes = 1]]
          PROVE  wh'[w].pc # "remove" /\ \A v \in Webhooks \ {w} : wh'[v] = wh[v]
      BY <1>0, <3>1, <3>3 DEF Webhook
    <3>4. QED
      BY <1>2, <3>2, <3>3 DEF WebhookFault
  <2>3. QED
    BY <1>a, <2>1, <2>2
<1>3. ASSUME NEW w \in Webhooks, NEW c \in Charges, Deliver(w, c) PROVE HandOver'
  <2> DEFINE r == [IdleWebhook EXCEPT !.pc = "dedup", !.charge = c]
  <2>1. r.pc = "dedup" /\ wh' = [wh EXCEPT ![w] = r] /\ UNCHANGED <<contract, removals>>
    BY <1>3 DEF Deliver, IdleWebhook, rows
  <2> HIDE DEF r
  <2>2. wh'[w].pc # "remove" /\ \A v \in Webhooks \ {w} : wh'[v] = wh[v]
    BY <1>0, <2>1
  <2>3. QED
    BY <1>a, <2>1, <2>2
<1>4. ASSUME NEW j \in Cycles, CycleStep(j) \/ CycleFault(j)
      PROVE  UNCHANGED <<wh, contract, removals>>
  BY <1>4 DEF CycleStep, StartCycle, ReadExpired, JobFetch, JobFetchFails, JobLock, JobEvent,
     JobFindSettlement, JobSettle, JobUnchanged, CycleFault, Fault, rows
<1>5. ASSUME NEW s \in Syncs,
             SyncStep(s) \/ SyncFault(s) \/ \E c \in Charges : SyncRead(s, c)
      PROVE  UNCHANGED <<wh, contract, removals>>
  BY <1>5 DEF SyncStep, SyncFetch, SyncFetchFails, SyncWrite, SyncEvent, SyncFindSettlement,
     SyncSettle, SyncNoteLookup, SyncNoteCreate, SyncRead, SyncUnchanged, SyncFault, Fault, rows
<1>6. Environment => UNCHANGED <<wh, contract, removals>>
  BY DEF Environment, BankRegister, BankPay, BankRemove, Expire, procs, rows
<1>7. ASSUME UNCHANGED <<wh, contract, removals>> PROVE HandOver'
  BY <1>7, <1>a
<1>8. HandOver'
  BY <1>1, <1>2, <1>3, <1>4, <1>5, <1>6, <1>7 DEF Next, vars
<1>9. QED
  BY <1>0, <1>8 DEF RemovalInv

\* refreshContractPaymentProjection marks the contract PAID in its transaction and
\* calls createAutomaticRemovalForPaidContract after it: no debt is handed to the
\* removal while its contract is unpaid, even if a stale refresh writes last.
THEOREM RemovalIsEarned == Spec => []RemovalFollowsPaid
<1>1. Init => RemovalInv
  <2> SUFFICES ASSUME Init PROVE RemovalInv
    OBVIOUS
  <2>1. TypeInv
    BY TypeInit
  <2>2. HandOver
    BY DEF Init, HandOver, RemovalFollowsPaid, IdleWebhook
  <2>3. QED
    BY <2>1, <2>2 DEF RemovalInv
<1>2. RemovalInv => RemovalFollowsPaid
  BY DEF RemovalInv, HandOver
<1>3. QED
  BY <1>1, <1>2, RemovalStep, PTL DEF Spec
=============================================================================
