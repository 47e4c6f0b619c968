-------------------------- MODULE PixBookingProofs --------------------------
(***************************************************************************)
(* What the deliveries of PixSettlement achieve: whatever is settled is    *)
(* PAID, and what has been delivered is booked and shown, for every number *)
(* of charges, contracts, deliveries and cycles.                           *)
(***************************************************************************)
EXTENDS PixSettlementProofs, FiniteSetTheorems, WellFoundedInduction

-----------------------------------------------------------------------------
(* The step of one delivery and of one cycle, told by what it was and what   *)
(* it has become.                                                            *)

\* What a delivery at pc does next, in the order of the handler.
Dedups(w) ==
    /\ wh[w].pc = "dedup" /\ UNCHANGED rows
    /\ \/ E2E(wh[w].charge) \in settlements /\ wh'[w].pc = "note" /\ wh'[w].notes = 1
       \/ E2E(wh[w].charge) \notin settlements /\ wh'[w].pc = "find"
Finds(w) ==
    /\ wh[w].pc = "find" /\ UNCHANGED rows
    /\ wh'[w].row = charge[wh[w].charge]
    /\ \/ charge[wh[w].charge].status = "PAID" /\ wh'[w].pc = "ensure"
       \/ charge[wh[w].charge].status # "PAID" /\ wh'[w].pc = "lock"
Locks(w) ==
    /\ wh[w].pc = "lock" /\ UNCHANGED <<settlements, events, interactions, contract, removals>>
    /\ \/ MoveTo(wh[w].charge, "PAID") /\ wh'[w].pc = "event"
       \/ /\ charge[wh[w].charge].version # wh[w].row.version
          /\ UNCHANGED charge /\ wh'[w].pc = "refetch"
Refetches(w) ==
    /\ wh[w].pc = "refetch" /\ UNCHANGED rows
    /\ \/ charge[wh[w].charge].status = "PAID" /\ wh'[w].pc = "ensure"
       \/ charge[wh[w].charge].status # "PAID" /\ wh'[w].pc = "done"
Reports(w) ==
    /\ wh[w].pc = "event" /\ wh'[w].pc = "ensure"
    /\ UNCHANGED <<charge, settlements, interactions, contract, removals>>
Ensures(w) ==
    /\ wh[w].pc = "ensure" /\ UNCHANGED rows
    /\ \/ E2E(wh[w].charge) \in settlements /\ wh'[w].pc = "total"
       \/ E2E(wh[w].charge) \notin settlements /\ wh'[w].pc = "create"
Creates(w) ==
    /\ wh[w].pc = "create" /\ wh'[w].pc = "total"
    /\ settlements' = settlements \cup {E2E(wh[w].charge)}
    /\ E2E(wh[w].charge) \notin settlements => wh'[w].notes > 0
    /\ UNCHANGED <<charge, events, interactions, contract, removals>>
Totals(w) ==
    /\ wh[w].pc = "total" /\ wh'[w].pc = "project" /\ UNCHANGED rows
    /\ wh'[w].notes = wh[w].notes
    /\ \E target \in TargetsOf(ContractOf[wh[w].charge]) :
         wh'[w].full = Covers(ContractSettlements(ContractOf[wh[w].charge]), target)
Projects(w) ==
    /\ wh[w].pc = "project" /\ wh'[w].notes = wh[w].notes /\ wh'[w].full = wh[w].full
    /\ wh'[w].pc = IF wh[w].full THEN "remove" ELSE NotePc(wh[w].notes)
    /\ contract' \in [Contracts -> [paid : BOOLEAN, counted : SUBSET Key]]
    /\ \A k \in Contracts :
         contract'[k].paid = (contract[k].paid \/ (k = ContractOf[wh[w].charge] /\ wh[w].full))
    /\ UNCHANGED <<charge, settlements, events, interactions, removals>>
Removes(w) ==
    /\ wh[w].pc = "remove" /\ wh'[w].notes = wh[w].notes
    /\ wh'[w].pc = NotePc(wh[w].notes)
    /\ removals' = removals \cup {ContractOf[wh[w].charge]}
    /\ UNCHANGED <<charge, settlements, events, interactions, contract>>
Notes(w) ==
    /\ wh[w].pc = "note" /\ UNCHANGED rows
    /\ \/ interactions[E2E(wh[w].charge)] > 0 /\ wh'[w].pc \in {"note", "done"}
       \/ wh'[w].pc = "noteCreate" /\ wh'[w].notes = wh[w].notes
NoteCreates(w) ==
    /\ wh[w].pc = "noteCreate" /\ wh'[w].pc \in {"note", "done"}
    /\ interactions'[E2E(wh[w].charge)] > 0
    /\ \A k \in Key : interactions[k] > 0 => interactions'[k] > 0
    /\ UNCHANGED <<charge, settlements, events, contract, removals>>

\* Every step of a delivery is one of these, on its own record and charge.
LEMMA WebhookTakes ==
    ASSUME TypeInv, NEW w \in Webhooks, WebhookStep(w)
    PROVE  /\ wh'[w].charge = wh[w].charge /\ wh[w].charge \in Charges
           /\ \A v \in Webhooks \ {w} : wh'[v] = wh[v]
           /\ UNCHANGED <<cob, job, sync, faults>>
           /\ \/ Dedups(w) \/ Finds(w) \/ Locks(w) \/ Refetches(w) \/ Reports(w)
              \/ Ensures(w) \/ Creates(w) \/ Totals(w) \/ Projects(w) \/ Removes(w)
              \/ Notes(w) \/ NoteCreates(w)
<1>0. /\ wh \in [Webhooks -> Webhook] /\ wh[w] \in Webhook /\ WorkingWebhook(wh[w])
      /\ contract \in [Contracts -> [paid : BOOLEAN, counted : SUBSET Key]]
      /\ interactions \in [Key -> Nat]
  BY DEF TypeInv, TypeOK, Working
<1>a. /\ wh'[w].charge = wh[w].charge /\ wh[w].pc # "idle"
      /\ \A v \in Webhooks \ {w} : wh'[v] = wh[v]
      /\ UNCHANGED <<cob, job, sync>>
  BY WebhookBooks
<1>b. wh[w].charge \in Charges
  BY <1>0, <1>a DEF WorkingWebhook
<1>c. UNCHANGED faults
  BY DEF WebhookStep, DedupLookup, FindCharge, LockPaid, Refetch, WebhookEvent, EnsureLookup,
     CreateSettlement, ReadTotal, WriteProjection, RequestRemoval, NoteLookup, NoteCreate,
     WebhookUnchanged
<1> USE DEF ToWebhook
<1>1. DedupLookup(w) => Dedups(w)
  BY <1>0 DEF DedupLookup, Dedups, Webhook
<1>2. FindCharge(w) => Finds(w)
  BY <1>0 DEF FindCharge, Finds, Webhook
<1>3. LockPaid(w) => Locks(w)
  BY <1>0 DEF LockPaid, Locks, Webhook, VersionMatches
<1>4. Refetch(w) => Refetches(w)
  BY <1>0 DEF Refetch, Refetches, Webhook
<1>5. WebhookEvent(w) => Reports(w)
  BY <1>0 DEF WebhookEvent, Reports, Webhook
<1>6. EnsureLookup(w) => Ensures(w)
  BY <1>0 DEF EnsureLookup, Ensures, Webhook
<1>7. CreateSettlement(w) => Creates(w)
  BY <1>0 DEF CreateSettlement, Creates, Webhook
<1>8. ReadTotal(w) => Totals(w)
  BY <1>0 DEF ReadTotal, Totals, Webhook
<1>9. ASSUME WriteProjection(w) PROVE Projects(w)
  <2>1. /\ wh'[w].notes = wh[w].notes /\ wh'[w].full = wh[w].full
        /\ wh'[w].pc = IF wh[w].full THEN "remove" ELSE NotePc(wh[w].notes)
    BY <1>0, <1>9 DEF WriteProjection, Webhook
  <2>2. contract' \in [Contracts -> [paid : BOOLEAN, counted : SUBSET Key]]
    <3>1. [paid |-> contract[ContractOf[wh[w].charge]].paid \/ wh[w].full,
           counted |-> wh[w].counted] \in [paid : BOOLEAN, counted : SUBSET Key]
      BY <1>0 DEF Webhook
    <3>2. QED
      BY <1>0, <1>9, <3>1 DEF WriteProjection
  <2>3. \A k \in Contracts : contract'[k].paid
           = (contract[k].paid \/ (k = ContractOf[wh[w].charge] /\ wh[w].full))
    BY <1>0, <1>9 DEF WriteProjection
  <2>4. QED
    BY <1>9, <2>1, <2>2, <2>3 DEF WriteProjection, Projects
<1>10. RequestRemoval(w) => Removes(w)
  BY <1>0 DEF RequestRemoval, Removes, Webhook
<1>11. NoteLookup(w) => Notes(w)
  BY <1>0 DEF NoteLookup, Notes, Webhook, Noted, NotePc
<1>12. NoteCreate(w) => NoteCreates(w)
  <2>1. ASSUME NoteCreate(w) PROVE wh'[w].pc \in {"note", "done"}
    BY <1>0, <2>1 DEF NoteCreate, Webhook, Noted, NotePc
  <2>2. ASSUME NoteCreate(w)
        PROVE  /\ interactions'[E2E(wh[w].charge)] > 0
               /\ \A k \in Key : interactions[k] > 0 => interactions'[k] > 0
    BY <1>0, <1>b, <2>2, KeyType DEF NoteCreate, CountInteraction
  <2>3. QED
    BY <2>1, <2>2 DEF NoteCreate, NoteCreates
<1>13. QED
  BY <1>a, <1>b, <1>c, <1>1, <1>2, <1>3, <1>4, <1>5, <1>6, <1>7, <1>8, <1>9, <1>10, <1>11, <1>12
     DEF WebhookStep

\* What a cycle at pc does next with the charge it works on.
Polls(j) ==
    /\ job[j].pc \in {"idle", "expired", "next"} /\ UNCHANGED rows
    /\ job'[j].pc \in {"idle", "expired", "next", "lock"}
Moves(j) ==
    /\ job[j].pc = "lock" /\ job'[j].pc = "event"
    /\ job'[j].charge = job[j].charge /\ job'[j].target = job[j].target
    /\ UNCHANGED <<settlements, events, interactions, contract, removals>>
    /\ \/ MoveTo(job[j].charge, job[j].target)
       \/ charge[job[j].charge].version # job[j].rows[job[j].charge].version /\ UNCHANGED charge
Announces(j) ==
    /\ job[j].pc = "event" /\ job[j].target = "PAID"
    /\ job'[j].pc = "find" /\ job'[j].charge = job[j].charge /\ job'[j].target = "PAID"
    /\ UNCHANGED <<charge, settlements, interactions, contract, removals>>
Looks(j) ==
    /\ job[j].pc = "find" /\ UNCHANGED rows
    /\ job'[j].pc = "settle" /\ job'[j].charge = job[j].charge
    /\ job'[j].target = job[j].target
Leaves(j) ==
    /\ job[j].pc \in {"lock", "event", "find", "settle"} /\ job'[j].pc \in {"idle", "next"}
    /\ job[j].charge \notin job'[j].todo
    /\ UNCHANGED <<charge, interactions, contract, removals>>
    /\ \/ UNCHANGED settlements
       \/ job[j].pc = "settle" /\ settlements' = settlements \cup {TXID(job[j].charge)}
Stops(j) == job'[j].pc = "idle" /\ job'[j].todo = {} /\ UNCHANGED rows

\* Leaving a charge takes it off the batch.
LEMMA FinishChargeLeaves ==
    ASSUME job \in [Cycles -> Cycle], NEW j \in Cycles, NEW c, FinishCharge(j, c)
    PROVE  c \notin job'[j].todo
<1>1. CASE job[j].todo \subseteq {c}
  <2>1. job'[j] = IdleCycle
    BY <1>1 DEF FinishCharge
  <2>2. QED
    BY <2>1 DEF IdleCycle
<1>2. CASE ~(job[j].todo \subseteq {c})
  <2> DEFINE r == [job[j] EXCEPT !.pc = "next", !.todo = job[j].todo \ {c},
                                 !.charge = NoCharge, !.target = "PENDING",
                                 !.won = FALSE]
  <2>1. c \notin r.todo
    BY DEF Cycle
  <2>2. job' = [job EXCEPT ![j] = r]
    BY <1>2 DEF FinishCharge
  <2> HIDE DEF r
  <2>3. QED
    BY <2>1, <2>2
<1>3. QED
  BY <1>1, <1>2

\* Every step of a cycle is one of these, on its own record and charge.
LEMMA CycleTakes ==
    ASSUME TypeInv, NEW j \in Cycles, CycleStep(j) \/ CycleFault(j)
    PROVE  /\ CycleRows(j) /\ \A i \in Cycles \ {j} : job'[i] = job[i]
           /\ UNCHANGED <<cob, wh, sync>>
           /\ Polls(j) \/ Moves(j) \/ Announces(j) \/ Looks(j) \/ Leaves(j) \/ Stops(j)
<1>0. job \in [Cycles -> Cycle] /\ job[j] \in Cycle /\ WorkingCycle(job[j])
  BY DEF TypeInv, TypeOK, Working
<1>a. CycleRows(j) /\ \A i \in Cycles \ {j} : job'[i] = job[i]
  BY CycleKeepsRows, CycleOthers
<1>b. UNCHANGED <<cob, wh, sync>>
  BY DEF CycleStep, StartCycle, ReadExpired, JobFetch, JobFetchFails, JobLock, JobEvent,
     JobFindSettlement, JobSettle, JobUnchanged, CycleFault, Fault, bank
<1>c. ASSUME NEW c, FinishCharge(j, c)
      PROVE  job'[j].pc \in {"idle", "next"} /\ c \notin job'[j].todo
  BY <1>0, <1>c, FinishChargeType, FinishChargeLeaves
<1>1. ASSUME StartCycle(j) \/ ReadExpired(j) PROVE Polls(j)
  BY <1>1, CycleReads DEF StartCycle, ReadExpired, Polls
<1>2. ASSUME NEW c \in Charges, JobFetch(j, c) PROVE Polls(j)
  <2>1. FinishCharge(j, c) \/ \E target : job' = [job EXCEPT ![j] = [job[j] EXCEPT
                                     !.pc = "lock", !.charge = c, !.target = target]]
    BY <1>2 DEF JobFetch
  <2>2. job'[j].pc \in {"idle", "next", "lock"}
    <3>1. CASE FinishCharge(j, c)
      BY <1>c, <3>1
    <3>2. ASSUME NEW target, job' = [job EXCEPT ![j] = [job[j] EXCEPT
                                     !.pc = "lock", !.charge = c, !.target = target]]
          PROVE  job'[j].pc = "lock"
      <4>1. job'[j] = [job[j] EXCEPT !.pc = "lock", !.charge = c, !.target = target]
        BY <1>0, <3>2
      <4>2. job[j] \in Cycle
        BY <1>0
      <4>3. QED
        BY <4>1, <4>2 DEF Cycle
    <3>3. QED
      BY <2>1, <3>1, <3>2
  <2>3. QED
    BY <1>2, <2>2 DEF JobFetch, IsNext, Polls
<1>3. ASSUME NEW c \in Charges, JobFetchFails(j, c) PROVE Polls(j)
  BY <1>3, <1>c DEF JobFetchFails, IsNext, Polls
<1>4. ASSUME JobLock(j) PROVE Moves(j)
  BY <1>0, <1>4 DEF JobLock, VersionMatches, Moves, Cycle
<1>5. ASSUME job[j].pc = "event", AfterJobEvent(j),
             UNCHANGED <<charge, settlements, interactions, contract, removals>>
      PROVE  Announces(j) \/ Leaves(j)
  <2>1. CASE job[j].target = "PAID"
    <3>1. job' = [job EXCEPT ![j].pc = "find"]
      BY <1>5, <2>1 DEF AfterJobEvent
    <3>2. QED
      BY <1>0, <1>5, <2>1, <3>1 DEF Cycle, Announces
  <2>2. CASE job[j].target # "PAID"
    BY <1>5, <1>c, <2>2 DEF AfterJobEvent, Leaves
  <2>3. QED
    BY <2>1, <2>2
<1>6. ASSUME JobFindSettlement(j) PROVE Looks(j) \/ Leaves(j)
  <2>1. ASSUME job' = [job EXCEPT ![j].pc = "settle"] PROVE Looks(j)
    BY <1>0, <1>6, <2>1 DEF JobFindSettlement, Looks, Cycle
  <2>2. ASSUME FinishCharge(j, job[j].charge) PROVE Leaves(j)
    BY <1>6, <1>c, <2>2 DEF JobFindSettlement, Leaves, rows
  <2>3. QED
    BY <1>6, <2>1, <2>2 DEF JobFindSettlement
<1>7. ASSUME JobSettle(j) PROVE Leaves(j)
  BY <1>7, <1>c DEF JobSettle, Leaves
<1>8. ASSUME CycleFault(j) PROVE Announces(j) \/ Leaves(j) \/ Stops(j)
  <2>1. UNCHANGED rows
    BY <1>8 DEF CycleFault, Fault
  <2>2. ASSUME job' = [job EXCEPT ![j] = IdleCycle] PROVE Stops(j)
    BY <1>0, <2>1, <2>2 DEF IdleCycle, Stops
  <2>3. ASSUME job[j].pc \in {"lock", "find", "settle"}, FinishCharge(j, job[j].charge)
        PROVE  Leaves(j)
    BY <1>c, <2>1, <2>3 DEF Leaves, rows
  <2>4. ASSUME job[j].pc = "event", AfterJobEvent(j) PROVE Announces(j) \/ Leaves(j)
    BY <1>5, <2>1, <2>4 DEF rows
  <2>5. QED
    BY <1>8, <2>2, <2>3, <2>4 DEF CycleFault
<1>9. ASSUME JobEvent(j) PROVE Announces(j) \/ Leaves(j)
  BY <1>5, <1>9 DEF JobEvent
<1>10. Polls(j) \/ Moves(j) \/ Announces(j) \/ Looks(j) \/ Leaves(j) \/ Stops(j)
  BY <1>1, <1>2, <1>3, <1>4, <1>6, <1>7, <1>8, <1>9 DEF CycleStep
<1>11. QED
  BY <1>a, <1>b, <1>10

-----------------------------------------------------------------------------
(* Settlements and PAID rows.  As long as no resynchronisation has written,   *)
(* whoever is about to book a payment has a PAID charge in hands; a single    *)
(* cycle may lose its update, but only to a delivery that wrote PAID.         *)

OneCycle == \A i, j \in Cycles : i = j

\* A charge that is not the version a process holds has been PAID meanwhile.
PaidIfMoved(row, c) == charge[c].version # row.version => charge[c].status = "PAID"

\* A cycle past its lock has dealt with its charge, whatever became of the write.
Held(r) == r.todo \ (IF r.pc \in {"event", "find", "settle"} THEN {r.charge} ELSE {})

BookingPaid ==
    \A w \in Webhooks : wh[w].pc \in {"event", "ensure", "create"}
                          => charge[wh[w].charge].status = "PAID"
CycleEarned(j) ==
    /\ \A c \in Held(job[j]) : PaidIfMoved(job[j].rows[c], c)
    /\ job[j].pc \in {"find", "settle"} => job[j].target = "PAID"
    /\ (job[j].pc \in {"event", "find", "settle"} /\ job[j].target = "PAID")
          => charge[job[j].charge].status = "PAID"

Earned == /\ BookingPaid
          /\ \A j \in Cycles : CycleEarned(j)
          /\ \A c \in Settled : charge[c].status = "PAID"

EarnedInv == LockInv /\ Earned

\* A write of PAID takes nothing away from a cycle that is not at work in it.
LEMMA CycleStaysEarned ==
    ASSUME TypeInv, NEW j \in Cycles, CycleEarned(j), UNCHANGED job,
           UNCHANGED charge \/ \E d \in Charges : MoveTo(d, "PAID")
    PROVE  CycleEarned(j)'
<1>0. charge \in [Charges -> Row] /\ job[j] \in Cycle /\ WorkingCycle(job[j])
  BY DEF TypeInv, TypeOK, Working
<1>1. \A c \in Charges : charge'[c] = charge[c] \/ charge'[c].status = "PAID"
  BY <1>0 DEF MoveTo
<1>2. Held(job[j]) \subseteq Charges
  BY <1>0 DEF Held, Cycle
<1>3. job[j].pc \in {"event", "find", "settle"} => job[j].charge \in Charges
  BY <1>0 DEF WorkingCycle
<1>4. QED
  BY <1>1, <1>2, <1>3 DEF CycleEarned, PaidIfMoved, Held

\* A step of a delivery.
LEMMA EarnedWebhook ==
    ASSUME EarnedInv, LockInv', NEW w \in Webhooks, WebhookStep(w),
           \A c \in Charges : charge[c].status = "PAID" => charge'[c] = charge[c]
    PROVE  Earned'
<1> DEFINE c == wh[w].charge
<1>0. TypeInv /\ TypeInv' /\ charge \in [Charges -> Row] /\ wh \in [Webhooks -> Webhook]
  BY DEF EarnedInv, LockInv, TypeInv, TypeOK
<1>1. /\ wh'[w].charge = c /\ c \in Charges
      /\ \A v \in Webhooks \ {w} : wh'[v] = wh[v]
      /\ UNCHANGED job
      /\ \/ Dedups(w) \/ Finds(w) \/ Locks(w) \/ Refetches(w) \/ Reports(w)
         \/ Ensures(w) \/ Creates(w) \/ Totals(w) \/ Projects(w) \/ Removes(w)
         \/ Notes(w) \/ NoteCreates(w)
  BY <1>0, WebhookTakes
<1> DEFINE Paid == wh'[w].pc \in {"event", "ensure", "create"} => charge'[c].status = "PAID"
           Move == UNCHANGED charge \/ MoveTo(c, "PAID")
           Book == \/ UNCHANGED settlements
                   \/ charge[c].status = "PAID" /\ settlements' = settlements \cup {E2E(c)}
<1>2. Paid /\ Move /\ Book
  <2>0. wh[w].pc \in {"event", "ensure", "create"} => charge[c].status = "PAID"
    BY DEF EarnedInv, Earned, BookingPaid
  <2>1. Locks(w) => Paid /\ Move /\ Book
    <3>1. MoveTo(c, "PAID") => charge'[c].status = "PAID"
      BY <1>0, <1>1 DEF MoveTo
    <3>2. QED
      BY <3>1 DEF Locks
  <2>2. Creates(w) => Paid /\ Move /\ Book
    BY <2>0 DEF Creates
  <2>3. Dedups(w) \/ Finds(w) \/ Refetches(w) \/ Ensures(w) => Paid /\ Move /\ Book
    BY <2>0 DEF Dedups, Finds, Refetches, Ensures, rows
  <2>4. Reports(w) \/ Totals(w) \/ Projects(w) \/ Removes(w) \/ Notes(w) \/ NoteCreates(w)
          => Paid /\ Move /\ Book
    BY <2>0 DEF Reports, Totals, Projects, Removes, Notes, NoteCreates, NotePc, rows
  <2>5. QED
    BY <1>1, <2>1, <2>2, <2>3, <2>4
<1>3. BookingPaid'
  <2>1. ASSUME NEW v \in Webhooks, v # w, wh'[v].pc \in {"event", "ensure", "create"}
        PROVE  charge'[wh'[v].charge].status = "PAID"
    <3>1. wh'[v] = wh[v] /\ wh[v].charge \in Charges
      BY <1>0, <1>1, <2>1 DEF TypeInv, Working, WorkingWebhook
    <3>2. QED
      BY <2>1, <3>1 DEF EarnedInv, Earned, BookingPaid
  <2>2. QED
    BY <1>1, <1>2, <2>1 DEF BookingPaid
<1>4. \A j \in Cycles : CycleEarned(j)'
  BY <1>0, <1>1, <1>2, CycleStaysEarned DEF EarnedInv, Earned
<1>5. \A d \in Settled' : charge'[d].status = "PAID"
  <2>1. Settled' \subseteq Settled \cup {d \in {c} : charge[d].status = "PAID"}
    BY <1>2 DEF Settled, SettledBy, E2E
  <2>2. QED
    BY <1>1, <2>1 DEF EarnedInv, Earned, Settled
<1>6. QED
  BY <1>3, <1>4, <1>5 DEF Earned

\* A step of the only cycle there is.
LEMMA EarnedCycle ==
    ASSUME EarnedInv, LockInv', OneCycle, NEW j \in Cycles, CycleStep(j) \/ CycleFault(j),
           \A c \in Charges : charge[c].status = "PAID" => charge'[c] = charge[c]
    PROVE  Earned'
<1> DEFINE c == job[j].charge
<1>0. TypeInv /\ TypeInv' /\ charge \in [Charges -> Row] /\ job[j] \in Cycle
      /\ job'[j] \in Cycle /\ WorkingCycle(job[j]) /\ CycleEarned(j)
  BY DEF EarnedInv, LockInv, TypeInv, TypeOK, Working, Earned
<1>1. /\ CycleRows(j) /\ UNCHANGED wh
      /\ Polls(j) \/ Moves(j) \/ Announces(j) \/ Looks(j) \/ Leaves(j) \/ Stops(j)
  BY <1>0, CycleTakes
<1>2. BookingPaid'
  BY <1>0, <1>1 DEF EarnedInv, Earned, BookingPaid, TypeInv, Working, WorkingWebhook
<1>3. \A d \in Charges \ {c} : charge'[d] = charge[d]
  BY <1>0, <1>1 DEF Polls, Moves, Announces, Looks, Leaves, Stops, MoveTo, rows
<1>4. ASSUME NEW d \in Held(job'[j]) PROVE PaidIfMoved(job[j].rows[d], d)'
  <2>1. d \in job'[j].todo /\ d \in Charges
    BY <1>0, <1>4 DEF Held, Cycle
  <2>2. CASE UNCHANGED charge /\ job'[j].rows[d] = charge[d]
    BY <2>2 DEF PaidIfMoved
  <2>3. CASE d \in job[j].todo /\ job'[j].rows[d] = job[j].rows[d]
    <3>1. job[j].pc \in {"event", "find", "settle"} => d # c
      BY <1>1, <1>4, <2>1 DEF Held, Polls, Moves, Announces, Looks, Leaves, Stops
    <3>2. d \in Held(job[j])
      BY <2>3, <3>1 DEF Held
    <3>3. charge'[d] = charge[d]
      <4>1. Moves(j) => d # c
        BY <1>4 DEF Moves, Held
      <4>2. ~Moves(j) => UNCHANGED charge
        BY <1>1 DEF Polls, Announces, Looks, Leaves, Stops, rows
      <4>3. QED
        BY <1>3, <2>1, <4>1, <4>2
    <3>4. PaidIfMoved(job[j].rows[d], d)
      BY <1>0, <3>2 DEF CycleEarned
    <3>5. QED
      BY <2>3, <3>3, <3>4 DEF PaidIfMoved
  <2>4. QED
    BY <1>1, <2>1, <2>2, <2>3 DEF CycleRows
<1>5. ASSUME job'[j].pc \in {"find", "settle"} PROVE job'[j].target = "PAID"
  BY <1>0, <1>1, <1>5 DEF CycleEarned, Polls, Moves, Announces, Looks, Leaves, Stops
<1>6. ASSUME job'[j].pc \in {"event", "find", "settle"}, job'[j].target = "PAID"
      PROVE  charge'[job'[j].charge].status = "PAID"
  <2>1. CASE Moves(j)
    <3>1. c \in Charges /\ c \in Held(job[j])
      BY <1>0, <2>1 DEF Moves, WorkingCycle, Held
    <3>2. PaidIfMoved(job[j].rows[c], c)
      BY <1>0, <3>1 DEF CycleEarned
    <3>3. job[j].target = "PAID" /\ job'[j].charge = c
      BY <1>6, <2>1 DEF Moves
    <3>4. charge'[c].status = "PAID"
      BY <1>0, <2>1, <3>1, <3>2, <3>3 DEF Moves, PaidIfMoved, MoveTo
    <3>5. QED
      BY <3>3, <3>4
  <2>2. CASE Announces(j) \/ Looks(j)
    <3>1. /\ job[j].pc \in {"event", "find", "settle"} /\ job[j].target = "PAID"
          /\ job'[j].charge = c
      BY <1>6, <2>2 DEF Announces, Looks
    <3>2. c \in Charges /\ charge[c].status = "PAID"
      BY <1>0, <3>1 DEF CycleEarned, WorkingCycle
    <3>3. QED
      BY <3>1, <3>2
  <2>3. QED
    BY <1>1, <1>6, <2>1, <2>2 DEF Polls, Leaves, Stops
<1>7. \A d \in Settled' : charge'[d].status = "PAID"
  <2>1. \/ settlements' = settlements
        \/ job[j].pc = "settle" /\ settlements' = settlements \cup {TXID(c)}
    BY <1>1 DEF Polls, Moves, Announces, Looks, Leaves, Stops, rows
  <2>2. job[j].pc = "settle" => charge[c].status = "PAID"
    BY <1>0 DEF CycleEarned
  <2>3. Settled' \subseteq Settled \cup {d \in {c} : charge[d].status = "PAID"}
    BY <2>1, <2>2 DEF Settled, SettledBy, TXID
  <2>4. Settled' \subseteq Charges
    BY DEF Settled
  <2>5. QED
    BY <2>3, <2>4 DEF EarnedInv, Earned
<1>8. \A i \in Cycles : i = j
  BY DEF OneCycle
<1>9. QED
  BY <1>2, <1>4, <1>5, <1>6, <1>7, <1>8 DEF Earned, CycleEarned

\* What the bank, faults of a delivery, arrivals and resynchronisations that have
\* not written yet leave alone.
LEMMA EarnedOther ==
    ASSUME EarnedInv, NoResync, NoResync',
           \/ Environment
           \/ \E w \in Webhooks : WebhookFault(w) \/ \E c \in Charges : Deliver(w, c)
           \/ \E s \in Syncs : SyncStep(s) \/ SyncFault(s) \/ \E c \in Charges : SyncRead(s, c)
    PROVE  Earned'
<1>0. TypeInv /\ wh \in [Webhooks -> Webhook] /\ sync \in [Syncs -> Sync]
  BY DEF EarnedInv, LockInv, TypeInv, TypeOK
<1>a. ASSUME UNCHANGED <<charge, settlements, job>>,
             \A w \in Webhooks : \/ wh'[w] = wh[w]
                                 \/ wh'[w].pc \in {"dedup", "done"}
                                 \/ /\ wh[w].pc = "event" /\ wh'[w].charge = wh[w].charge
      PROVE  Earned'
  <2>1. BookingPaid'
    BY <1>a DEF EarnedInv, Earned, BookingPaid
  <2>2. \A j \in Cycles : CycleEarned(j)'
    BY <1>0, <1>a, CycleStaysEarned DEF EarnedInv, Earned
  <2>3. Settled' = Settled
    BY <1>a DEF Settled, SettledBy
  <2>4. QED
    BY <1>a, <2>1, <2>2, <2>3 DEF EarnedInv, Earned
<1>1. CASE Environment
  BY <1>a, <1>1 DEF Environment, BankRegister, BankPay, BankRemove, Expire, rows, procs
<1>2. ASSUME NEW w \in Webhooks, NEW c \in Charges, Deliver(w, c) PROVE Earned'
  <2> DEFINE r == [IdleWebhook EXCEPT !.pc = "dedup", !.charge = c]
  <2>1. r.pc = "dedup" /\ wh' = [wh EXCEPT ![w] = r]
        /\ UNCHANGED <<charge, settlements, job>>
    BY <1>2 DEF Deliver, IdleWebhook, rows, WebhookUnchanged
  <2> HIDE DEF r
  <2>2. \A v \in Webhooks : wh'[v] = wh[v] \/ wh'[v].pc = "dedup"
    BY <1>0, <2>1
  <2>3. QED
    BY <1>a, <2>1, <2>2
<1>3. ASSUME NEW w \in Webhooks, WebhookFault(w) PROVE Earned'
  <2>1. UNCHANGED <<charge, settlements, job>> /\ wh[w] \in Webhook
    BY <1>0, <1>3 DEF WebhookFault, Fault, rows
  <2>2. ASSUME ToWebhook(w, "done")
        PROVE  \A v \in Webhooks : wh'[v] = wh[v] \/ wh'[v].pc = "done"
    BY <1>0, <2>1, <2>2 DEF ToWebhook, Webhook
  <2>3. ASSUME wh[w].pc = "event", wh' = [wh EXCEPT ![w] = [wh[w] EXCEPT !.pc = "ensure", !.notes = 1]]
        PROVE  \A v \in Webhooks : wh'[v] = wh[v] \/ (wh[v].pc = "event" /\ wh'[v].charge = wh[v].charge)
    BY <1>0, <2>1, <2>3 DEF Webhook
  <2>4. QED
    BY <1>3, <1>a, <2>1, <2>2, <2>3 DEF WebhookFault
<1>4. ASSUME NEW s \in Syncs,
             SyncStep(s) \/ SyncFault(s) \/ \E c \in Charges : SyncRead(s, c)
      PROVE  Earned'
  <2>1. ~SyncWrite(s)
    <3>1. ASSUME SyncWrite(s) PROVE sync'[s].pc \in {"event", "done"}
      BY <1>0, <3>1 DEF SyncWrite, ToSync, Sync
    <3>2. QED
      BY <3>1 DEF NoResync
  <2>2. UNCHANGED <<charge, settlements, job, wh>>
    BY <1>4, <2>1 DEF NoResync, SyncStep, SyncFetch, SyncFetchFails, SyncEvent,
       SyncFindSettlement, SyncSettle, SyncNoteLookup, SyncNoteCreate, SyncRead, SyncUnchanged,
       SyncFault, Fault, rows
  <2>3. QED
    BY <1>a, <2>2
<1>5. QED
  BY <1>1, <1>2, <1>3, <1>4

\* Earned settlements stay so: inductive.
LEMMA EarnedStep ==
    ASSUME EarnedInv, OneCycle, NoResync', [Next]_vars
    PROVE  EarnedInv'
<1>1. /\ LockInv' /\ NoResync
      /\ \A c \in Charges : charge[c].status = "PAID" => charge'[c] = charge[c]
  BY LockStep, ResyncLasts DEF EarnedInv, LockInv
<1>2. ASSUME NEW w \in Webhooks, WebhookStep(w) PROVE Earned'
  BY <1>1, <1>2, EarnedWebhook
<1>3. ASSUME NEW j \in Cycles, CycleStep(j) \/ CycleFault(j) PROVE Earned'
  BY <1>1, <1>3, EarnedCycle
<1>4. CASE UNCHANGED vars
  BY <1>1, <1>4
     DEF vars, EarnedInv, Earned, BookingPaid, CycleEarned, PaidIfMoved, Held, Settled, SettledBy
<1>5. QED
  BY <1>1, <1>2, <1>3, <1>4, EarnedOther DEF Next, EarnedInv

\* The job books a payment without looking whether its versioned update was
\* applied.  With a single cycle that is sound until an operator resynchronises:
\* whoever beat it to the row was a webhook, and wrote PAID.
THEOREM BookedIsPaid == Spec => []SettledIsPaid
<1> DEFINE Inv == TypeInv /\ (NoResync => Versioned) /\ (NoResync /\ OneCycle => Earned)
<1>1. Init => Inv
  <2> SUFFICES ASSUME Init PROVE Inv
    OBVIOUS
  <2>1. TypeInv
    BY TypeInit
  <2>2. Versioned
    BY DEF Init, Versioned, IdleWebhook, IdleCycle
  <2>3. BookingPaid /\ Settled = {}
    BY DEF Init, BookingPaid, IdleWebhook, Settled, SettledBy
  <2>4. \A j \in Cycles : CycleEarned(j)
    BY DEF Init, CycleEarned, IdleCycle, Held
  <2>5. QED
    BY <2>1, <2>2, <2>3, <2>4 DEF Earned
<1>2. ASSUME Inv, [Next]_vars PROVE Inv'
  <2>1. TypeInv'
    BY <1>2, TypeStep
  <2>2. ASSUME NoResync' PROVE Versioned' /\ NoResync
    BY <1>2, <2>2, ResyncLasts, LockStep DEF LockInv
  <2>3. ASSUME NoResync', OneCycle' PROVE Earned'
    <3>1. OneCycle /\ EarnedInv
      BY <1>2, <2>2, <2>3 DEF OneCycle, EarnedInv, LockInv
    <3>2. QED
      BY <1>2, <2>3, <3>1, EarnedStep DEF EarnedInv
  <2>4. QED
    BY <2>1, <2>2, <2>3
<1>3. Inv => SettledIsPaid
  BY DEF SettledIsPaid, Earned, OneCycle
<1>4. Inv /\ [Next]_vars => Inv'
  BY <1>2
<1>5. QED
  BY <1>1, <1>3, <1>4, PTL DEF Spec

-----------------------------------------------------------------------------
(* What a delivery leaves behind when nothing has failed or been              *)
(* resynchronised and no cycle has had a part in its charge.                  *)

Calm == faults = 0 /\ \A s \in Syncs : sync[s].pc = "idle"

Alone(c) == /\ ByWebhook({c})
            /\ \A j \in Cycles : job[j].pc = "event" => job[j].charge # c

\* A delivery that has found the payment booked and will look into the history.
Noting(v, c) == /\ wh[v].charge = c /\ wh[v].notes > 0
                /\ wh[v].pc \in {"total", "project", "remove", "note", "noteCreate"}

Bound(r, c) ==
    /\ r.pc = "lock" => PaidIfMoved(r.row, c)
    /\ r.pc \in {"refetch", "event", "ensure", "create"} => charge[c].status = "PAID"
    /\ r.pc \in {"total", "project", "remove", "note", "noteCreate", "done"}
          => E2E(c) \in settlements

Booked(c) ==
    /\ SettledBy(c) \subseteq {E2E(c)}
    /\ E2E(c) \in settlements
          => /\ charge[c].status = "PAID"
             /\ interactions[E2E(c)] > 0 \/ \E v \in Webhooks : Noting(v, c)
    /\ \A w \in Webhooks : wh[w].charge = c => Bound(wh[w], c)

BookedInv ==
    /\ \A j \in Cycles : job[j].pc \in {"find", "settle"} => ~Alone(job[j].charge)
    /\ \A c \in Charges : Alone(c) => Booked(c)

\* What happens while all is calm, and was calm before.
LEMMA CalmNext ==
    ASSUME TypeInv, Next, Calm'
    PROVE  /\ Calm
           /\ \/ Environment
              \/ \E w \in Webhooks : WebhookStep(w) \/ \E c \in Charges : Deliver(w, c)
              \/ \E j \in Cycles : CycleStep(j)
<1>0. sync \in [Syncs -> Sync] /\ faults \in Nat
  BY BoundsAssumption DEF TypeInv, TypeOK
<1>1. ~Fault
  BY <1>0 DEF Fault, Calm
<1>2. ASSUME NEW s \in Syncs,
             SyncStep(s) \/ SyncFault(s) \/ \E c \in Charges : SyncRead(s, c)
      PROVE  FALSE
  <2>1. sync[s] \in Sync
    BY <1>0
  <2>2. ASSUME NEW pc, ToSync(s, pc) PROVE sync'[s].pc = pc
    BY <1>0, <2>1, <2>2 DEF ToSync, Sync
  <2>3. ASSUME SyncFetch(s) PROVE sync'[s].pc = "write"
    BY <1>0, <2>1, <2>3 DEF SyncFetch, Sync
  <2>4. ASSUME NEW c \in Charges, SyncRead(s, c) PROVE sync'[s].pc = "fetch"
    <3> DEFINE r == [IdleSync EXCEPT !.pc = "fetch", !.charge = c, !.row = charge[c]]
    <3>1. r.pc = "fetch" /\ sync' = [sync EXCEPT ![s] = r]
      BY <2>4 DEF SyncRead, IdleSync
    <3> HIDE DEF r
    <3>2. QED
      BY <1>0, <3>1
  <2>5. ASSUME SyncStep(s), ~SyncFetch(s)
        PROVE  \E pc \in {"event", "find", "settle", "note", "noteCreate", "done"} : ToSync(s, pc)
    BY <2>5 DEF SyncStep, SyncFetchFails, SyncWrite, SyncEvent, SyncFindSettlement, SyncSettle,
       SyncNoteLookup, SyncNoteCreate, AfterSyncEvent
  <2>6. sync'[s].pc = "idle"
    BY DEF Calm
  <2>7. ~SyncFault(s)
    BY <1>1 DEF SyncFault
  <2>8. QED
    BY <1>2, <2>2, <2>3, <2>4, <2>5, <2>6, <2>7
<1>3. \/ Environment
      \/ \E w \in Webhooks : WebhookStep(w) \/ \E c \in Charges : Deliver(w, c)
      \/ \E j \in Cycles : CycleStep(j)
  BY <1>1, <1>2 DEF Next, WebhookFault, CycleFault
<1>4. UNCHANGED <<sync, faults>>
  <2>1. Environment => UNCHANGED <<sync, faults>>
    BY DEF Environment, BankRegister, BankPay, BankRemove, Expire, procs
  <2>2. ASSUME NEW w \in Webhooks, NEW c \in Charges, Deliver(w, c)
        PROVE  UNCHANGED <<sync, faults>>
    BY <2>2 DEF Deliver, WebhookUnchanged
  <2>3. ASSUME NEW w \in Webhooks, WebhookStep(w) PROVE UNCHANGED <<sync, faults>>
    BY <2>3, WebhookTakes
  <2>4. ASSUME NEW j \in Cycles, CycleStep(j) PROVE UNCHANGED <<sync, faults>>
    BY <2>4 DEF CycleStep, StartCycle, ReadExpired, JobFetch, JobFetchFails, JobLock, JobEvent,
       JobFindSettlement, JobSettle, JobUnchanged
  <2>5. QED
    BY <1>3, <2>1, <2>2, <2>3, <2>4
<1>5. QED
  BY <1>3, <1>4 DEF Calm

\* A cycle that passes its event has left its mark on the charge.
LEMMA EventMarks ==
    ASSUME NEW j \in Cycles, CycleStep(j), job[j].pc = "event", NEW c, job[j].charge = c
    PROVE  ~Alone(c)'
<1>1. JobEvent(j)
  BY DEF CycleStep, StartCycle, ReadExpired, JobFetch, JobFetchFails, IsNext, JobLock,
     JobFindSettlement, JobSettle
<1>2. [charge |-> c, from |-> job[j].rows[c].status, to |-> job[j].target,
       source |-> "JOB"] \in events'
  BY <1>1 DEF JobEvent, WriteEvent
<1>3. ~ByWebhook({c})'
  BY <1>2 DEF ByWebhook
<1>4. QED
  BY <1>3 DEF Alone

\* A charge no cycle has had a part in had none before.
LEMMA AloneBefore ==
    ASSUME TypeInv, Next, Calm', NEW c, Alone(c)'
    PROVE  Alone(c)
<1>1. ASSUME NEW w \in Webhooks, WebhookStep(w)
      PROVE  events \subseteq events' /\ UNCHANGED job
  BY <1>1 DEF WebhookStep, DedupLookup, FindCharge, LockPaid, Refetch, WebhookEvent, EnsureLookup,
     CreateSettlement, ReadTotal, WriteProjection, RequestRemoval, NoteLookup, NoteCreate,
     WebhookUnchanged, WriteEvent, rows
<1>2. ASSUME NEW w \in Webhooks, NEW d \in Charges, Deliver(w, d)
      PROVE  events \subseteq events' /\ UNCHANGED job
  BY <1>2 DEF Deliver, WebhookUnchanged, rows
<1>3. Environment => events \subseteq events' /\ UNCHANGED job
  BY DEF Environment, BankRegister, BankPay, BankRemove, Expire, procs, rows
<1>4. ASSUME NEW j \in Cycles, CycleStep(j)
      PROVE  /\ events \subseteq events'
             /\ \A i \in Cycles : job[i].pc = "event" /\ job[i].charge = c => i # j /\ job'[i] = job[i]
  <2>1. events \subseteq events'
    BY <1>4 DEF CycleStep, StartCycle, ReadExpired, JobFetch, JobFetchFails, JobLock, JobEvent,
       JobFindSettlement, JobSettle, WriteEvent, rows
  <2>2. \A i \in Cycles \ {j} : job'[i] = job[i]
    BY <1>4, CycleTakes
  <2>3. ~(job[j].pc = "event" /\ job[j].charge = c)
    BY <1>4, EventMarks
  <2>4. QED
    BY <2>1, <2>2, <2>3
<1>5. ASSUME events \subseteq events' PROVE ByWebhook({c})
  BY <1>5 DEF Alone, ByWebhook
<1>6. QED
  BY <1>1, <1>2, <1>3, <1>4, <1>5, CalmNext DEF Alone

\* What concerns a charge when nobody touches it.
LEMMA BookedStays ==
    ASSUME TypeInv, NEW c \in Charges, Booked(c), charge'[c] = charge[c],
           SettledBy(c)' = SettledBy(c), interactions'[E2E(c)] = interactions[E2E(c)],
           \A w \in Webhooks :
              \/ wh'[w] = wh[w]
              \/ wh[w].charge # c /\ wh'[w].charge # c
              \/ wh[w].pc = "idle" /\ wh'[w].pc = "dedup"
    PROVE  Booked(c)'
<1>1. E2E(c) \in settlements' <=> E2E(c) \in settlements
  <2>1. \A S : E2E(c) \in S <=> E2E(c) \in {k \in S : k.charge = c}
    BY DEF E2E
  <2>2. QED
    BY <2>1 DEF SettledBy
<1>2. ASSUME NEW v \in Webhooks, Noting(v, c) PROVE Noting(v, c)'
  BY <1>2 DEF Noting
<1>3. ASSUME NEW w \in Webhooks, wh'[w].charge = c PROVE Bound(wh[w], c)'
  <2>1. CASE wh'[w].pc = "dedup"
    BY <2>1 DEF Bound
  <2>2. CASE wh'[w] = wh[w]
    BY <1>1, <1>3, <2>2 DEF Booked, Bound, PaidIfMoved
  <2>3. QED
    BY <1>3, <2>1, <2>2
<1>4. QED
  BY <1>1, <1>2, <1>3 DEF Booked

\* A step of a delivery, for its own charge.
LEMMA BookedOwn ==
    ASSUME TypeInv, TypeInv', NEW w \in Webhooks, WebhookStep(w), NEW c \in Charges,
           wh[w].charge = c, Booked(c)
    PROVE  Booked(c)'
<1>0. /\ charge \in [Charges -> Row] /\ wh \in [Webhooks -> Webhook]
      /\ wh[w] \in Webhook /\ wh'[w] \in Webhook
      /\ interactions \in [Key -> Nat] /\ interactions' \in [Key -> Nat]
      /\ WorkingWebhook(wh[w]) /\ WorkingWebhook(wh'[w]) /\ E2E(c) \in Key
  BY KeyType DEF TypeInv, TypeOK, Working
<1>1. /\ wh'[w].charge = c /\ \A v \in Webhooks \ {w} : wh'[v] = wh[v]
      /\ \/ Dedups(w) \/ Finds(w) \/ Locks(w) \/ Refetches(w) \/ Reports(w)
         \/ Ensures(w) \/ Creates(w) \/ Totals(w) \/ Projects(w) \/ Removes(w)
         \/ Notes(w) \/ NoteCreates(w)
  BY WebhookTakes
<1>2. Bound(wh[w], c)
  BY DEF Booked
<1>3. \/ settlements' = settlements
      \/ wh[w].pc = "create" /\ settlements' = settlements \cup {E2E(c)}
  BY <1>1 DEF Dedups, Finds, Locks, Refetches, Reports, Ensures, Creates, Totals, Projects,
     Removes, Notes, NoteCreates, rows
<1>4. charge'[c] = charge[c] \/ charge'[c].status = "PAID"
  <2>1. UNCHANGED charge \/ MoveTo(c, "PAID")
    BY <1>1 DEF Dedups, Finds, Locks, Refetches, Reports, Ensures, Creates, Totals, Projects,
       Removes, Notes, NoteCreates, rows
  <2>2. QED
    BY <1>0, <2>1 DEF MoveTo
<1>5. SettledBy(c)' \subseteq {E2E(c)}
  BY <1>3 DEF Booked, SettledBy
<1>6. E2E(c) \in settlements' => charge'[c].status = "PAID"
  BY <1>2, <1>3, <1>4 DEF Booked, Bound
<1>7. ASSUME NEW v \in Webhooks \ {w}, wh'[v].charge = c PROVE Bound(wh[v], c)'
  <2>1. wh'[v] = wh[v] /\ Bound(wh[v], c)
    BY <1>1, <1>7 DEF Booked
  <2>2. settlements \subseteq settlements'
    BY <1>3
  <2>3. QED
    BY <1>4, <2>1, <2>2 DEF Bound, PaidIfMoved
<1>8. Bound(wh[w], c)'
  <2>1. CASE Dedups(w) \/ Finds(w) \/ Refetches(w) \/ Ensures(w)
    BY <1>2, <2>1 DEF Dedups, Finds, Refetches, Ensures, Bound, PaidIfMoved, rows
  <2>2. CASE Locks(w)
    <3>1. MoveTo(c, "PAID") => charge'[c].status = "PAID"
      BY <1>0 DEF MoveTo
    <3>2. QED
      BY <1>2, <2>2, <3>1 DEF Locks, Bound, PaidIfMoved
  <2>3. CASE Reports(w) \/ Creates(w)
    BY <1>2, <2>3 DEF Reports, Creates, Bound
  <2>4. CASE Totals(w) \/ Projects(w) \/ Removes(w) \/ Notes(w) \/ NoteCreates(w)
    <3>1. wh'[w].pc \in {"project", "remove", "note", "noteCreate", "done"}
      BY <2>4 DEF Totals, Projects, Removes, Notes, NoteCreates, NotePc
    <3>2. E2E(c) \in settlements'
      BY <1>2, <1>3, <2>4 DEF Totals, Projects, Removes, Notes, NoteCreates, Bound
    <3>3. QED
      BY <3>1, <3>2 DEF Bound
  <2>5. QED
    BY <1>1, <2>1, <2>2, <2>3, <2>4
<1>9. ASSUME E2E(c) \in settlements'
      PROVE  interactions'[E2E(c)] > 0 \/ \E v \in Webhooks : Noting(v, c)'
  <2>1. CASE E2E(c) \notin settlements
    <3>1. Creates(w)
      BY <1>1, <1>3, <1>9, <2>1 DEF Dedups, Finds, Locks, Refetches, Reports, Ensures, Totals,
         Projects, Removes, Notes, NoteCreates
    <3>2. Noting(w, c)'
      BY <1>1, <2>1, <3>1 DEF Creates, Noting
    <3>3. QED
      BY <3>2
  <2>2. CASE interactions[E2E(c)] > 0
    <3>1. interactions'[E2E(c)] > 0
      BY <1>0, <1>1, <2>2 DEF Dedups, Finds, Locks, Refetches, Reports, Ensures, Creates, Totals,
         Projects, Removes, Notes, NoteCreates, rows
    <3>2. QED
      BY <3>1
  <2>3. ASSUME NEW v \in Webhooks, v # w, Noting(v, c) PROVE Noting(v, c)'
    BY <1>1, <2>3 DEF Noting
  <2>4. ASSUME Noting(w, c), interactions[E2E(c)] <= 0
        PROVE  interactions'[E2E(c)] > 0 \/ Noting(w, c)'
    <3>1. CASE NoteCreates(w)
      BY <3>1 DEF NoteCreates
    <3>2. CASE Notes(w)
      BY <1>0, <1>1, <2>4, <3>2 DEF Notes, Noting
    <3>3. CASE Totals(w) \/ Projects(w) \/ Removes(w)
      <4>1. wh[w].notes # 0 /\ wh'[w].notes = wh[w].notes
        BY <1>0, <2>4, <3>3 DEF Noting, Totals, Projects, Removes
      <4>2. wh'[w].pc \in {"project", "remove", "note"}
        BY <3>3, <4>1 DEF Totals, Projects, Removes, NotePc
      <4>3. QED
        BY <1>1, <2>4, <4>1, <4>2 DEF Noting
    <3>4. QED
      BY <1>1, <2>4, <3>1, <3>2, <3>3 DEF Noting, Dedups, Finds, Locks, Refetches, Reports,
         Ensures, Creates
  <2>5. CASE E2E(c) \in settlements /\ interactions[E2E(c)] <= 0
    <3>1. PICK v \in Webhooks : Noting(v, c)
      BY <1>0, <2>5 DEF Booked
    <3>2. QED
      BY <2>3, <2>4, <2>5, <3>1
  <2>6. QED
    BY <1>0, <2>1, <2>2, <2>5
<1>10. QED
  BY <1>5, <1>6, <1>7, <1>8, <1>9 DEF Booked

\* What deliveries have booked stays booked: inductive.
LEMMA BookedStep ==
    ASSUME TypeInv, BookedInv, Next, Calm'
    PROVE  BookedInv'
<1>0. /\ TypeInv' /\ charge \in [Charges -> Row] /\ wh \in [Webhooks -> Webhook]
      /\ interactions \in [Key -> Nat]
  BY TypeStep DEF TypeInv, TypeOK
<1>a. ASSUME NEW c \in Charges, Alone(c)' PROVE Alone(c) /\ Booked(c)
  BY <1>a, AloneBefore DEF BookedInv
<1>b. ASSUME NEW i \in Cycles, job'[i].pc \in {"find", "settle"}, NEW c, job'[i].charge = c,
             \/ job'[i] = job[i]
             \/ job[i].pc = "find" /\ job'[i].charge = job[i].charge
      PROVE  ~Alone(c)'
  <2>1. ~Alone(c)
    BY <1>b DEF BookedInv
  <2>2. QED
    BY <2>1, AloneBefore
<1>1. ASSUME UNCHANGED <<charge, settlements, interactions, job>>,
             \A w \in Webhooks : wh'[w] = wh[w] \/ (wh[w].pc = "idle" /\ wh'[w].pc = "dedup")
      PROVE  BookedInv'
  <2>1. ASSUME NEW c \in Charges, Alone(c)' PROVE Booked(c)'
    <3>1. SettledBy(c)' = SettledBy(c)
      BY <1>1 DEF SettledBy
    <3>2. QED
      BY <1>1, <1>a, <2>1, <3>1, BookedStays
  <2>2. \A i \in Cycles : job'[i].pc \in {"find", "settle"} => ~Alone(job[i].charge)'
    BY <1>1, <1>b
  <2>3. QED
    BY <2>1, <2>2 DEF BookedInv
<1>2. CASE Environment
  BY <1>1, <1>2 DEF Environment, BankRegister, BankPay, BankRemove, Expire, procs, rows
<1>3. ASSUME NEW w \in Webhooks, NEW d \in Charges, Deliver(w, d) PROVE BookedInv'
  <2> DEFINE r == [IdleWebhook EXCEPT !.pc = "dedup", !.charge = d]
  <2>1. /\ r.pc = "dedup" /\ wh[w].pc = "idle" /\ wh' = [wh EXCEPT ![w] = r]
        /\ UNCHANGED <<charge, settlements, interactions, job>>
    BY <1>3 DEF Deliver, IdleWebhook, rows, WebhookUnchanged
  <2> HIDE DEF r
  <2>2. \A v \in Webhooks : wh'[v] = wh[v] \/ (wh[v].pc = "idle" /\ wh'[v].pc = "dedup")
    BY <1>0, <2>1
  <2>3. QED
    BY <1>1, <2>1, <2>2
<1>4. ASSUME NEW w \in Webhooks, WebhookStep(w) PROVE BookedInv'
  <2> DEFINE d == wh[w].charge
  <2>1. /\ wh'[w].charge = d /\ d \in Charges
        /\ \A v \in Webhooks \ {w} : wh'[v] = wh[v]
        /\ UNCHANGED job
        /\ \/ Dedups(w) \/ Finds(w) \/ Locks(w) \/ Refetches(w) \/ Reports(w)
           \/ Ensures(w) \/ Creates(w) \/ Totals(w) \/ Projects(w) \/ Removes(w)
           \/ Notes(w) \/ NoteCreates(w)
    BY <1>4, WebhookTakes
  <2>2. ASSUME NEW c \in Charges, c # d, Alone(c)' PROVE Booked(c)'
    <3>1. charge'[c] = charge[c]
      <4>1. UNCHANGED charge \/ MoveTo(d, "PAID")
        BY <2>1 DEF Dedups, Finds, Locks, Refetches, Reports, Ensures, Creates, Totals, Projects,
           Removes, Notes, NoteCreates, rows
      <4>2. QED
        BY <1>0, <2>2, <4>1 DEF MoveTo
    <3>2. SettledBy(c)' = SettledBy(c)
      <4>1. settlements' = settlements \/ settlements' = settlements \cup {E2E(d)}
        BY <2>1 DEF Dedups, Finds, Locks, Refetches, Reports, Ensures, Creates, Totals, Projects,
           Removes, Notes, NoteCreates, rows
      <4>2. E2E(d).charge # c
        BY <2>2 DEF E2E
      <4>3. QED
        BY <4>1, <4>2 DEF SettledBy
    <3>3. interactions'[E2E(c)] = interactions[E2E(c)]
      <4>1. UNCHANGED interactions \/ CountInteraction(E2E(d))
        BY <1>4 DEF WebhookStep, DedupLookup, FindCharge, LockPaid, Refetch, WebhookEvent,
           EnsureLookup, CreateSettlement, ReadTotal, WriteProjection, RequestRemoval,
           NoteLookup, NoteCreate, rows
      <4>2. E2E(c) # E2E(d) /\ E2E(c) \in Key
        BY <2>2, KeyType DEF E2E
      <4>3. QED
        BY <1>0, <4>1, <4>2 DEF CountInteraction
    <3>4. QED
      BY <1>a, <2>1, <2>2, <3>1, <3>2, <3>3, BookedStays
  <2>3. ASSUME NEW c \in Charges, c = d, Alone(c)' PROVE Booked(c)'
    BY <1>0, <1>4, <1>a, <2>3, BookedOwn
  <2>4. \A i \in Cycles : job'[i].pc \in {"find", "settle"} => ~Alone(job[i].charge)'
    BY <1>b, <2>1
  <2>5. QED
    BY <2>2, <2>3, <2>4 DEF BookedInv
<1>5. ASSUME NEW j \in Cycles, CycleStep(j) PROVE BookedInv'
  <2> DEFINE d == job[j].charge
  <2>1. /\ \A i \in Cycles \ {j} : job'[i] = job[i]
        /\ UNCHANGED wh
        /\ Polls(j) \/ Moves(j) \/ Announces(j) \/ Looks(j) \/ Leaves(j) \/ Stops(j)
    BY <1>5, CycleTakes
  <2>2. ASSUME NEW c \in Charges, Alone(c)' PROVE Booked(c)'
    <3>1. charge'[c] = charge[c]
      <4>1. CASE Moves(j)
        <5>1. d # c
          BY <2>2, <4>1 DEF Moves, Alone
        <5>2. QED
          BY <1>0, <4>1, <5>1 DEF Moves, MoveTo
      <4>2. CASE ~Moves(j)
        BY <2>1, <4>2 DEF Polls, Announces, Looks, Leaves, Stops, rows
      <4>3. QED
        BY <4>1, <4>2
    <3>2. SettledBy(c)' = SettledBy(c)
      <4>1. \/ settlements' = settlements
            \/ job[j].pc = "settle" /\ settlements' = settlements \cup {TXID(d)}
        BY <2>1 DEF Polls, Moves, Announces, Looks, Leaves, Stops, rows
      <4>2. job[j].pc = "settle" => d # c
        BY <1>a, <2>2 DEF BookedInv
      <4>3. d # c => TXID(d).charge # c
        BY DEF TXID
      <4>4. QED
        BY <4>1, <4>2, <4>3 DEF SettledBy
    <3>3. interactions'[E2E(c)] = interactions[E2E(c)]
      BY <2>1 DEF Polls, Moves, Announces, Looks, Leaves, Stops, rows
    <3>4. QED
      BY <1>a, <2>1, <2>2, <3>1, <3>2, <3>3, BookedStays
  <2>3. ASSUME NEW i \in Cycles, job'[i].pc \in {"find", "settle"}, NEW c, job'[i].charge = c
        PROVE  ~Alone(c)'
    <3>1. CASE i # j
      BY <1>b, <2>1, <2>3, <3>1
    <3>2. CASE i = j /\ Announces(j)
      BY <1>5, <2>3, <3>2, EventMarks DEF Announces
    <3>3. CASE i = j /\ Looks(j)
      BY <1>b, <2>3, <3>3 DEF Looks
    <3>4. QED
      BY <2>1, <2>3, <3>1, <3>2, <3>3 DEF Polls, Moves, Leaves, Stops
  <2>4. \A i \in Cycles : job'[i].pc \in {"find", "settle"} => ~Alone(job[i].charge)'
    BY <2>3
  <2>5. QED
    BY <2>2, <2>4 DEF BookedInv
<1>6. QED
  BY <1>2, <1>3, <1>4, <1>5, CalmNext

\* However many deliveries of one payment race, once they have run to their end the
\* charge is PAID, settled once and shown in the contract's history: a delivery that
\* loses a race leaves the booking to one that is still at work.  No database call
\* has failed, and neither the job nor an operator has written the charge.
THEOREM DeliveriesBook == Spec => []DeliveryIsBooked
<1> DEFINE Inv == TypeInv /\ (Calm => BookedInv)
<1>1. Init => Inv
  <2> SUFFICES ASSUME Init PROVE Inv
    OBVIOUS
  <2>1. TypeInv
    BY TypeInit
  <2>2. \A c \in Charges : Booked(c)
    BY DEF Init, Booked, SettledBy, Bound, IdleWebhook
  <2>3. \A j \in Cycles : job[j].pc \notin {"find", "settle"}
    BY DEF Init, IdleCycle
  <2>4. QED
    BY <2>1, <2>2, <2>3 DEF BookedInv
<1>2. ASSUME Inv, [Next]_vars PROVE Inv'
  <2>1. TypeInv'
    BY <1>2, TypeStep
  <2>2. ASSUME Calm', Next PROVE BookedInv'
    BY <1>2, <2>2, CalmNext, BookedStep
  <2>3. ASSUME UNCHANGED vars PROVE Calm' = Calm /\ BookedInv' = BookedInv
    BY <2>3 DEF vars, Calm, BookedInv, Alone, ByWebhook, Booked, SettledBy, Noting, Bound, PaidIfMoved
  <2>4. QED
    BY <1>2, <2>1, <2>2, <2>3
<1>3. ASSUME Inv PROVE DeliveryIsBooked
  <2> SUFFICES ASSUME AtRest, NEW w \in Webhooks, wh[w].pc = "done", ByWebhook({wh[w].charge})
               PROVE  /\ charge[wh[w].charge].status = "PAID"
                      /\ SettledBy(wh[w].charge) = {E2E(wh[w].charge)}
                      /\ interactions[E2E(wh[w].charge)] > 0
    BY DEF DeliveryIsBooked
  <2> DEFINE c == wh[w].charge
  <2>1. Calm /\ Alone(c) /\ c \in Charges
    BY <1>3 DEF AtRest, Calm, Alone, TypeInv, Working, WorkingWebhook
  <2>2. Booked(c)
    BY <1>3, <2>1 DEF BookedInv
  <2>3. E2E(c) \in settlements
    BY <2>2 DEF Booked, Bound
  <2>4. SettledBy(c) = {E2E(c)}
    BY <2>2, <2>3 DEF Booked, SettledBy, E2E
  <2>5. \A v \in Webhooks : ~Noting(v, c)
    BY DEF AtRest, Noting
  <2>6. QED
    BY <2>2, <2>3, <2>4, <2>5 DEF Booked
<1>4. Inv /\ [Next]_vars => Inv'
  BY <1>2
<1>5. Inv => DeliveryIsBooked
  BY <1>3
<1>6. QED
  BY <1>1, <1>4, <1>5, PTL DEF Spec

-----------------------------------------------------------------------------
(* Sums of payments.  SumOf folds over the subsets of a set by a recursive    *)
(* function, which has to be shown to exist before its values can be used.    *)

\* The payment taken first.
Pick(t) == CHOOSE x \in t : TRUE
Rest(t) == t \ {Pick(t)}

\* f gives the sum over every subset of S.
Sums(S, f) == f = [t \in SUBSET S |-> IF t = {} THEN 0 ELSE Amount[Pick(t).charge] + f[Rest(t)]]

\* What MapThenSumSet comes to.
LEMMA SumIs == ASSUME NEW S PROVE SumOf(S) = (CHOOSE f : Sums(S, f))[S]
BY DEF SumOf, MapThenSumSet, MapThenFoldSet, Sums, Pick, Rest

\* A set of natural numbers that is not empty has a least element.
LEMMA LeastNat ==
    ASSUME NEW T, T \subseteq Nat, T # {}
    PROVE  \E n \in T : \A m \in T : n <= m
<1>1. PICK n \in T : \A m \in T : <<m, n>> \notin OpToRel(<, Nat)
  BY NatLessThanWellFounded, WFMin, Zenon
<1>2. ASSUME NEW m \in T PROVE n <= m
  <2>1. ~(m < n)
    BY <1>1 DEF OpToRel
  <2>2. QED
    BY <2>1
<1>3. QED
  BY <1>2

\* Of the subsets of a finite set that are bad there is a smallest one.
LEMMA SmallestBad ==
    ASSUME NEW S, IsFiniteSet(S), NEW bad, bad \subseteq SUBSET S, bad # {}
    PROVE  \E t \in bad : \A u \in SUBSET t : u # t => u \notin bad
<1> DEFINE sizes == {Cardinality(t) : t \in bad}
<1>1. \A t \in bad : IsFiniteSet(t) /\ Cardinality(t) \in Nat
  BY FS_Subset, FS_CardinalityType
<1>2. PICK n \in sizes : \A m \in sizes : n <= m
  <2>1. sizes \subseteq Nat /\ sizes # {}
    BY <1>1
  <2> HIDE DEF sizes
  <2>2. QED
    BY <2>1, LeastNat
<1>3. PICK t \in bad : Cardinality(t) = n
  OBVIOUS
<1>4. ASSUME NEW u \in SUBSET t, u # t, u \in bad PROVE FALSE
  <2>1. Cardinality(u) < Cardinality(t)
    BY <1>1, <1>4, FS_Subset
  <2>2. Cardinality(u) \in sizes /\ Cardinality(u) \in Nat /\ Cardinality(t) \in Nat
    BY <1>1, <1>4
  <2> HIDE DEF sizes
  <2>3. QED
    BY <1>2, <1>3, <2>1, <2>2
<1>5. QED
  BY <1>4

\* What is left after the first payment is smaller.
LEMMA RestType == ASSUME NEW t, t # {} PROVE Pick(t) \in t /\ Rest(t) \in SUBSET t /\ Rest(t) # t
BY DEF Pick, Rest

\* Two functions that give the sums agree where both do.
LEMMA SumUnique ==
    ASSUME NEW S, IsFiniteSet(S), NEW T, NEW f, NEW g, Sums(S, f), Sums(T, g),
           NEW u \in SUBSET S, u \in SUBSET T
    PROVE  f[u] = g[u]
<1> DEFINE bad == {t \in SUBSET S : t \in SUBSET T /\ f[t] # g[t]}
<1>1. SUFFICES ASSUME bad # {} PROVE FALSE
  OBVIOUS
<1>2. PICK t \in bad : \A v \in SUBSET t : v # t => v \notin bad
  <2>1. bad \subseteq SUBSET S
    OBVIOUS
  <2> HIDE DEF bad
  <2>2. QED
    BY <1>1, <2>1, SmallestBad
<1>3. /\ f[t] = IF t = {} THEN 0 ELSE Amount[Pick(t).charge] + f[Rest(t)]
      /\ g[t] = IF t = {} THEN 0 ELSE Amount[Pick(t).charge] + g[Rest(t)]
  BY DEF Sums
<1>4. t # {} /\ Rest(t) \in SUBSET t /\ Rest(t) # t
  BY <1>3, RestType
<1>5. f[Rest(t)] = g[Rest(t)]
  BY <1>2, <1>4
<1>6. QED
  BY <1>3, <1>4, <1>5

\* There is a function that gives the sums.
LEMMA SumExists ==
    ASSUME NEW S, IsFiniteSet(S)
    PROVE  \E f : Sums(S, f)
<1> DEFINE bad == {t \in SUBSET S : \A f : ~Sums(t, f)}
<1>1. SUFFICES ASSUME bad # {} PROVE FALSE
  OBVIOUS
<1>2. PICK t \in bad : \A u \in SUBSET t : u # t => u \notin bad
  <2>1. bad \subseteq SUBSET S
    OBVIOUS
  <2> HIDE DEF bad
  <2>2. QED
    BY <1>1, <2>1, SmallestBad
<1> DEFINE G(u) == CHOOSE g : Sums(u, g)
           f == [u \in SUBSET t |-> IF u = {} THEN 0 ELSE Amount[Pick(u).charge] + G(Rest(u))[Rest(u)]]
<1>3. \A u \in SUBSET t : u # t => Sums(u, G(u)) /\ IsFiniteSet(u)
  BY <1>2, FS_Subset
<1>4. ASSUME NEW u \in SUBSET t, u # {} PROVE f[Rest(u)] = G(Rest(u))[Rest(u)]
  <2> DEFINE v == Rest(u)
             w == Rest(v)
  <2>1. v \in SUBSET t /\ v # t
    BY <1>4, RestType
  <2>2. Sums(v, G(v)) /\ v \in SUBSET v
    BY <1>3, <2>1
  <2>3. CASE v = {}
    <3>1. f[v] = 0
      BY <2>3
    <3> HIDE DEF f, G
    <3>2. G(v)[v] = 0
      BY <2>2, <2>3 DEF Sums
    <3>3. QED
      BY <3>1, <3>2
  <2>4. CASE v # {}
    <3>1. w \in SUBSET v /\ w \in SUBSET t /\ w # t
      BY <2>1, <2>4, RestType
    <3>2. f[v] = Amount[Pick(v).charge] + G(w)[w]
      BY <2>1, <2>4
    <3> HIDE DEF f, G
    <3>3. G(v)[v] = Amount[Pick(v).charge] + G(v)[w]
      BY <2>2, <2>4 DEF Sums
    <3>4. Sums(w, G(w)) /\ IsFiniteSet(w) /\ w \in SUBSET w
      BY <1>3, <3>1
    <3>5. G(w)[w] = G(v)[w]
      BY <2>2, <3>1, <3>4, SumUnique
    <3>6. QED
      BY <3>2, <3>3, <3>5
  <2>5. QED
    BY <2>3, <2>4
<1>5. f = [u \in SUBSET t |-> IF u = {} THEN 0 ELSE Amount[Pick(u).charge] + f[Rest(u)]]
  <2> DEFINE h == [u \in SUBSET t |-> IF u = {} THEN 0 ELSE Amount[Pick(u).charge] + f[Rest(u)]]
  <2>1. \A u \in SUBSET t : h[u] = IF u = {} THEN 0 ELSE Amount[Pick(u).charge] + f[Rest(u)]
    OBVIOUS
  <2>2. \A u \in SUBSET t :
           f[u] = IF u = {} THEN 0 ELSE Amount[Pick(u).charge] + G(Rest(u))[Rest(u)]
    OBVIOUS
  <2>3. \A u \in SUBSET t : f[u] = h[u]
    <3> HIDE DEF f, h, G
    <3>1. QED
      BY <1>4, <2>1, <2>2
  <2>4. f = [u \in SUBSET t |-> f[u]] /\ h = [u \in SUBSET t |-> h[u]]
    OBVIOUS
  <2> HIDE DEF f, h, G
  <2>5. f = h
    BY <2>3, <2>4
  <2>6. QED
    BY <2>5 DEF h
<1>6. Sums(t, f)
  <2> HIDE DEF f
  <2>1. QED
    BY <1>5 DEF Sums
<1>7. QED
  BY <1>6

\* A sum is at least as much as each of the payments in it.
LEMMA SumAtLeast ==
    ASSUME NEW S, IsFiniteSet(S), S \subseteq Key, NEW s \in S
    PROVE  SumOf(S) \in Nat /\ SumOf(S) >= Amount[s.charge]
<1> DEFINE f == CHOOSE g : Sums(S, g)
           Good(t) == f[t] \in Nat /\ \A k \in t : f[t] >= Amount[k.charge]
           bad == {t \in SUBSET S : ~Good(t)}
<1>1. Sums(S, f) /\ SumOf(S) = f[S]
  BY SumExists, SumIs
<1>2. SUFFICES ASSUME bad # {} PROVE FALSE
  BY <1>1
<1> HIDE DEF f
<1>3. PICK t \in bad : \A u \in SUBSET t : u # t => u \notin bad
  <2>1. bad \subseteq SUBSET S
    OBVIOUS
  <2> HIDE DEF bad
  <2>2. QED
    BY <1>2, <2>1, SmallestBad
<1>4. f[t] = IF t = {} THEN 0 ELSE Amount[Pick(t).charge] + f[Rest(t)]
  BY <1>1 DEF Sums
<1>5. t # {}
  BY <1>4
<1>6. Pick(t) \in t /\ Rest(t) \in SUBSET t /\ Rest(t) # t
  BY <1>5, RestType
<1>7. Good(Rest(t))
  BY <1>3, <1>6
<1>8. \A k \in t : Amount[k.charge] \in Nat
  BY AmountAssumption DEF Key
<1>9. f[t] = Amount[Pick(t).charge] + f[Rest(t)] /\ f[t] \in Nat
  BY <1>4, <1>5, <1>6, <1>7, <1>8
<1>10. ASSUME NEW k \in t PROVE f[t] >= Amount[k.charge]
  <2>1. CASE k = Pick(t)
    BY <1>7, <1>8, <1>9, <2>1
  <2>2. CASE k \in Rest(t)
    BY <1>6, <1>7, <1>8, <1>9, <2>2
  <2>3. QED
    BY <2>1, <2>2 DEF Rest
<1>11. QED
  BY <1>9, <1>10

-----------------------------------------------------------------------------
(* The contract of delivered payments.  A refresh may find the debt uncovered *)
(* because the charge it compares with is PAID and not settled yet; then the  *)
(* delivery that made it PAID is still going to refresh.                      *)

Sole(k) == \A c \in ChargesOf(k) : Alone(c)

\* A delivery that is going to book its charge.
Claiming(v, c) == wh[v].charge = c /\ wh[v].pc \in {"event", "ensure", "create"}

\* A delivery that is going to refresh its contract, or has found it covered.
Due(w, k) ==
    /\ wh[w].pc \in {"event", "ensure", "create", "total", "project", "remove"}
    /\ ContractOf[wh[w].charge] = k
    /\ wh[w].pc = "project" => wh[w].full

Claimed(c) == charge[c].status = "PAID" /\ E2E(c) \notin settlements
                 => \E v \in Webhooks : Claiming(v, c)
HandedOver(k) == contract[k].paid /\ k \in removals
Refreshed(k) == (\E c \in ChargesOf(k) : charge[c].status = "PAID")
                   => HandedOver(k) \/ \E w \in Webhooks : Due(w, k)

DueInv == /\ \A c \in Charges : Alone(c) => Claimed(c)
          /\ \A k \in Contracts : Sole(k) => Refreshed(k)

\* What deliveries have settled of a contract is one settlement per charge.
LEMMA FiniteSettlements ==
    ASSUME TypeInv, BookedInv, NEW k, Sole(k)
    PROVE  IsFiniteSet(ContractSettlements(k)) /\ ContractSettlements(k) \subseteq Key
<1> DEFINE f == [c \in Charges |-> E2E(c)]
           T == {E2E(c) : c \in Charges}
<1>1. f \in Surjection(Charges, T)
  BY DEF Surjection
<1> HIDE DEF f
<1>2. IsFiniteSet(T)
  BY <1>1, FS_Surjection, ChargesAssumption
<1>3. ASSUME NEW s \in ContractSettlements(k) PROVE s \in T /\ s \in Key
  <2>1. s \in settlements /\ s.charge \in ChargesOf(k) /\ s \in Key
    BY <1>3 DEF ContractSettlements, ChargesOf, TypeInv, TypeOK, Key
  <2>2. SettledBy(s.charge) \subseteq {E2E(s.charge)} /\ s.charge \in Charges
    BY <2>1 DEF Sole, BookedInv, Booked, ChargesOf
  <2>3. s = E2E(s.charge)
    BY <2>1, <2>2 DEF SettledBy
  <2>4. QED
    BY <2>1, <2>2, <2>3
<1>4. QED
  BY <1>2, <1>3, FS_Subset

\* A refresh that finds the debt uncovered compares it with a payment that another
\* delivery is still going to book.
LEMMA UncoveredIsClaimed ==
    ASSUME TypeInv, BookedInv, DueInv, NEW w \in Webhooks, Totals(w), ~wh'[w].full,
           NEW k, ContractOf[wh[w].charge] = k, wh[w].charge \in Charges, Sole(k)
    PROVE  \E d \in ChargesOf(k), v \in Webhooks : Claiming(v, d)
<1>1. PICK target \in TargetsOf(k) : ~Covers(ContractSettlements(k), target)
  BY DEF Totals
<1>2. wh[w].charge \in ChargesOf(k) /\ charge[wh[w].charge].status = "PAID"
  BY DEF ChargesOf, Totals, Sole, BookedInv, Booked, Bound
<1>3. PICK d \in ChargesOf(k) : charge[d].status = "PAID" /\ target = Amount[d]
  BY <1>1, <1>2 DEF TargetsOf, ChargesOf
<1>4. E2E(d) \notin settlements
  <2>1. SUFFICES ASSUME E2E(d) \in settlements PROVE FALSE
    OBVIOUS
  <2>2. E2E(d) \in ContractSettlements(k) /\ E2E(d).charge = d
    BY <2>1 DEF ContractSettlements, E2E, ChargesOf
  <2>3. SumOf(ContractSettlements(k)) >= Amount[d]
    BY <2>2, FiniteSettlements, SumAtLeast
  <2>4. QED
    BY <1>1, <1>3, <2>3 DEF Covers
<1>5. Claimed(d)
  BY DEF DueInv, Sole, ChargesOf
<1>6. QED
  BY <1>3, <1>4, <1>5 DEF Claimed

\* Nobody at work on a contract: what is due stays due.
LEMMA DueStays ==
    ASSUME DueInv, UNCHANGED <<settlements, contract, removals>>,
           \A c \in Charges : Alone(c)' => Alone(c) /\ charge'[c] = charge[c],
           \A w \in Webhooks : wh'[w] = wh[w] \/ (wh[w].pc = "idle" /\ wh'[w].pc = "dedup")
    PROVE  DueInv'
<1>1. ASSUME NEW c \in Charges, Alone(c)' PROVE Claimed(c)'
  BY <1>1 DEF DueInv, Claimed, Claiming
<1>2. ASSUME NEW k \in Contracts, Sole(k)' PROVE Refreshed(k)'
  <2>1. Sole(k) /\ \A c \in ChargesOf(k) : charge'[c] = charge[c]
    BY <1>2 DEF Sole, ChargesOf
  <2>2. ASSUME NEW w \in Webhooks, Due(w, k) PROVE Due(w, k)'
    BY <2>2 DEF Due
  <2>3. Refreshed(k)
    BY <2>1 DEF DueInv
  <2>4. QED
    BY <2>1, <2>2, <2>3 DEF Refreshed, HandedOver, ChargesOf
<1>3. QED
  BY <1>1, <1>2 DEF DueInv

\* A step of a delivery: whoever is done with its part leaves it done or to another.
LEMMA DueWebhook ==
    ASSUME TypeInv, TypeInv', BookedInv, DueInv, RemovalInv, Next, Calm',
           NEW w \in Webhooks, WebhookStep(w)
    PROVE  DueInv'
<1> DEFINE d == wh[w].charge
           m == ContractOf[d]
<1>0. /\ charge \in [Charges -> Row] /\ wh \in [Webhooks -> Webhook]
      /\ wh[w] \in Webhook /\ ContractOf \in [Charges -> Contracts]
      /\ removals \subseteq Contracts
  BY ContractAssumption DEF TypeInv, TypeOK
<1>1. /\ wh'[w].charge = d /\ d \in Charges /\ m \in Contracts /\ d \in ChargesOf(m)
      /\ \A v \in Webhooks \ {w} : wh'[v] = wh[v]
      /\ \/ Dedups(w) \/ Finds(w) \/ Locks(w) \/ Refetches(w) \/ Reports(w)
         \/ Ensures(w) \/ Creates(w) \/ Totals(w) \/ Projects(w) \/ Removes(w)
         \/ Notes(w) \/ NoteCreates(w)
  BY <1>0, WebhookTakes DEF ChargesOf
<1>2. settlements \subseteq settlements'
  BY <1>1 DEF Dedups, Finds, Locks, Refetches, Reports, Ensures, Creates, Totals, Projects,
     Removes, Notes, NoteCreates, rows
<1>3. UNCHANGED charge \/ (Locks(w) /\ MoveTo(d, "PAID") /\ wh'[w].pc = "event")
  BY <1>1 DEF Dedups, Finds, Locks, Refetches, Reports, Ensures, Creates, Totals, Projects,
     Removes, Notes, NoteCreates, rows
<1>4. \A c \in Charges : charge'[c] = charge[c] \/ (c = d /\ wh'[w].pc = "event")
  BY <1>0, <1>3 DEF MoveTo
<1>5. ASSUME NEW c \in Charges, Alone(c)', charge'[c].status = "PAID",
             E2E(c) \notin settlements'
      PROVE  \E v \in Webhooks : Claiming(v, c)'
  <2>1. CASE c = d /\ wh'[w].pc = "event"
    BY <1>1, <2>1 DEF Claiming
  <2>2. CASE charge'[c] = charge[c]
    <3>1. PICK v \in Webhooks : Claiming(v, c)
      BY <1>2, <1>5, <2>2, AloneBefore DEF DueInv, Claimed
    <3>2. CASE v # w
      BY <1>1, <3>1, <3>2 DEF Claiming
    <3>3. CASE v = w
      <4>1. wh'[w].pc \in {"ensure", "create"}
        BY <1>1, <1>5, <3>1, <3>3 DEF Claiming, Dedups, Finds, Locks, Refetches, Reports,
           Ensures, Creates, Totals, Projects, Removes, Notes, NoteCreates, rows
      <4>2. QED
        BY <1>1, <3>1, <3>3, <4>1 DEF Claiming
    <3>4. QED
      BY <3>2, <3>3
  <2>3. QED
    BY <1>4, <2>1, <2>2
<1>6. ASSUME NEW k \in Contracts, Sole(k)', NEW c \in ChargesOf(k), charge'[c].status = "PAID"
      PROVE  HandedOver(k)' \/ \E v \in Webhooks : Due(v, k)'
  <2>1. Sole(k) /\ c \in Charges /\ ContractOf[c] = k
    BY <1>6, AloneBefore DEF Sole, ChargesOf
  <2>2. CASE c = d /\ wh'[w].pc = "event"
    BY <1>1, <2>1, <2>2 DEF Due
  <2>3. CASE charge'[c] = charge[c]
    <3>1. HandedOver(k) \/ \E v \in Webhooks : Due(v, k)
      BY <1>6, <2>1, <2>3 DEF DueInv, Refreshed
    <3>2. HandedOver(k) => HandedOver(k)'
      <4>1. UNCHANGED <<contract, removals>> \/ Projects(w) \/ Removes(w)
        BY <1>1 DEF Dedups, Finds, Locks, Refetches, Reports, Ensures, Creates, Totals, Notes,
           NoteCreates, rows
      <4>2. QED
        BY <1>1, <4>1 DEF HandedOver, Projects, Removes
    <3>3. ASSUME NEW v \in Webhooks, v # w, Due(v, k) PROVE Due(v, k)'
      BY <1>1, <3>3 DEF Due
    <3>4. ASSUME Due(w, k) PROVE HandedOver(k)' \/ \E v \in Webhooks : Due(v, k)'
      <4>1. m = k
        BY <3>4 DEF Due
      <4>2. CASE Reports(w) \/ Ensures(w) \/ Creates(w)
        BY <1>1, <4>1, <4>2 DEF Reports, Ensures, Creates, Due
      <4>3. CASE Totals(w) /\ wh'[w].full
        BY <1>1, <4>1, <4>3 DEF Totals, Due
      <4>4. CASE Totals(w) /\ ~wh'[w].full
        <5>1. PICK e \in ChargesOf(k), v \in Webhooks : Claiming(v, e)
          BY <1>1, <2>1, <4>1, <4>4, UncoveredIsClaimed
        <5>2. v # w /\ Due(v, k)
          BY <4>4, <5>1 DEF Claiming, Totals, Due, ChargesOf
        <5>3. QED
          BY <3>3, <5>2
      <4>5. CASE Projects(w)
        <5>1. wh'[w].pc = "remove"
          BY <3>4, <4>5 DEF Projects, Due
        <5>2. QED
          BY <1>1, <4>1, <5>1 DEF Due
      <4>6. CASE Removes(w)
        BY <1>1, <4>1, <4>6 DEF Removes, HandedOver, RemovalInv, HandOver
      <4>7. QED
        BY <1>1, <3>4, <4>2, <4>3, <4>4, <4>5, <4>6 DEF Due, Dedups, Finds, Locks, Refetches,
           Notes, NoteCreates
    <3>5. QED
      BY <3>1, <3>2, <3>3, <3>4
  <2>4. QED
    BY <1>4, <2>1, <2>2, <2>3
<1>7. \A c \in Charges : Alone(c)' => Claimed(c)'
  BY <1>5 DEF Claimed
<1>8. \A k \in Contracts : Sole(k)' => Refreshed(k)'
  BY <1>6 DEF Refreshed, ChargesOf
<1>9. QED
  BY <1>7, <1>8 DEF DueInv

\* What is due to a contract is done or still being done: inductive.
LEMMA DueStep ==
    ASSUME TypeInv, BookedInv, DueInv, RemovalInv, Next, Calm'
    PROVE  DueInv'
<1>0. /\ TypeInv' /\ charge \in [Charges -> Row] /\ wh \in [Webhooks -> Webhook]
  BY TypeStep DEF TypeInv, TypeOK
<1>a. \A c \in Charges : Alone(c)' => Alone(c)
  BY AloneBefore
<1>1. CASE Environment
  BY <1>a, <1>1, DueStays DEF Environment, BankRegister, BankPay, BankRemove, Expire, procs, rows
<1>2. ASSUME NEW w \in Webhooks, NEW c \in Charges, Deliver(w, c) PROVE DueInv'
  <2> DEFINE r == [IdleWebhook EXCEPT !.pc = "dedup", !.charge = c]
  <2>1. /\ r.pc = "dedup" /\ wh[w].pc = "idle" /\ wh' = [wh EXCEPT ![w] = r]
        /\ UNCHANGED <<charge, settlements, contract, removals>>
    BY <1>2 DEF Deliver, IdleWebhook, rows
  <2> HIDE DEF r
  <2>2. \A v \in Webhooks : wh'[v] = wh[v] \/ (wh[v].pc = "idle" /\ wh'[v].pc = "dedup")
    BY <1>0, <2>1
  <2>3. QED
    BY <1>a, <2>1, <2>2, DueStays
<1>3. ASSUME NEW j \in Cycles, CycleStep(j) PROVE DueInv'
  <2>1. UNCHANGED wh /\ (Polls(j) \/ Moves(j) \/ Announces(j) \/ Looks(j) \/ Leaves(j) \/ Stops(j))
    BY <1>3, CycleTakes
  <2>2. UNCHANGED <<contract, removals>>
    BY <2>1 DEF Polls, Moves, Announces, Looks, Leaves, Stops, rows
  <2>3. ASSUME NEW c \in Charges, Alone(c)' PROVE charge'[c] = charge[c]
    <3>1. Moves(j) => job[j].charge # c
      BY <2>3 DEF Moves, Alone
    <3>2. QED
      BY <1>0, <2>1, <3>1 DEF Polls, Moves, Announces, Looks, Leaves, Stops, MoveTo, rows
  <2>4. ASSUME NEW c \in Charges, Alone(c)', E2E(c) \notin settlements' PROVE E2E(c) \notin settlements
    BY <2>1, <2>4 DEF Polls, Moves, Announces, Looks, Leaves, Stops, rows
  <2>5. ASSUME NEW c \in Charges, Alone(c)' PROVE Claimed(c)'
    BY <1>a, <2>1, <2>3, <2>4, <2>5 DEF DueInv, Claimed, Claiming
  <2>6. ASSUME NEW k \in Contracts, Sole(k)' PROVE Refreshed(k)'
    <3>1. Sole(k) /\ \A c \in ChargesOf(k) : charge'[c] = charge[c]
      BY <1>a, <2>3, <2>6 DEF Sole, ChargesOf
    <3>2. \A w \in Webhooks : Due(w, k) => Due(w, k)'
      BY <2>1 DEF Due
    <3>3. QED
      BY <2>2, <3>1, <3>2 DEF DueInv, Refreshed, HandedOver, ChargesOf
  <2>7. QED
    BY <2>5, <2>6 DEF DueInv
<1>4. ASSUME NEW w \in Webhooks, WebhookStep(w) PROVE DueInv'
  BY <1>0, <1>4, DueWebhook
<1>5. QED
  BY <1>1, <1>2, <1>3, <1>4, CalmNext

\* At rest the contract of a delivered payment is PAID and handed to the Serasa
\* removal, whichever of several refreshes read first and wrote last and whichever
\* PAID charge each compared its total with, when the webhook alone has written
\* the contract's charges and no database call has failed.
THEOREM DeliveredContractIsPaid == Spec => []ContractIsPaid
<1> DEFINE Inv == /\ TypeInv /\ RemovalInv
                  /\ Calm => BookedInv /\ DueInv
<1>1. Init => Inv
  <2> SUFFICES ASSUME Init PROVE Inv
    OBVIOUS
  <2>1. TypeInv
    BY TypeInit
  <2>2. \A c \in Charges : Booked(c) /\ charge[c].status # "PAID"
    <3>1. \A c \in Charges : Booked(c)
      BY DEF Init, Booked, SettledBy, Bound, IdleWebhook
    <3>2. \A c \in Charges : charge[c].status # "PAID"
      BY DEF Init, Open
    <3>3. QED
      BY <3>1, <3>2
  <2>3. \A j \in Cycles : job[j].pc \notin {"find", "settle"}
    BY DEF Init, IdleCycle
  <2>4. RemovalInv
    BY <2>1 DEF Init, RemovalInv, HandOver, RemovalFollowsPaid, IdleWebhook
  <2>5. BookedInv
    BY <2>2, <2>3 DEF BookedInv
  <2>6. DueInv
    BY <2>2 DEF DueInv, Claimed, Refreshed, ChargesOf
  <2>7. QED
    BY <2>1, <2>4, <2>5, <2>6
<1>2. ASSUME Inv, [Next]_vars PROVE Inv'
  <2>1. TypeInv' /\ RemovalInv'
    BY <1>2, TypeStep, RemovalStep
  <2>2. ASSUME Calm', Next PROVE BookedInv' /\ DueInv'
    BY <1>2, <2>2, CalmNext, BookedStep, DueStep
  <2>3. ASSUME UNCHANGED vars PROVE Calm' = Calm /\ BookedInv' = BookedInv
    BY <2>3 DEF vars, Calm, BookedInv, Alone, ByWebhook, Booked, SettledBy, Noting, Bound, PaidIfMoved
  <2>4. ASSUME UNCHANGED vars PROVE DueInv' = DueInv
    BY <2>4 DEF vars, DueInv, Alone, ByWebhook, Sole, Claimed, Claiming, Refreshed, HandedOver, Due, ChargesOf
  <2>5. QED
    BY <1>2, <2>1, <2>2, <2>3, <2>4
<1>3. ASSUME Inv PROVE ContractIsPaid
  <2> SUFFICES ASSUME AtRest, NEW w \in Webhooks, wh[w].pc = "done",
                      ByWebhook(ChargesOf(ContractOf[wh[w].charge]))
               PROVE  HandedOver(ContractOf[wh[w].charge])
    BY DEF ContractIsPaid, HandedOver
  <2> DEFINE c == wh[w].charge
             k == ContractOf[c]
  <2>1. Calm /\ c \in Charges /\ k \in Contracts /\ c \in ChargesOf(k)
    BY <1>3, ContractAssumption DEF AtRest, Calm, TypeInv, Working, WorkingWebhook, ChargesOf
  <2>2. Sole(k)
    BY DEF Sole, Alone, ByWebhook, AtRest
  <2>3. Booked(c)
    BY <1>3, <2>1, <2>2 DEF BookedInv, Sole
  <2>4. charge[c].status = "PAID"
    BY <2>3 DEF Booked, Bound
  <2>5. \A v \in Webhooks : ~Due(v, k)
    BY DEF AtRest, Due
  <2>6. QED
    BY <1>3, <2>1, <2>2, <2>4, <2>5 DEF DueInv, Refreshed
<1>4. Inv /\ [Next]_vars => Inv'
  BY <1>2
<1>5. Inv => ContractIsPaid
  BY <1>3
<1>6. QED
  BY <1>1, <1>4, <1>5, PTL DEF Spec
=============================================================================
