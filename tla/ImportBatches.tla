--------------------------- MODULE ImportBatches ---------------------------
(***************************************************************************)
(* The import of a portfolio file into the contract book: imports.service, *)
(* the validation worker and the application worker.  A batch is uploaded, *)
(* validated line by line, confirmed or cancelled by a user, and applied   *)
(* line by line; a job is retried when it fails, and taken up again when   *)
(* its worker dies.  A chunk of the application worker, one transaction of *)
(* up to 250 lines, is one line here: a chunk that aborts is retried with  *)
(* its job, whatever its size.                                             *)
(***************************************************************************)
EXTENDS ContractBook, Sequences

CONSTANTS Batches,     \* import batches
          Files,       \* what a file may hold: sequences of lines
          Jobs,        \* application jobs
          Managers,    \* cancel and confirm requests served at a time
          MaxManaged,  \* cancel and confirm requests served in all
          MaxTries,    \* attempts of an application job
          CheckEvery,  \* CHECK_CANCEL_INTERVAL
          MaxStalls,   \* maxStalledCount of the application queue
          MaxTroubles  \* failures and dead processes, in all

\* A line names a debt and its values; `sound` when every other field is
\* present and in range.
Line == [debt : Debts, terms : Terms, sound : BOOLEAN]

ASSUME ImportAssumption ==
    /\ MaxTries \in Nat \ {0} /\ CheckEvery \in Nat \ {0}
    /\ MaxManaged \in Nat /\ MaxTroubles \in Nat
    /\ Files \subseteq Seq(Line)

VARIABLES batch,     \* table ImportBatch
          check,     \* the validation job of each batch
          job,       \* the application jobs
          manager,   \* cancel and confirm requests
          managed,   \* how many were begun
          troubles   \* how much went wrong

importVars == <<bookVars, batch, check, job, manager, managed, troubles>>
importOnly == <<check, job, manager, managed, troubles>>

Cancellable == {"PENDING_VALIDATION", "VALIDATING", "VALIDATED",
                "VALIDATED_WITH_ERRORS"}
Confirmable == {"VALIDATED", "VALIDATED_WITH_ERRORS"}
BatchStatuses == Cancellable \cup {"NONE", "APPLYING", "APPLIED", "FAILED",
                                   "VALIDATION_FAILED", "CANCELLED"}
NoCheck == [at |-> "none"]
NoJob == [at |-> "none"]
Counters == [created : Nat, updated : Nat, ignored : Nat]
Zero == [created |-> 0, updated |-> 0, ignored |-> 0]

\* validateLine: the fields are present, well formed and in range, and the
\* document's check digits are right.
Valid(line) == line.sound /\ line.debt \notin Misdigit

\* isLineValid: the application worker looks at the file again, and at the
\* check digits no more.
Applicable(line) == line.sound

LinesOf(file) == Chosen(file, {i \in DOMAIN file : Applicable(file[i])})
ToApply(b) == LinesOf(batch[b].file)

\* countLines, and what upload stores: the table row comes first.
Uploaded(status, file, wallet) ==
    [status |-> status, file |-> file, wallet |-> wallet,
     valid |-> 0, invalid |-> 0, counts |-> Zero]
NoBatch == [status |-> "NONE"]

UnchangedBook == UNCHANGED bookVars

-----------------------------------------------------------------------------
(* imports.service.                                                        *)

\* upload: the batch is created ...
Upload(b) ==
    /\ batch[b] = NoBatch
    /\ \E file \in Files, w \in Wallets :
          /\ Len(file) > 0
          /\ batch' = [batch EXCEPT ![b] = Uploaded("PENDING_VALIDATION", file, w)]
    /\ UNCHANGED <<bookVars, importOnly>>

\* ... and its validation scheduled.
ScheduleCheck(b) ==
    /\ batch[b] # NoBatch /\ check[b] = NoCheck
    /\ check' = [check EXCEPT ![b] = [at |-> "queued", stalls |-> 0]]
    /\ UNCHANGED <<bookVars, batch, job, manager, managed, troubles>>

Ask(m, what, b) ==
    /\ manager[m] = Idle
    /\ managed < MaxManaged
    /\ managed' = managed + 1
    /\ manager' = [manager EXCEPT ![m] = [at |-> what, batch |-> b]]
    /\ UNCHANGED <<bookVars, batch, check, job, troubles>>

\* cancel: the status is read, then overwritten.
CancelBatchRead(m) ==
    \E b \in Batches : batch[b].status \in Cancellable /\ Ask(m, "cancel", b)

CancelBatchWrite(m) ==
    /\ manager[m].at = "cancel"
    /\ batch' = [batch EXCEPT ![manager[m].batch].status = "CANCELLED"]
    /\ manager' = [manager EXCEPT ![m] = Idle]
    /\ UNCHANGED <<bookVars, check, job, managed, troubles>>

\* confirm: the status is read, overwritten, and a job added.
ConfirmRead(m) ==
    \E b \in Batches : batch[b].status \in Confirmable /\ Ask(m, "confirm", b)

ConfirmWrite(m) ==
    /\ manager[m].at = "confirm"
    /\ batch' = [batch EXCEPT ![manager[m].batch].status = "APPLYING"]
    /\ manager' = [manager EXCEPT ![m].at = "schedule"]
    /\ UNCHANGED <<bookVars, check, job, managed, troubles>>

ConfirmSchedule(m) ==
    /\ manager[m].at = "schedule"
    /\ \E j \in Jobs :
          /\ job[j] = NoJob
          /\ job' = [job EXCEPT ![j] = [at |-> "queued", tries |-> 0,
                                        stalls |-> 0,
                                        batch |-> manager[m].batch]]
    /\ manager' = [manager EXCEPT ![m] = Idle]
    /\ UNCHANGED <<bookVars, batch, check, managed, troubles>>

-----------------------------------------------------------------------------
(* validation.processor.                                                   *)

Checking(b, at) == check[b].at = at

\* The batch becomes VALIDATING, whatever it was, and its file is parsed.
CheckStart(b) ==
    /\ Checking(b, "queued")
    /\ batch' = [batch EXCEPT ![b].status = "VALIDATING"]
    /\ check' = [check EXCEPT ![b] = [at |-> "line", next |-> 1,
                                      valid |-> 0, invalid |-> 0,
                                      stalls |-> check[b].stalls]]
    /\ UNCHANGED <<bookVars, job, manager, managed, troubles>>

\* A line; every CheckEvery lines a cancelled batch stops the loop.
CheckLine(b) ==
    LET k == check[b]
        line == batch[b].file[k.next]
        stop == /\ k.next > 1 /\ (k.next - 1) % CheckEvery = 0
                /\ batch[b].status = "CANCELLED"
    IN  /\ Checking(b, "line") /\ k.next <= Len(batch[b].file)
        /\ check' = [check EXCEPT ![b] =
              IF stop THEN [k EXCEPT !.at = "ends"]
              ELSE IF Valid(line)
              THEN [k EXCEPT !.next = k.next + 1, !.valid = k.valid + 1]
              ELSE [k EXCEPT !.next = k.next + 1, !.invalid = k.invalid + 1]]
        /\ UNCHANGED <<bookVars, batch, job, manager, managed, troubles>>

\* The errors are stored and the status read once more ...
CheckEnd(b) ==
    /\ \/ Checking(b, "line") /\ check[b].next > Len(batch[b].file)
       \/ Checking(b, "ends")
    /\ check' = [check EXCEPT ![b].at = IF batch[b].status = "CANCELLED"
                                        THEN "keep" ELSE "grade"]
    /\ UNCHANGED <<bookVars, batch, job, manager, managed, troubles>>

\* ... and the result written, over the status unless it was read CANCELLED.
CheckWrite(b) ==
    /\ check[b].at \in {"keep", "grade"}
    /\ batch' = [batch EXCEPT
          ![b].valid = check[b].valid, ![b].invalid = check[b].invalid,
          ![b].status = IF Checking(b, "keep") THEN batch[b].status
                        ELSE IF check[b].invalid > 0 THEN "VALIDATED_WITH_ERRORS"
                        ELSE "VALIDATED"]
    /\ check' = [check EXCEPT ![b] = [at |-> "done"]]
    /\ UNCHANGED <<bookVars, job, manager, managed, troubles>>

CheckRunning(b) == check[b].at \in {"line", "ends", "keep", "grade"}

Trouble == troubles < MaxTroubles /\ troubles' = troubles + 1

\* The storage or the database fails: the catch clause.  One attempt only.
CheckFail(b) ==
    /\ CheckRunning(b) /\ Trouble
    /\ batch' = [batch EXCEPT ![b].status = "VALIDATION_FAILED"]
    /\ check' = [check EXCEPT ![b] = [at |-> "done"]]
    /\ UNCHANGED <<bookVars, job, manager, managed>>

\* The worker dies: a stalled job is taken up again from the start, once;
\* then the queue fails it, and the catch clause is not reached.
CheckStall(b) ==
    /\ CheckRunning(b) /\ Trouble
    /\ check' = [check EXCEPT ![b] = IF check[b].stalls < 1
                     THEN [at |-> "queued", stalls |-> 1] ELSE [at |-> "lost"]]
    /\ UNCHANGED <<bookVars, batch, job, manager, managed>>

\* The process that serves a confirmation dies before it adds the job.
ConfirmDies(m) ==
    /\ manager[m].at = "schedule" /\ Trouble
    /\ manager' = [manager EXCEPT ![m].at = "dead"]
    /\ UNCHANGED <<bookVars, batch, check, job, managed>>

-----------------------------------------------------------------------------
(* application.processor.                                                  *)

At(j, at) == job[j].at = at
JobFile(j) == ToApply(job[j].batch)
JobLine(j) == JobFile(j)[job[j].next]
Wallet(j) == batch[job[j].batch].wallet
Counted(k, what) == [k EXCEPT !.at = "save", !.counts[what] = k.counts[what] + 1]
JobsOnly == UNCHANGED <<clerk, served, check, manager, managed>>

\* Seeded fault: a retry keeps the counters the last attempt saved.
ApplyKeepCounts(j) ==
    /\ At(j, "queued")
    /\ job' = [job EXCEPT ![j] =
                 [at |-> "look", batch |-> job[j].batch, tries |-> job[j].tries,
                  stalls |-> job[j].stalls, next |-> 1,
                  counts |-> batch[job[j].batch].counts, seen |-> NoContract, row |-> {}]]
    /\ UNCHANGED <<book, batch, troubles>> /\ JobsOnly

\* The job starts: the batch and its file are read, whatever the batch's
\* status, and the counters start from zero.
ApplyStart(j) ==
    /\ At(j, "queued")
    /\ job' = [job EXCEPT ![j] =
                 [at |-> "look", batch |-> job[j].batch, tries |-> job[j].tries,
                  stalls |-> job[j].stalls, next |-> 1, counts |-> Zero,
                  seen |-> NoContract, row |-> {}]]
    /\ UNCHANGED <<book, batch, troubles>> /\ JobsOnly

\* The rows of the line's debt are read; a second match and a terminal
\* contract are ignored.
ApplyLook(j) ==
    LET k == job[j]
        found == Matching(JobLine(j).debt)
        terminal == \E r \in found : book[r].paid \/ book[r].status = "CANCELLED"
    IN  /\ At(j, "look") /\ k.next <= Len(JobFile(j))
        /\ job' = [job EXCEPT ![j] =
              IF Cardinality(found) > 1 \/ terminal THEN Counted(k, "ignored")
              ELSE IF found = {} THEN [k EXCEPT !.at = "create"]
              ELSE LET r == CHOOSE r \in found : TRUE
                   IN  [k EXCEPT !.at = "merge", !.row = found, !.seen = book[r]]]
        /\ UNCHANGED <<book, batch, troubles>> /\ JobsOnly

\* No match: a contract is created.
ApplyCreate(j) ==
    /\ At(j, "create")
    /\ ~KeyTaken(JobLine(j).debt, Wallet(j))
    /\ Create(Wallet(j), JobLine(j).debt, JobLine(j).terms)
    /\ job' = [job EXCEPT ![j] = Counted(job[j], "created")]
    /\ UNCHANGED <<batch, troubles>> /\ JobsOnly

\* What an import makes of a row.  A contract of the same wallet with the
\* same values is left alone unless it was suspended; other values replace
\* the row's and lift its suspension; a contract of another wallet moves,
\* and stays suspended.
Merged(row, seen, line, wallet) ==
    LET active == IF seen.status = "SUSPENDED" THEN "ACTIVE" ELSE row.status
        rewritten == [row EXCEPT !.wallet = wallet, !.terms = line.terms,
                                 !.offer = Offer(wallet, line.terms),
                                 !.debt = line.debt, !.key = line.debt,
                                 !.debts = row.debts \cup {line.debt}]
    IN  IF seen.wallet # wallet THEN rewritten
        ELSE IF seen.terms # line.terms THEN [rewritten EXCEPT !.status = active]
        ELSE [row EXCEPT !.status = active]

Untouched(seen, line, wallet) ==
    seen.wallet = wallet /\ seen.terms = line.terms /\ seen.status # "SUSPENDED"

\* The merge writes the key, unless the values are the same.
KeyClash(j, r) == /\ job[j].seen.wallet # Wallet(j)
                    \/ job[j].seen.terms # JobLine(j).terms
                  /\ KeyTakenByOther(JobLine(j).debt, r)

ApplyMerge(j) ==
    LET k == job[j]
    IN  /\ At(j, "merge")
        /\ \E r \in k.row :
              /\ ~KeyClash(j, r)
              /\ book' = IF Untouched(k.seen, JobLine(j), Wallet(j)) THEN book
                         ELSE [book EXCEPT ![r] = Merged(book[r], k.seen, JobLine(j), Wallet(j))]
        /\ job' = [job EXCEPT ![j] =
              Counted(k, IF Untouched(k.seen, JobLine(j), Wallet(j))
                         THEN "ignored" ELSE "updated")]
        /\ UNCHANGED <<batch, troubles>> /\ JobsOnly

\* After a chunk the progress is saved and the next line taken.
ApplySave(j) ==
    /\ At(j, "save")
    /\ batch' = [batch EXCEPT ![job[j].batch].counts = job[j].counts]
    /\ job' = [job EXCEPT ![j].at = "look", ![j].next = job[j].next + 1,
                          ![j].seen = NoContract, ![j].row = {}]
    /\ UNCHANGED <<book, troubles>> /\ JobsOnly

\* Seeded fault: the job ends on its last line instead of after it.
ApplyEndEarly(j) ==
    /\ At(j, "look") /\ job[j].next >= Len(JobFile(j))
    /\ batch' = [batch EXCEPT ![job[j].batch].counts = job[j].counts,
                              ![job[j].batch].status = "APPLIED"]
    /\ job' = [job EXCEPT ![j].at = "reprice"]
    /\ UNCHANGED <<book, troubles>> /\ JobsOnly

\* After the last line: the counters and APPLIED ...
ApplyEnd(j) ==
    /\ At(j, "look") /\ job[j].next > Len(JobFile(j))
    /\ batch' = [batch EXCEPT ![job[j].batch].counts = job[j].counts,
                              ![job[j].batch].status = "APPLIED"]
    /\ job' = [job EXCEPT ![j].at = "reprice"]
    /\ UNCHANGED <<book, troubles>> /\ JobsOnly

\* ... and wallets.recalculateOffers: one statement over the wallet's
\* active unpaid contracts.
ApplyReprice(j) ==
    /\ At(j, "reprice")
    /\ book' = [r \in Rows |->
                  IF /\ Live(r) /\ book[r].wallet = Wallet(j)
                     /\ book[r].status = "ACTIVE" /\ ~book[r].paid
                  THEN [book[r] EXCEPT !.offer = Offer(book[r].wallet, book[r].terms)]
                  ELSE book[r]]
    /\ job' = [job EXCEPT ![j] = [at |-> "done", batch |-> job[j].batch]]
    /\ UNCHANGED <<batch, troubles>> /\ JobsOnly

ApplyRunning(j) == job[j].at \in {"look", "create", "merge", "save", "reprice"}

\* Seeded fault: the attempts are compared without the one being made.
GiveUpLate(j) ==
    /\ batch' = IF job[j].tries >= MaxTries
                THEN [batch EXCEPT ![job[j].batch].status = "FAILED"] ELSE batch
    /\ job' = [job EXCEPT ![j] =
          IF job[j].tries + 1 >= MaxTries THEN [at |-> "done", batch |-> job[j].batch]
          ELSE [at |-> "queued", batch |-> job[j].batch,
                tries |-> job[j].tries + 1, stalls |-> job[j].stalls]]
    /\ UNCHANGED book /\ JobsOnly

\* The catch clause: the last attempt leaves FAILED behind, the others
\* nothing; the job is retried while attempts remain.
GiveUp(j) ==
    /\ batch' = IF job[j].tries >= MaxTries - 1
                THEN [batch EXCEPT ![job[j].batch].status = "FAILED"] ELSE batch
    /\ job' = [job EXCEPT ![j] =
          IF job[j].tries + 1 >= MaxTries THEN [at |-> "done", batch |-> job[j].batch]
          ELSE [at |-> "queued", batch |-> job[j].batch,
                tries |-> job[j].tries + 1, stalls |-> job[j].stalls]]
    /\ UNCHANGED book /\ JobsOnly

\* The key is taken: the transaction aborts.
ApplyClash(j) ==
    /\ \/ At(j, "create") /\ KeyTaken(JobLine(j).debt, Wallet(j))
       \/ At(j, "merge") /\ \E r \in job[j].row : KeyClash(j, r)
    /\ GiveUp(j) /\ UNCHANGED troubles

\* The storage or the database fails.
ApplyFail(j) == ApplyRunning(j) /\ Trouble /\ GiveUp(j)

\* The worker dies: the job is taken up again, and after MaxStalls times
\* failed by the queue, without the catch clause.
ApplyStall(j) ==
    /\ ApplyRunning(j) /\ Trouble
    /\ job' = [job EXCEPT ![j] =
          IF job[j].stalls >= MaxStalls THEN [at |-> "lost", batch |-> job[j].batch]
          ELSE [at |-> "queued", batch |-> job[j].batch,
                tries |-> job[j].tries, stalls |-> job[j].stalls + 1]]
    /\ UNCHANGED <<book, batch>> /\ JobsOnly

-----------------------------------------------------------------------------
\* The book is empty; a batch is still to be uploaded or already validated.
\* Less than the bounds may be left of the requests and the failures.
ImportQueues ==
    /\ batch \in [Batches -> {NoBatch} \cup
                     {Uploaded("VALIDATED", f, w) : f \in Files, w \in Wallets}]
    /\ check = [b \in Batches |-> IF batch[b] = NoBatch THEN NoCheck
                                  ELSE [at |-> "done"]]
    /\ job = [j \in Jobs |-> NoJob]
    /\ manager = [m \in Managers |-> Idle] /\ managed \in 0 .. MaxManaged
    /\ troubles \in 0 .. MaxTroubles

ImportInit ==
    /\ book = [r \in Rows |-> NoContract]
    /\ clerk = [c \in Clerks |-> Idle] /\ served \in 0 .. MaxClerical
    /\ ImportQueues

CheckStep(b) == CheckStart(b) \/ CheckLine(b) \/ CheckEnd(b) \/ CheckWrite(b)
ApplyStep(j) == \/ ApplyStart(j) \/ ApplyLook(j) \/ ApplyCreate(j) \/ ApplyMerge(j)
                \/ ApplySave(j) \/ ApplyEnd(j) \/ ApplyReprice(j) \/ ApplyClash(j)
Manage(m) == \/ CancelBatchRead(m) \/ CancelBatchWrite(m) \/ ConfirmRead(m)
             \/ ConfirmWrite(m) \/ ConfirmSchedule(m)

ImportNext ==
    \/ Desk /\ UNCHANGED <<batch, importOnly>>
    \/ \E b \in Batches : Upload(b) \/ ScheduleCheck(b) \/ CheckStep(b)
    \/ \E m \in Managers : Manage(m)
    \/ \E j \in Jobs : ApplyStep(j)
    \/ \E b \in Batches : CheckFail(b) \/ CheckStall(b)
    \/ \E m \in Managers : ConfirmDies(m)
    \/ \E j \in Jobs : ApplyFail(j) \/ ApplyStall(j)

ImportSpec == ImportInit /\ [][ImportNext]_importVars

\* BullMQ runs every job, and a confirmation under way goes on unless its
\* process dies.
ImportFairness ==
    /\ \A b \in Batches : WF_importVars(CheckStep(b))
    /\ \A j \in Jobs : WF_importVars(ApplyStep(j))
    /\ \A m \in Managers : WF_importVars(ConfirmSchedule(m))

-----------------------------------------------------------------------------
(* Properties.                                                             *)

\* The rows hold what their columns may.
ImportTypeOK ==
    /\ book \in [Rows -> ContractRow]
    /\ \A b \in Batches : batch[b].status \in BatchStatuses
    /\ \A j \in Jobs : job[j].at # "none" => job[j].batch \in Batches
    /\ served \in 0 .. MaxClerical /\ managed \in 0 .. MaxManaged
    /\ troubles \in 0 .. MaxTroubles

\* A debt has one contract: two live rows of the same debt only come from a
\* PATCH that moved one of them onto the other's due date, whatever imports,
\* retries and requests race to create it.
OneContractPerDebt ==
    \A q \in Rows, r \in Rows :
       (q # r /\ Live(q) /\ Live(r) /\ book[q].debt = book[r].debt)
         => \E x \in {q, r} : book[x].key # book[x].debt

JobsOf(b) == {j \in Jobs : job[j].at # "none" /\ job[j].batch = b}
AtRest(b) == \A j \in JobsOf(b) : job[j].at \in {"done", "lost"}
Confirming(b, at) == \E m \in Managers : manager[m].at \in at /\ manager[m].batch = b

\* Once a batch is APPLIED and every job of it is done, its counters account
\* for every line applied, however often a job was retried.  A job the queue
\* gives up after too many dead workers is excepted: when a second
\* confirmation added it, its partial counters stay under APPLIED.
CountsAddUp ==
    \A b \in Batches :
       (batch[b].status = "APPLIED" /\ \A j \in JobsOf(b) : At(j, "done"))
         => LET n == batch[b].counts
            IN  n.created + n.updated + n.ignored = Len(ToApply(b))

\* An APPLIED batch has a contract for every line it applied: a row that is
\* the line's debt, or was until somebody changed its due date.
AppliedIsInTheBook ==
    \A b \in Batches :
       batch[b].status = "APPLIED"
         => \A n \in 1 .. Len(ToApply(b)) :
               \E r \in Rows : ToApply(b)[n].debt \in book[r].debts

\* A validation that was queued leaves its batch neither PENDING_VALIDATION
\* nor VALIDATING, and an application that was queued, while no confirmation
\* is under way, does not leave it APPLYING: through failed attempts and dead
\* workers, unless the queue itself gives the stalled job up or the process
\* of a second confirmation dies before it adds its job.
BatchIsAnswered ==
    \A b \in Batches :
       /\ check[b].at \notin {"none", "done", "lost"}
            ~> \/ batch[b].status \notin {"PENDING_VALIDATION", "VALIDATING"}
               \/ check[b].at = "lost"
       /\ (~AtRest(b) /\ ~Confirming(b, {"confirm", "schedule"}))
            ~> \/ batch[b].status # "APPLYING"
               \/ \E j \in JobsOf(b) : At(j, "lost")
               \/ Confirming(b, {"dead"})

=============================================================================
