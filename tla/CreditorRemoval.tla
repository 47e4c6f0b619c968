--------------------------- MODULE CreditorRemoval ---------------------------
(***************************************************************************)
(* The removal of contracts from a file a creditor sends:                  *)
(* creditor-removal.service and its worker.  The file is checked in the    *)
(* background, which lists the contracts it names; the creditor approves   *)
(* the list; a job cancels the contracts one after the other through       *)
(* operations.cancelContract and goes on, when it is retried, from the     *)
(* progress it last saved.  A file names contracts by document and number, *)
(* not by due date, so a name may stand for several rows.                  *)
(***************************************************************************)
EXTENDS ContractBook, Sequences

CONSTANTS Names,        \* pairs of contract number and document
          NameOf,       \* the name of each debt
          Letters,      \* what a file may hold: sequences of names
          Removals,     \* removal batches
          Strikes,      \* apply jobs
          Approvers,    \* confirm requests served at a time
          MaxApprovals, \* confirm requests served in all
          SiftTries,    \* attempts of a validate job
          StrikeTries,  \* attempts of an apply job
          SaveEvery,    \* contracts between two saves of the progress
          MaxMishaps    \* failing calls and dead processes, in all

ASSUME RemovalAssumption ==
    /\ NameOf \in [Debts -> Names]
    /\ Letters \subseteq Seq(Names) /\ MaxApprovals \in Nat /\ MaxMishaps \in Nat
    /\ SiftTries \in Nat \ {0} /\ StrikeTries \in Nat \ {0} /\ SaveEvery \in Nat \ {0}

VARIABLES removal,    \* table CreditorRemovalBatch
          sift,       \* the validate job of each batch
          strike,     \* the apply jobs
          approver,   \* confirm requests
          approvals,  \* how many were begun
          mishaps,    \* how much went wrong
          struck      \* ghost: rows each batch has cancelled

removalOnly == <<removal, sift, strike, approver, approvals, mishaps, struck>>
removalVars == <<bookVars, removalOnly>>

RemovalStatuses == {"NONE", "PENDING", "VALIDATING", "READY", "APPLYING",
                    "COMPLETED", "FAILED"}
NoLetter == [status |-> "NONE"]
NoSift == [at |-> "none"]
NoStrike == [at |-> "none"]

-----------------------------------------------------------------------------
(* createPreview and confirm.                                              *)

Preview(b) ==
    /\ removal[b] = NoLetter
    /\ \E f \in Letters :
          removal' = [removal EXCEPT ![b] =
             [status |-> "PENDING", letter |-> f, list |-> << >>, done |-> 0,
              reread |-> FALSE]]
    /\ UNCHANGED <<bookVars, sift, strike, approver, approvals, mishaps, struck>>

ScheduleSift(b) ==
    /\ removal[b].status = "PENDING" /\ sift[b] = NoSift
    /\ sift' = [sift EXCEPT ![b] = [at |-> "queued", tries |-> 0, stalls |-> 0]]
    /\ UNCHANGED <<bookVars, removal, strike, approver, approvals, mishaps, struck>>

\* confirm: a batch that is READY, as it was read, becomes APPLYING ...
ApproveRead(a) ==
    /\ approver[a] = Idle /\ approvals < MaxApprovals
    /\ \E b \in Removals :
          /\ removal[b].status = "READY"
          /\ approver' = [approver EXCEPT ![a] = [at |-> "confirm", batch |-> b]]
    /\ approvals' = approvals + 1
    /\ UNCHANGED <<bookVars, removal, sift, strike, mishaps, struck>>

ApproveWrite(a) ==
    /\ approver[a].at = "confirm"
    /\ removal' = [removal EXCEPT ![approver[a].batch].status = "APPLYING"]
    /\ approver' = [approver EXCEPT ![a].at = "schedule"]
    /\ UNCHANGED <<bookVars, sift, strike, approvals, mishaps, struck>>

\* ... and gets a job.
ApproveSchedule(a) ==
    /\ approver[a].at = "schedule"
    /\ \E j \in Strikes :
          /\ strike[j] = NoStrike
          /\ strike' = [strike EXCEPT ![j] = [at |-> "queued", tries |-> 0, stalls |-> 0,
                                              batch |-> approver[a].batch]]
    /\ approver' = [approver EXCEPT ![a] = Idle]
    /\ UNCHANGED <<bookVars, removal, sift, approvals, mishaps, struck>>

-----------------------------------------------------------------------------
(* validateInBackground.                                                   *)

SiftStart(b) ==
    /\ sift[b].at = "queued"
    /\ removal' = [removal EXCEPT ![b].status = "VALIDATING"]
    /\ sift' = [sift EXCEPT ![b].at = "resolve"]
    /\ UNCHANGED <<bookVars, strike, approver, approvals, mishaps, struck>>

\* resolve: of the live rows of a name the map keeps one; a name whose row
\* is cancelled or paid is left out, and one that is repeated counts once.
Named(name) == {r \in Rows : Live(r) /\ NameOf[book[r].debt] = name}
Blocked(r) == book[r].status = "CANCELLED" \/ book[r].paid
Resolved(letter, kept) ==
    LET first(i) == \A j \in DOMAIN letter : letter[j] = letter[i] => i <= j
        places == {i \in DOMAIN letter : /\ Named(letter[i]) # {} /\ first(i)
                                         /\ ~Blocked(kept[letter[i]])}
    IN  Chosen([i \in DOMAIN letter |-> kept[letter[i]]], places)

SiftResolve(b) ==
    /\ sift[b].at = "resolve"
    /\ \E kept \in [Names -> Rows] :
          /\ \A name \in Names : Named(name) # {} => kept[name] \in Named(name)
          /\ sift' = [sift EXCEPT ![b] =
                [at |-> "write", tries |-> sift[b].tries, stalls |-> sift[b].stalls,
                 list |-> Resolved(removal[b].letter, kept)]]
    /\ UNCHANGED <<bookVars, removal, strike, approver, approvals, mishaps, struck>>

\* The list is stored, whatever became of the batch; the progress is not
\* reset.
SiftWrite(b) ==
    /\ sift[b].at = "write"
    /\ removal' = [removal EXCEPT ![b].status = "READY", ![b].list = sift[b].list,
                                  ![b].reread = @ \/ sift[b].stalls > 0]
    /\ sift' = [sift EXCEPT ![b] = [at |-> "ack", tries |-> sift[b].tries,
                                    stalls |-> sift[b].stalls]]
    /\ UNCHANGED <<bookVars, strike, approver, approvals, mishaps, struck>>

SiftDone(b) ==
    /\ sift[b].at = "ack"
    /\ sift' = [sift EXCEPT ![b] = [at |-> "done"]]
    /\ UNCHANGED <<bookVars, removal, strike, approver, approvals, mishaps, struck>>

Mishap == mishaps < MaxMishaps /\ mishaps' = mishaps + 1

\* The storage or the database fails: FAILED, and another attempt if one is
\* left.
SiftFail(b) ==
    /\ sift[b].at \in {"resolve", "write"} /\ Mishap
    /\ removal' = [removal EXCEPT ![b].status = "FAILED"]
    /\ sift' = [sift EXCEPT ![b] =
          IF sift[b].tries + 1 >= SiftTries THEN [at |-> "done"]
          ELSE [at |-> "queued", tries |-> sift[b].tries + 1, stalls |-> sift[b].stalls]]
    /\ UNCHANGED <<bookVars, strike, approver, approvals, struck>>

\* The worker dies, before the list is stored or after it: the job is taken
\* up again from the start, once.
SiftStall(b) ==
    /\ sift[b].at \in {"resolve", "write", "ack"} /\ Mishap
    /\ sift' = [sift EXCEPT ![b] =
          IF sift[b].stalls >= 1 THEN [at |-> "lost"]
          ELSE [at |-> "queued", tries |-> sift[b].tries, stalls |-> 1]]
    /\ UNCHANGED <<bookVars, removal, strike, approver, approvals, struck>>

-----------------------------------------------------------------------------
(* applyInBackground.                                                      *)

RemovalOf(j) == removal[strike[j].batch]
Next1(j) == strike[j].list[strike[j].count + 1]

\* Seeded fault: a retry takes the contract it failed on for cancelled.
StrikeStartPast(j) ==
    /\ strike[j].at = "queued"
    /\ strike' = [strike EXCEPT ![j] =
          [at |-> "read", tries |-> strike[j].tries, stalls |-> strike[j].stalls,
           batch |-> strike[j].batch, list |-> RemovalOf(j).list,
           count |-> RemovalOf(j).done + IF strike[j].tries > 0 THEN 1 ELSE 0]]
    /\ UNCHANGED <<bookVars, removal, sift, approver, approvals, mishaps, struck>>

\* The list and the progress are read, whatever the batch's status.
StrikeStart(j) ==
    /\ strike[j].at = "queued"
    /\ strike' = [strike EXCEPT ![j] =
          [at |-> "read", tries |-> strike[j].tries, stalls |-> strike[j].stalls,
           batch |-> strike[j].batch, list |-> RemovalOf(j).list,
           count |-> RemovalOf(j).done]]
    /\ UNCHANGED <<bookVars, removal, sift, approver, approvals, mishaps, struck>>

\* cancelContract looks the contract up ...
StrikeRead(j) ==
    /\ strike[j].at = "read" /\ strike[j].count < Len(strike[j].list)
    /\ Live(Next1(j)) /\ book[Next1(j)].status # "CANCELLED"
    /\ strike' = [strike EXCEPT ![j].at = "cancel"]
    /\ UNCHANGED <<bookVars, removal, sift, approver, approvals, mishaps, struck>>

\* ... and cancels it.
StrikeCancel(j) ==
    LET k == strike[j]
    IN  /\ k.at = "cancel"
        /\ book' = [book EXCEPT ![Next1(j)].status = "CANCELLED"]
        /\ struck' = [struck EXCEPT ![k.batch] = @ \cup {Next1(j)}]
        /\ strike' = [strike EXCEPT ![j].count = k.count + 1,
             ![j].at = IF (k.count + 1) % SaveEvery = 0 \/ k.count + 1 = Len(k.list)
                       THEN "save" ELSE "read"]
        /\ UNCHANGED <<clerk, served, removal, sift, approver, approvals, mishaps>>

StrikeSave(j) ==
    /\ strike[j].at = "save"
    /\ removal' = [removal EXCEPT ![strike[j].batch].done = strike[j].count]
    /\ strike' = [strike EXCEPT ![j].at = "read"]
    /\ UNCHANGED <<bookVars, sift, approver, approvals, mishaps, struck>>

StrikeEnd(j) ==
    /\ strike[j].at = "read" /\ strike[j].count >= Len(strike[j].list)
    /\ removal' = [removal EXCEPT ![strike[j].batch].status = "COMPLETED",
                                  ![strike[j].batch].done = strike[j].count]
    /\ strike' = [strike EXCEPT ![j] = [at |-> "done", batch |-> strike[j].batch]]
    /\ UNCHANGED <<bookVars, sift, approver, approvals, mishaps, struck>>

\* The catch clause: FAILED and the progress; another attempt if one is left.
Retreat(j) ==
    LET k == strike[j]
    IN  /\ removal' = [removal EXCEPT ![k.batch].status = "FAILED", ![k.batch].done = k.count]
        /\ strike' = [strike EXCEPT ![j] =
              IF k.tries + 1 >= StrikeTries THEN [at |-> "done", batch |-> k.batch]
              ELSE [at |-> "queued", tries |-> k.tries + 1, stalls |-> k.stalls,
                    batch |-> k.batch]]
        /\ UNCHANGED <<bookVars, sift, approver, approvals, struck>>

\* The contract is gone or cancelled already: 404 or 409.
StrikeRefused(j) ==
    /\ strike[j].at = "read" /\ strike[j].count < Len(strike[j].list)
    /\ ~Live(Next1(j)) \/ book[Next1(j)].status = "CANCELLED"
    /\ Retreat(j) /\ UNCHANGED mishaps

StrikeFail(j) == /\ strike[j].at \in {"read", "cancel", "save"}
                 /\ Mishap /\ Retreat(j)

\* The worker dies: once more from the progress saved.
StrikeStall(j) ==
    /\ strike[j].at \in {"read", "cancel", "save"} /\ Mishap
    /\ strike' = [strike EXCEPT ![j] =
          IF strike[j].stalls >= 1 THEN [at |-> "lost", batch |-> strike[j].batch]
          ELSE [at |-> "queued", tries |-> strike[j].tries, stalls |-> 1,
                batch |-> strike[j].batch]]
    /\ UNCHANGED <<bookVars, removal, sift, approver, approvals, struck>>

-----------------------------------------------------------------------------
RemovalQueues ==
    /\ removal = [b \in Removals |-> NoLetter]
    /\ sift = [b \in Removals |-> NoSift]
    /\ strike = [j \in Strikes |-> NoStrike]
    /\ approver = [a \in Approvers |-> Idle] /\ approvals \in 0 .. MaxApprovals
    /\ mishaps \in 0 .. MaxMishaps
    /\ struck = [b \in Removals |-> {}]

\* Every row holds the contract of a debt of its own; nothing was sent yet,
\* and a part of the budgets may be spent elsewhere.
RemovalInit ==
    /\ \E place \in [Rows -> Debts], w \in Wallets, t \in Terms :
          /\ \A q \in Rows : \A r \in Rows : q # r => place[q] # place[r]
          /\ book = [r \in Rows |-> NewRow(w, place[r], t)]
    /\ clerk = [c \in Clerks |-> Idle] /\ served \in 0 .. MaxClerical
    /\ RemovalQueues

SiftStep(b) == SiftStart(b) \/ SiftResolve(b) \/ SiftWrite(b) \/ SiftDone(b)
StrikeStep(j) == \/ StrikeStart(j) \/ StrikeRead(j) \/ StrikeCancel(j) \/ StrikeSave(j)
                 \/ StrikeEnd(j) \/ StrikeRefused(j)

RemovalNext ==
    \/ Desk /\ UNCHANGED removalOnly
    \/ \E b \in Removals : \/ Preview(b) \/ ScheduleSift(b) \/ SiftStep(b)
                           \/ SiftFail(b) \/ SiftStall(b)
    \/ \E a \in Approvers : ApproveRead(a) \/ ApproveWrite(a) \/ ApproveSchedule(a)
    \/ \E j \in Strikes : StrikeStep(j) \/ StrikeFail(j) \/ StrikeStall(j)

RemovalSpec == RemovalInit /\ [][RemovalNext]_removalVars

-----------------------------------------------------------------------------
(* Properties.                                                             *)

\* The rows hold what their columns may.
RemovalTypeOK ==
    /\ book \in [Rows -> ContractRow]
    /\ \A b \in Removals : removal[b].status \in RemovalStatuses
    /\ \A j \in Strikes : strike[j].at # "none" => strike[j].batch \in Removals
    /\ struck \in [Removals -> SUBSET Rows]
    /\ approvals \in 0 .. MaxApprovals /\ mishaps \in 0 .. MaxMishaps

\* A removal that is COMPLETED has cancelled every contract of its list,
\* through retries that go on from the saved progress, two approvals of one
\* batch and contracts cancelled or deleted elsewhere meanwhile.  A file
\* checked again because its worker died is excepted: the new list is
\* shorter by what was cancelled, and the progress still counts it.
CompletedIsCancelled ==
    \A b \in Removals :
       (removal[b].status = "COMPLETED" /\ ~removal[b].reread)
         => \A n \in DOMAIN removal[b].list : removal[b].list[n] \in struck[b]

=============================================================================
