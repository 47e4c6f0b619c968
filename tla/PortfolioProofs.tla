-------------------------- MODULE PortfolioProofs --------------------------
(***************************************************************************)
(* Theorems about the modules around the contract book, for any rows,      *)
(* files, requests and failures, one part per module:                      *)
(*   - ImportBatches: a debt has one contract, the counters of an applied  *)
(*     batch add up, and its lines are in the book.  ImportInv says what   *)
(*     a job owes to the line it is at, and which batch is still owed its  *)
(*     counters;                                                           *)
(*   - CreditorRemoval: a completed removal has cancelled its list.        *)
(*     RemovalInv tells the first check of a file, which no job has seen,  *)
(*     from one that is repeated, and what the saved progress promises;    *)
(*   - CommercialRules: an offer keeps under its own maximum;              *)
(*   - AgreementEvents: a payment is booked once, and the count of paid    *)
(*     installments is one that Serasa reported.  The second is not        *)
(*     inductive: a web-hook writes a count it worked out from a copy of   *)
(*     the contract, so CountInv says of the copies what it says of the    *)
(*     contract.  The payments keep the promise of PaymentLedger.          *)
(* Each is typed besides, and all of them are as MCPortfolio plays them.   *)
(***************************************************************************)
EXTENDS MCPortfolio, CollectionTheorems

(***************************************************************************)
(* Types of the book.                                                      *)
(***************************************************************************)

\* A request holds rows, and values that fit a row.
ClerkTyped(k) ==
    /\ k.at = "upsert" => /\ k.wallet \in Wallets /\ k.debt \in Debts /\ k.terms \in Terms
                          /\ DOMAIN k.seen \subseteq Rows
    /\ k.at \in {"patch", "recalc", "delete", "cancel"} => k.row \in Rows
    /\ k.at = "patch" => /\ k.body.want \in ContractRow
                         /\ k.body.field \in {"status", "wallet", "terms", "debt"}
    /\ k.at = "recalc" => k.offer \in Offers

BookTyped ==
    /\ book \in [Rows -> ContractRow]
    /\ DOMAIN clerk = Clerks /\ \A c \in Clerks : ClerkTyped(clerk[c])
    /\ served \in 0 .. MaxClerical

LEMMA OfferTyped ==
    ASSUME NEW wallet \in Wallets, NEW terms \in Terms PROVE Offer(wallet, terms) \in Offers
  BY DEF Offer, Offers

LEMMA NewRowTyped ==
    ASSUME NEW wallet \in Wallets, NEW debt \in Debts, NEW terms \in Terms
    PROVE  NewRow(wallet, debt, terms) \in ContractRow
  BY OfferTyped DEF NewRow, ContractRow, Kept, Statuses, Transitions

LEMMA NoContractTyped == NoContract \in ContractRow
<1>1. PICK w \in Wallets : w = CHOOSE x \in Wallets : TRUE
  BY BookAssumption
<1>2. PICK d \in Debts : d = CHOOSE x \in Debts : TRUE
  BY BookAssumption
<1>3. PICK t \in Terms : t = CHOOSE x \in Terms : TRUE
  BY BookAssumption
<1>4. NoContract = [kept |-> "NONE", wallet |-> w, debt |-> d, key |-> d,
                    status |-> "ACTIVE", paid |-> FALSE, listed |-> FALSE,
                    terms |-> t, offer |-> Offer(w, t), debts |-> {}]
  BY <1>1, <1>2, <1>3 DEF NoContract
<1> QED
  BY <1>4, OfferTyped DEF ContractRow, Kept, Statuses, Transitions

\* A row of which some columns are written is a row.
LEMMA RowTyped ==
    ASSUME NEW row \in ContractRow
    PROVE  /\ \A s \in Statuses : [row EXCEPT !.status = s] \in ContractRow
           /\ \A w \in Wallets : [row EXCEPT !.wallet = w] \in ContractRow
           /\ \A t \in Terms : [row EXCEPT !.terms = t] \in ContractRow
           /\ \A d \in Debts : [row EXCEPT !.debt = d] \in ContractRow
           /\ \A o \in Offers : [row EXCEPT !.offer = o] \in ContractRow
           /\ \A k \in Kept : [row EXCEPT !.kept = k] \in ContractRow
           /\ [row EXCEPT !.paid = TRUE] \in ContractRow
           /\ \A w \in Wallets, o \in Offers :
                 [row EXCEPT !.wallet = w, !.offer = o] \in ContractRow
           /\ \A t \in Terms, o \in Offers :
                 [row EXCEPT !.terms = t, !.offer = o] \in ContractRow
           /\ \A d \in Debts, o \in Offers :
                 [row EXCEPT !.debt = d, !.offer = o, !.debts = row.debts \cup {d}]
                    \in ContractRow
           /\ \A t \in Terms, d \in Debts, o \in Offers :
                 [row EXCEPT !.terms = t, !.debt = d, !.debts = row.debts \cup {d}, !.offer = o]
                    \in ContractRow
           /\ \A w \in Wallets, t \in Terms, d \in Debts, o \in Offers :
                 [row EXCEPT !.wallet = w, !.terms = t, !.offer = o, !.debt = d, !.key = d,
                             !.debts = row.debts \cup {d}] \in ContractRow
           /\ row.offer \in Offers /\ row.wallet \in Wallets /\ row.terms \in Terms
           /\ row.debt \in Debts /\ row.status \in Statuses
  BY DEF ContractRow

\* One row is written, or created.
LEMMA BookSet ==
    ASSUME BookTyped, NEW r \in Rows, NEW x \in ContractRow, book' = [book EXCEPT ![r] = x]
    PROVE  book' \in [Rows -> ContractRow]
  BY DEF BookTyped

LEMMA CreateTyped ==
    ASSUME BookTyped, NEW wallet \in Wallets, NEW debt \in Debts, NEW terms \in Terms,
           Create(wallet, debt, terms)
    PROVE  book' \in [Rows -> ContractRow]
  BY NewRowTyped DEF Create, BookTyped

LEMMA LeaveTyped ==
    ASSUME BookTyped, NEW c \in Clerks, Leave(c), book' \in [Rows -> ContractRow]
    PROVE  BookTyped'
  BY DEF BookTyped, Leave, ClerkTyped, Idle

LEMMA BeginTyped ==
    ASSUME BookTyped, NEW c \in Clerks, NEW k, ClerkTyped(k), Begin(c, k)
    PROVE  BookTyped'
<1>1. served' \in 0 .. MaxClerical
  BY BookAssumption DEF BookTyped, Begin
<1> QED
  BY <1>1 DEF BookTyped, Begin

LEMMA StatusesAre == Statuses = {"ACTIVE", "SUSPENDED", "CANCELLED"}
  BY DEF Statuses, Transitions

LEMMA BodiesTyped ==
    ASSUME NEW row \in ContractRow, NEW body \in Bodies(row)
    PROVE  /\ body.want \in ContractRow
           /\ body.field \in {"status", "wallet", "terms", "debt"}
<1>1. \A s \in Transitions[row.status] : s \in Statuses
  <2>1. row.status \in {"ACTIVE", "SUSPENDED", "CANCELLED"}
    BY RowTyped, StatusesAre
  <2>2. /\ Transitions["ACTIVE"] \subseteq Statuses
        /\ Transitions["SUSPENDED"] \subseteq Statuses
        /\ Transitions["CANCELLED"] \subseteq Statuses
    BY StatusesAre DEF Transitions
  <2> QED
    BY <2>1, <2>2
<1>2. CASE \E s \in Transitions[row.status] :
              body = [field |-> "status", want |-> [row EXCEPT !.status = s]]
  <2>1. PICK s \in Transitions[row.status] : body = [field |-> "status", want |-> [row EXCEPT !.status = s]]
    BY <1>2
  <2>2. [row EXCEPT !.status = s] \in ContractRow
    BY <1>1, RowTyped
  <2> QED
    BY <2>1, <2>2
<1>3. CASE \E w \in Wallets : body = [field |-> "wallet", want |-> [row EXCEPT !.wallet = w]]
  <2>1. PICK w \in Wallets : body = [field |-> "wallet", want |-> [row EXCEPT !.wallet = w]]
    BY <1>3
  <2>2. [row EXCEPT !.wallet = w] \in ContractRow
    BY RowTyped
  <2> QED
    BY <2>1, <2>2
<1>4. CASE \E t \in Terms : body = [field |-> "terms", want |-> [row EXCEPT !.terms = t]]
  <2>1. PICK t \in Terms : body = [field |-> "terms", want |-> [row EXCEPT !.terms = t]]
    BY <1>4
  <2>2. [row EXCEPT !.terms = t] \in ContractRow
    BY RowTyped
  <2> QED
    BY <2>1, <2>2
<1>5. CASE \E d \in Debts : body = [field |-> "debt", want |-> [row EXCEPT !.debt = d]]
  <2>1. PICK d \in Debts : body = [field |-> "debt", want |-> [row EXCEPT !.debt = d]]
    BY <1>5
  <2>2. [row EXCEPT !.debt = d] \in ContractRow
    BY RowTyped
  <2> QED
    BY <2>1, <2>2
<1> QED
  BY <1>2, <1>3, <1>4, <1>5, Zenon DEF Bodies

LEMMA PatchedTyped ==
    ASSUME NEW row \in ContractRow, NEW body, body.want \in ContractRow,
           body.field \in {"status", "wallet", "terms", "debt"}
    PROVE  Patched(row, body) \in ContractRow
<1>1. PICK o \in Offers : o = IF body.want.paid THEN row.offer
                              ELSE Offer(body.want.wallet, body.want.terms)
  <2>1. body.want.wallet \in Wallets /\ body.want.terms \in Terms /\ row.offer \in Offers
    BY RowTyped
  <2> QED
    BY <2>1, OfferTyped
<1>2. PICK w \in Wallets, t \in Terms, d \in Debts, s \in Statuses :
        w = body.want.wallet /\ t = body.want.terms /\ d = body.want.debt
        /\ s = body.want.status
  BY RowTyped
<1>3. PICK x : x = Patched(row, body)
  OBVIOUS
<1>4. \/ x = [row EXCEPT !.status = s]
      \/ x = [row EXCEPT !.wallet = w, !.offer = o]
      \/ x = [row EXCEPT !.terms = t, !.offer = o]
      \/ x = [row EXCEPT !.debt = d, !.offer = o, !.debts = row.debts \cup {d}]
  BY <1>1, <1>2, <1>3 DEF Patched
<1>5. /\ [row EXCEPT !.status = s] \in ContractRow
      /\ [row EXCEPT !.wallet = w, !.offer = o] \in ContractRow
      /\ [row EXCEPT !.terms = t, !.offer = o] \in ContractRow
      /\ [row EXCEPT !.debt = d, !.offer = o, !.debts = row.debts \cup {d}] \in ContractRow
  BY RowTyped
<1> QED
  BY <1>3, <1>4, <1>5

\* The steps of the desk keep the types.
LEMMA ReadsTyped ==
    ASSUME BookTyped, NEW c \in Clerks,
           UpsertRead(c) \/ PatchRead(c) \/ RecalcRead(c) \/ DeleteRead(c) \/ CancelRead(c)
    PROVE  BookTyped'
<1>0. \A r \in Rows : book[r] \in ContractRow
  BY DEF BookTyped
<1>1. CASE UpsertRead(c)
  <2>1. PICK w \in Wallets, d \in Debts \ Misdigit, t \in Terms :
          Begin(c, [at |-> "upsert", wallet |-> w, debt |-> d, terms |-> t,
                    seen |-> [r \in Matching(d) |-> book[r].paid]])
    BY <1>1 DEF UpsertRead
  <2>2. ClerkTyped([at |-> "upsert", wallet |-> w, debt |-> d, terms |-> t,
                    seen |-> [r \in Matching(d) |-> book[r].paid]])
    BY DEF ClerkTyped, Matching
  <2> QED
    BY <2>1, <2>2, BeginTyped
<1>2. CASE PatchRead(c)
  <2>1. PICK r \in Rows : \E body \in Bodies(book[r]) :
                             Begin(c, [at |-> "patch", row |-> r, body |-> body])
    BY <1>2 DEF PatchRead
  <2>2. PICK body \in Bodies(book[r]) : Begin(c, [at |-> "patch", row |-> r, body |-> body])
    BY <2>1
  <2>3. ClerkTyped([at |-> "patch", row |-> r, body |-> body])
    BY <1>0, BodiesTyped DEF ClerkTyped
  <2> QED
    BY <2>2, <2>3, BeginTyped
<1>3. CASE RecalcRead(c)
  <2>0. PICK r \in Rows : Begin(c, [at |-> "recalc", row |-> r,
                                    offer |-> Offer(book[r].wallet, book[r].terms)])
    BY <1>3 DEF RecalcRead
  <2>1. PICK k : Begin(c, k) /\ k = [at |-> "recalc", row |-> r,
                                     offer |-> Offer(book[r].wallet, book[r].terms)]
    BY <2>0
  <2>2. k.offer \in Offers
    BY <1>0, <2>1, RowTyped, OfferTyped
  <2>3. ClerkTyped(k)
    BY <2>1, <2>2 DEF ClerkTyped
  <2> QED
    BY <2>1, <2>3, BeginTyped
<1>4. CASE DeleteRead(c) \/ CancelRead(c)
  <2>1. PICK r \in Rows : \/ Begin(c, [at |-> "delete", row |-> r])
                         \/ Begin(c, [at |-> "cancel", row |-> r])
    BY <1>4 DEF DeleteRead, CancelRead
  <2>2. /\ ClerkTyped([at |-> "delete", row |-> r])
        /\ ClerkTyped([at |-> "cancel", row |-> r])
    BY DEF ClerkTyped
  <2> QED
    BY <2>1, <2>2, BeginTyped
<1> QED
  BY <1>1, <1>2, <1>3, <1>4

LEMMA WritesTyped ==
    ASSUME BookTyped, NEW c \in Clerks,
           \/ UpsertWrite(c) \/ UpsertCreate(c) \/ PatchWrite(c) \/ RecalcWrite(c)
           \/ DeleteWrite(c) \/ CancelWrite(c)
    PROVE  BookTyped'
<1>0. /\ \A r \in Rows : book[r] \in ContractRow
      /\ ClerkTyped(clerk[c])
  BY DEF BookTyped
<1>1. Leave(c)
  BY DEF UpsertWrite, UpsertCreate, PatchWrite, RecalcWrite, DeleteWrite, CancelWrite
\* One row written.
<1>w. ASSUME NEW r \in Rows, NEW x \in ContractRow, book' = [book EXCEPT ![r] = x]
      PROVE  BookTyped'
  BY <1>1, <1>w, BookSet, LeaveTyped
<1>2. CASE UpsertWrite(c)
  <2>0. PICK r \in Rows :
          book' = [book EXCEPT ![r].terms = clerk[c].terms, ![r].debt = clerk[c].debt,
                               ![r].debts = book[r].debts \cup {clerk[c].debt},
                               ![r].offer = IF clerk[c].seen[r] THEN book[r].offer
                                            ELSE Offer(clerk[c].wallet, clerk[c].terms)]
    BY <1>0, <1>2 DEF UpsertWrite, ClerkTyped
  <2>1. PICK o :
          /\ book' = [book EXCEPT ![r].terms = clerk[c].terms, ![r].debt = clerk[c].debt,
                                  ![r].debts = book[r].debts \cup {clerk[c].debt},
                                  ![r].offer = o]
          /\ o = IF clerk[c].seen[r] THEN book[r].offer
                 ELSE Offer(clerk[c].wallet, clerk[c].terms)
    BY <2>0
  <2>2. /\ clerk[c].wallet \in Wallets /\ clerk[c].debt \in Debts /\ clerk[c].terms \in Terms
        /\ book[r].offer \in Offers
    BY <1>0, <1>2, RowTyped DEF UpsertWrite, ClerkTyped
  <2>3. o \in Offers
    BY <2>1, <2>2, OfferTyped
  <2>4. PICK x : x = [book[r] EXCEPT !.terms = clerk[c].terms, !.debt = clerk[c].debt,
                                     !.debts = book[r].debts \cup {clerk[c].debt},
                                     !.offer = o]
    OBVIOUS
  <2>5. x \in ContractRow
    BY <1>0, <2>2, <2>3, <2>4, RowTyped
  <2>6. book' = [book EXCEPT ![r] = x]
    BY <2>1, <2>4 DEF BookTyped, ContractRow
  <2> QED
    BY <2>5, <2>6, <1>w
<1>3. CASE UpsertCreate(c)
  <2>1. clerk[c].wallet \in Wallets /\ clerk[c].debt \in Debts /\ clerk[c].terms \in Terms
    BY <1>0, <1>3 DEF UpsertCreate, ClerkTyped
  <2>2. book' \in [Rows -> ContractRow]
    BY <1>3, <2>1, CreateTyped DEF UpsertCreate, BookTyped
  <2> QED
    BY <1>1, <2>2, LeaveTyped
<1>4. CASE PatchWrite(c)
  <2>1. clerk[c].row \in Rows /\ Patched(book[clerk[c].row], clerk[c].body) \in ContractRow
    BY <1>0, <1>4, PatchedTyped DEF PatchWrite, ClerkTyped
  <2> QED
    BY <1>4, <2>1, <1>w DEF PatchWrite
<1>5. CASE RecalcWrite(c) \/ DeleteWrite(c) \/ CancelWrite(c)
  <2>1. PICK r \in Rows : r = clerk[c].row
    BY <1>0, <1>5 DEF RecalcWrite, DeleteWrite, CancelWrite, ClerkTyped
  <2>2. \E x \in ContractRow : book' = [book EXCEPT ![r] = x]
    <3>1. CASE RecalcWrite(c)
      <4>1. PICK x : x = [book[r] EXCEPT !.offer = clerk[c].offer]
        OBVIOUS
      <4>2. x \in ContractRow /\ book' = [book EXCEPT ![r] = x]
        BY <1>0, <2>1, <3>1, <4>1, RowTyped DEF RecalcWrite, ClerkTyped
      <4> QED
        BY <4>2
    <3>2. CASE DeleteWrite(c)
      <4>1. PICK x : x = [book[r] EXCEPT !.kept = "DELETED"]
        OBVIOUS
      <4>2. x \in ContractRow /\ book' = [book EXCEPT ![r] = x]
        BY <1>0, <2>1, <3>2, <4>1, RowTyped DEF DeleteWrite, Kept
      <4> QED
        BY <4>2
    <3>3. CASE CancelWrite(c)
      <4>1. PICK x : x = [book[r] EXCEPT !.status = "CANCELLED"]
        OBVIOUS
      <4>2. x \in ContractRow /\ book' = [book EXCEPT ![r] = x]
        BY <1>0, <2>1, <3>3, <4>1, RowTyped DEF CancelWrite, Statuses, Transitions
      <4> QED
        BY <4>2
    <3> QED
      BY <1>5, <3>1, <3>2, <3>3
  <2> QED
    BY <2>2, <1>w
<1> QED
  BY <1>2, <1>3, <1>4, <1>5

LEMMA DeskTyped == ASSUME BookTyped, Desk PROVE BookTyped'
<1>0. \A r \in Rows : book[r] \in ContractRow
  BY DEF BookTyped
<1>1. CASE \E c \in Clerks : BulkTransfer(c)
  <2>1. PICK c \in Clerks : BulkTransfer(c)
    BY <1>1
  <2>2. served' \in 0 .. MaxClerical
    BY <2>1, BookAssumption DEF BulkTransfer, BookTyped
  <2>3. PICK target \in Wallets :
          \A r \in Rows : book'[r] \in {book[r], [book[r] EXCEPT !.wallet = target]}
    BY <2>1 DEF BulkTransfer
  <2>4. book' = [r \in Rows |-> book'[r]]
    BY <2>1 DEF BulkTransfer
  <2>5. ASSUME NEW r \in Rows PROVE book'[r] \in ContractRow
    <3>1. [book[r] EXCEPT !.wallet = target] \in ContractRow
      BY <1>0, RowTyped
    <3> QED
      BY <1>0, <2>3, <3>1
  <2> QED
    BY <2>1, <2>2, <2>4, <2>5 DEF BulkTransfer, BookTyped
<1>2. CASE \E r \in Rows : Settle(r)
  <2>1. PICK r \in Rows : Settle(r)
    BY <1>2
  <2>2. PICK x : x = [book[r] EXCEPT !.paid = TRUE]
    OBVIOUS
  <2>3. x \in ContractRow /\ book' = [book EXCEPT ![r] = x]
    BY <1>0, <2>1, <2>2, RowTyped DEF Settle
  <2> QED
    BY <2>1, <2>3, BookSet DEF Settle, BookTyped
<1> QED
  BY <1>1, <1>2, ReadsTyped, WritesTyped DEF Desk

-----------------------------------------------------------------------------
(***************************************************************************)
(* Imports.  The book: a row that is in use carries its debt among those   *)
(* it has had, and no two rows share a key.                                *)
(***************************************************************************)

Columns == {"kept", "wallet", "debt", "key", "status", "paid", "listed", "terms", "offer",
            "debts"}
RowFits(row) ==
    /\ DOMAIN row = Columns
    /\ row.kept = "NONE" => row.debts = {}
    /\ row.kept # "NONE" => row.debt \in row.debts

InUse(r) == r \in Rows /\ ~Blank(r)

\* No row goes out of use or forgets a debt.
Grows == \A r \in Rows : /\ ~Blank(r) => ~Blank(r)'
                         /\ book[r].debts \subseteq book'[r].debts

\* A request holds rows that were in use when it read them.
ClerkFits(k) ==
    /\ k.at = "upsert" => \A r \in DOMAIN k.seen : InUse(r)
    /\ k.at \in {"patch", "recalc", "delete", "cancel"} => InUse(k.row)
    /\ k.at = "patch" => k.body.field \in {"status", "wallet", "terms", "debt"}

UniqueKeys == \A q \in Rows, r \in Rows :
    (q # r /\ ~Blank(q) /\ ~Blank(r)) => book[q].key # book[r].key

BookInv == /\ DOMAIN book = Rows /\ DOMAIN clerk = Clerks
           /\ \A r \in Rows : RowFits(book[r])
           /\ \A c \in Clerks : ClerkFits(clerk[c])
           /\ UniqueKeys

\* A line of a batch is in the book: a row is, or was, its debt.
Landed(debt) == \E r \in Rows : debt \in book[r].debts
AllLanded(b) == \A n \in 1 .. Len(ToApply(b)) : Landed(ToApply(b)[n].debt)

Stored(b) == b \in Batches /\ batch[b] # NoBatch
Sum(n) == n.created + n.updated + n.ignored

Applying == {"look", "create", "merge", "save", "reprice"}
\* A job that will still write the counters, or never does.
Owing == {"queued", "look", "create", "merge", "save", "lost"}

JobFields == {"at", "batch", "tries", "stalls", "next", "counts", "seen", "row"}
CountsFit(n) == /\ DOMAIN n = {"created", "updated", "ignored"}
                /\ n.created \in Nat /\ n.updated \in Nat /\ n.ignored \in Nat

\* The lines before the one a job is at are counted and in the book.
LinesFit(k, lines) ==
    /\ k.at \in {"look", "create", "merge"} => Sum(k.counts) + 1 = k.next
    /\ k.at = "save" => Sum(k.counts) = k.next
    /\ k.at = "look" => k.next <= Len(lines) + 1
    /\ k.at \in {"create", "merge", "save"} => k.next <= Len(lines)
    /\ \A n \in 1 .. Len(lines) :
          (n < k.next \/ (n = k.next /\ k.at = "save") \/ k.at = "reprice")
            => Landed(lines[n].debt)
    /\ k.at = "merge" => \A r \in k.row : InUse(r) /\ lines[k.next].debt \in book[r].debts

ApplyFits(k) ==
    /\ k.at \in {"none", "queued", "done", "lost"} \cup Applying
    /\ k.at = "none" => k = NoJob
    /\ k.at # "none" => Stored(k.batch)
    /\ k.at \in {"queued"} \cup Applying => k.tries \in Nat
    /\ k.at \in Applying =>
         /\ DOMAIN k = JobFields
         /\ k.next \in Nat \ {0} /\ CountsFit(k.counts)
         /\ LinesFit(k, ToApply(k.batch))

ManagerFits(k) == k # Idle => DOMAIN k = {"at", "batch"} /\ Stored(k.batch)

BatchFields == {"status", "file", "wallet", "valid", "invalid", "counts"}
ImportFits(b) ==
    /\ batch[b] # NoBatch => DOMAIN batch[b] = BatchFields /\ batch[b].status # "NONE"
    /\ batch[b] = NoBatch => check[b] = NoCheck
    /\ batch[b].status = "APPLIED" =>
         /\ AllLanded(b)
         /\ \/ Sum(batch[b].counts) = Len(ToApply(b))
            \/ \E j \in Jobs : job[j].at \in Owing /\ job[j].batch = b

ImportInv ==
    /\ BookInv
    /\ DOMAIN batch = Batches /\ DOMAIN check = Batches /\ DOMAIN job = Jobs
    /\ DOMAIN manager = Managers
    /\ \A b \in Batches : ImportFits(b)
    /\ \A j \in Jobs : ApplyFits(job[j])
    /\ \A m \in Managers : ManagerFits(manager[m])

-----------------------------------------------------------------------------
(* The book.                                                               *)

LEMMA ClerkStays ==
    ASSUME NEW k, ClerkFits(k), Grows
    PROVE  ClerkFits(k)'
  BY DEF ClerkFits, Grows, InUse

\* One row is written.
LEMMA RowWritten ==
    ASSUME BookInv, NEW r \in Rows, NEW x, RowFits(x), x.kept # "NONE",
           book[r].debts \subseteq x.debts,
           \/ ~Blank(r) /\ x.key = book[r].key
           \/ ~KeyTakenByOther(x.key, r),
           book' = [book EXCEPT ![r] = x],
           DOMAIN clerk' = Clerks,
           \A c \in Clerks : clerk'[c] = clerk[c] \/ clerk'[c] = Idle
    PROVE  BookInv' /\ Grows
<1>1. /\ book'[r] = x /\ DOMAIN book' = Rows
      /\ \A q \in Rows \ {r} : book'[q] = book[q]
  BY DEF BookInv
<1>2. Grows
  BY <1>1 DEF Grows, Blank
<1>3. \A q \in Rows : RowFits(book'[q])
  BY <1>1 DEF BookInv
<1>4. UniqueKeys'
  BY <1>1 DEF BookInv, UniqueKeys, Blank, KeyTakenByOther
<1>5. ASSUME NEW c \in Clerks PROVE ClerkFits(clerk[c])'
  <2>1. PICK k : k = clerk'[c] /\ ClerkFits(k)
    BY DEF BookInv, ClerkFits, Idle
  <2>2. ClerkFits(k)'
    BY <1>2, <2>1, ClerkStays
  <2> QED
    BY <2>1, <2>2 DEF ClerkFits
<1> QED
  BY <1>1, <1>2, <1>3, <1>4, <1>5 DEF BookInv

\* Many rows are written, but not what they are known by.
LEMMA RowsWritten ==
    ASSUME BookInv, DOMAIN book' = Rows,
           \A r \in Rows : /\ RowFits(book'[r]) /\ book'[r].kept = book[r].kept
                           /\ book'[r].key = book[r].key /\ book'[r].debts = book[r].debts,
           UNCHANGED clerk
    PROVE  BookInv' /\ Grows
<1>1. Grows
  BY DEF Grows, Blank
<1>2. UniqueKeys'
  BY DEF BookInv, UniqueKeys, Blank
<1>3. ASSUME NEW c \in Clerks PROVE ClerkFits(clerk[c])'
  <2>1. PICK k : k = clerk[c] /\ ClerkFits(k)
    BY DEF BookInv
  <2>2. ClerkFits(k)'
    BY <1>1, <2>1, ClerkStays
  <2> QED
    BY <2>1, <2>2 DEF ClerkFits
<1> QED
  BY <1>1, <1>2, <1>3 DEF BookInv

\* A request begins, or ends without writing.
LEMMA ClerkMoves ==
    ASSUME BookInv, UNCHANGED book, NEW c \in Clerks, NEW k, ClerkFits(k),
           clerk' = [clerk EXCEPT ![c] = k]
    PROVE  BookInv' /\ Grows
<1>1. \A i \in Clerks : ClerkFits(clerk'[i])
  BY DEF BookInv
<1>2. Grows
  BY DEF Grows, Blank
<1>3. ASSUME NEW i \in Clerks PROVE ClerkFits(clerk[i])'
  <2>1. PICK l : l = clerk'[i] /\ ClerkFits(l)
    BY <1>1
  <2>2. ClerkFits(l)'
    BY <1>2, <2>1, ClerkStays
  <2> QED
    BY <2>1, <2>2 DEF ClerkFits
<1> QED
  BY <1>2, <1>3 DEF BookInv, UniqueKeys, Blank

\* A request leaves.
LEMMA ClerkLeaves ==
    ASSUME BookInv, NEW c \in Clerks, Leave(c)
    PROVE  /\ DOMAIN clerk' = Clerks
           /\ \A i \in Clerks : clerk'[i] = clerk[i] \/ clerk'[i] = Idle
  BY DEF Leave, BookInv

\* A contract is created on a row that is not in use.
LEMMA Creates ==
    ASSUME BookInv, NEW wallet, NEW debt, NEW terms, ~KeyTaken(debt, wallet),
           Create(wallet, debt, terms),
           DOMAIN clerk' = Clerks,
           \A c \in Clerks : clerk'[c] = clerk[c] \/ clerk'[c] = Idle
    PROVE  BookInv' /\ Grows /\ \E r \in Rows : debt \in book'[r].debts
<1>1. PICK r \in Rows : Blank(r) /\ book' = [book EXCEPT ![r] = NewRow(wallet, debt, terms)]
  BY DEF Create
<1>2. PICK x : x = NewRow(wallet, debt, terms)
  OBVIOUS
<1>3. RowFits(x) /\ x.kept # "NONE" /\ x.key = debt /\ debt \in x.debts
  BY <1>2 DEF NewRow, RowFits, Columns
<1>4. book[r].debts \subseteq x.debts /\ ~KeyTakenByOther(x.key, r)
  BY <1>1, <1>3 DEF BookInv, RowFits, Blank, KeyTaken, KeyTakenByOther
<1>5. book' = [book EXCEPT ![r] = x]
  BY <1>1, <1>2
<1>6. BookInv' /\ Grows
  BY <1>3, <1>4, <1>5, RowWritten
<1>7. debt \in book'[r].debts
  BY <1>3, <1>5 DEF BookInv
<1> QED
  BY <1>6, <1>7

LEMMA Reading ==
    ASSUME BookInv, NEW c \in Clerks,
           UpsertRead(c) \/ PatchRead(c) \/ RecalcRead(c) \/ DeleteRead(c) \/ CancelRead(c)
    PROVE  BookInv' /\ Grows
<1>1. CASE UpsertRead(c)
  <2>1. PICK w \in Wallets, d \in Debts \ Misdigit, t \in Terms :
          Begin(c, [at |-> "upsert", wallet |-> w, debt |-> d, terms |-> t,
                    seen |-> [r \in Matching(d) |-> book[r].paid]])
    BY <1>1 DEF UpsertRead
  <2>2. \A r \in Matching(d) : InUse(r)
    BY DEF Matching, Live, InUse, Blank
  <2>3. ClerkFits([at |-> "upsert", wallet |-> w, debt |-> d, terms |-> t,
                   seen |-> [r \in Matching(d) |-> book[r].paid]])
    BY <2>2 DEF ClerkFits
  <2> QED
    BY <2>1, <2>3, ClerkMoves DEF Begin
<1>2. CASE PatchRead(c)
  <2>1. PICK r \in Rows : /\ Live(r)
                          /\ \E body \in Bodies(book[r]) :
                                Begin(c, [at |-> "patch", row |-> r, body |-> body])
    BY <1>2 DEF PatchRead
  <2>2. PICK body \in Bodies(book[r]) : Begin(c, [at |-> "patch", row |-> r, body |-> body])
    BY <2>1
  <2>3. body.field \in {"status", "wallet", "terms", "debt"}
    BY DEF Bodies
  <2>4. ClerkFits([at |-> "patch", row |-> r, body |-> body])
    BY <2>1, <2>3 DEF ClerkFits, InUse, Live, Blank
  <2> QED
    BY <2>2, <2>4, ClerkMoves DEF Begin
<1>3. CASE RecalcRead(c) \/ DeleteRead(c) \/ CancelRead(c)
  <2>1. ASSUME NEW r \in Rows, Live(r), NEW k, Begin(c, k), k.row = r,
               k.at \in {"recalc", "delete", "cancel"}
        PROVE  BookInv' /\ Grows
    <3>1. ClerkFits(k)
      BY <2>1 DEF ClerkFits, InUse, Live, Blank
    <3> QED
      BY <2>1, <3>1, ClerkMoves DEF Begin
  <2>2. CASE RecalcRead(c)
    <3>1. PICK r \in Rows :
            Live(r) /\ Begin(c, [at |-> "recalc", row |-> r,
                                offer |-> Offer(book[r].wallet, book[r].terms)])
      BY <2>2 DEF RecalcRead
    <3> QED
      BY <2>1, <3>1
  <2>3. CASE DeleteRead(c)
    <3>1. PICK r \in Rows : Live(r) /\ Begin(c, [at |-> "delete", row |-> r])
      BY <2>3 DEF DeleteRead
    <3> QED
      BY <2>1, <3>1
  <2>4. CASE CancelRead(c)
    <3>1. PICK r \in Rows : Live(r) /\ Begin(c, [at |-> "cancel", row |-> r])
      BY <2>4 DEF CancelRead
    <3> QED
      BY <2>1, <3>1
  <2> QED
    BY <1>3, <2>2, <2>3, <2>4
<1> QED
  BY <1>1, <1>2, <1>3

LEMMA Upserting ==
    ASSUME BookInv, NEW c \in Clerks, UpsertWrite(c) \/ UpsertCreate(c)
    PROVE  BookInv' /\ Grows
<1>1. CASE UpsertWrite(c)
  <2>1. PICK r \in DOMAIN clerk[c].seen :
          book' = [book EXCEPT ![r].terms = clerk[c].terms,
                               ![r].debt = clerk[c].debt,
                               ![r].debts = book[r].debts \cup {clerk[c].debt},
                               ![r].offer = IF clerk[c].seen[r] THEN book[r].offer
                                            ELSE Offer(clerk[c].wallet, clerk[c].terms)]
    BY <1>1 DEF UpsertWrite
  <2>2. r \in Rows /\ ~Blank(r) /\ RowFits(book[r])
    BY <1>1 DEF UpsertWrite, BookInv, ClerkFits, InUse
  <2>3. PICK o : o = (IF clerk[c].seen[r] THEN book[r].offer
                      ELSE Offer(clerk[c].wallet, clerk[c].terms))
    OBVIOUS
  <2>4. PICK x : x = [book[r] EXCEPT !.terms = clerk[c].terms, !.debt = clerk[c].debt,
                                     !.debts = book[r].debts \cup {clerk[c].debt},
                                     !.offer = o]
    OBVIOUS
  <2>5. book' = [book EXCEPT ![r] = x]
    BY <2>1, <2>2, <2>3, <2>4 DEF BookInv, RowFits, Columns
  <2>6. /\ RowFits(x) /\ x.kept # "NONE" /\ x.key = book[r].key
        /\ book[r].debts \subseteq x.debts
    BY <2>2, <2>4 DEF RowFits, Columns, Blank
  <2>7. Leave(c)
    BY <1>1 DEF UpsertWrite
  <2> QED
    BY <2>2, <2>5, <2>6, <2>7, ClerkLeaves, RowWritten
<1>2. CASE UpsertCreate(c)
  <2>1. Leave(c)
    BY <1>2 DEF UpsertCreate
  <2>2. CASE KeyTaken(clerk[c].debt, clerk[c].wallet)
    <3>1. ClerkFits(Idle)
      BY DEF ClerkFits, Idle
    <3> QED
      BY <1>2, <2>2, <3>1, ClerkMoves DEF UpsertCreate, Leave
  <2>3. CASE ~KeyTaken(clerk[c].debt, clerk[c].wallet)
    BY <1>2, <2>1, <2>3, ClerkLeaves, Creates DEF UpsertCreate
  <2> QED
    BY <2>2, <2>3
<1> QED
  BY <1>1, <1>2

LEMMA PatchFits ==
    ASSUME NEW row, RowFits(row), row.kept # "NONE", NEW body,
           body.field \in {"status", "wallet", "terms", "debt"}
    PROVE  /\ RowFits(Patched(row, body)) /\ Patched(row, body).kept # "NONE"
           /\ Patched(row, body).key = row.key /\ row.debts \subseteq Patched(row, body).debts
<1>1. PICK x : x = Patched(row, body)
  OBVIOUS
<1>2. PICK o : o = (IF body.want.paid THEN row.offer
                    ELSE Offer(body.want.wallet, body.want.terms))
  OBVIOUS
<1>3. \/ x = [row EXCEPT !.status = body.want.status]
      \/ x = [row EXCEPT !.wallet = body.want.wallet, !.offer = o]
      \/ x = [row EXCEPT !.terms = body.want.terms, !.offer = o]
      \/ x = [row EXCEPT !.debt = body.want.debt, !.offer = o,
                         !.debts = row.debts \cup {body.want.debt}]
  BY <1>1, <1>2 DEF Patched
<1> QED
  BY <1>1, <1>3, ZenonT(60) DEF RowFits, Columns

LEMMA Writing ==
    ASSUME BookInv, NEW c \in Clerks,
           PatchWrite(c) \/ RecalcWrite(c) \/ DeleteWrite(c) \/ CancelWrite(c)
    PROVE  BookInv' /\ Grows
<1>1. PICK r : r = clerk[c].row
  OBVIOUS
<1>2. r \in Rows /\ ~Blank(r) /\ RowFits(book[r]) /\ Leave(c) /\ book[r].kept # "NONE"
  BY <1>1 DEF PatchWrite, RecalcWrite, DeleteWrite, CancelWrite, BookInv, ClerkFits, InUse, Blank
<1>3. ASSUME NEW x, book' = [book EXCEPT ![r] = x], RowFits(x), x.kept # "NONE",
             x.key = book[r].key, book[r].debts \subseteq x.debts
      PROVE  BookInv' /\ Grows
  BY <1>2, <1>3, ClerkLeaves, RowWritten
<1>4. CASE PatchWrite(c)
  <2>1. PICK x : x = Patched(book[r], clerk[c].body)
    OBVIOUS
  <2>2. book' = [book EXCEPT ![r] = x]
    BY <1>1, <1>4, <2>1 DEF PatchWrite
  <2>3. clerk[c].body.field \in {"status", "wallet", "terms", "debt"}
    BY <1>4 DEF PatchWrite, BookInv, ClerkFits
  <2>4. /\ RowFits(x) /\ x.kept # "NONE" /\ x.key = book[r].key
        /\ book[r].debts \subseteq x.debts
    BY <1>2, <2>1, <2>3, PatchFits
  <2> QED
    BY <1>3, <2>2, <2>4
<1>5. CASE RecalcWrite(c) \/ DeleteWrite(c) \/ CancelWrite(c)
  <2>1. PICK x : /\ \/ x = [book[r] EXCEPT !.offer = clerk[c].offer]
                    \/ x = [book[r] EXCEPT !.kept = "DELETED"]
                    \/ x = [book[r] EXCEPT !.status = "CANCELLED"]
                 /\ book' = [book EXCEPT ![r] = x]
    <3>1. CASE RecalcWrite(c)
      <4>1. book' = [book EXCEPT ![r] = [book[r] EXCEPT !.offer = clerk[c].offer]]
        BY <1>1, <1>2, <3>1 DEF RecalcWrite, BookInv
      <4> QED
        BY <4>1
    <3>2. CASE DeleteWrite(c)
      <4>1. book' = [book EXCEPT ![r] = [book[r] EXCEPT !.kept = "DELETED"]]
        BY <1>1, <1>2, <3>2 DEF DeleteWrite, BookInv
      <4> QED
        BY <4>1
    <3>3. CASE CancelWrite(c)
      <4>1. book' = [book EXCEPT ![r] = [book[r] EXCEPT !.status = "CANCELLED"]]
        BY <1>1, <1>2, <3>3 DEF CancelWrite, BookInv
      <4> QED
        BY <4>1
    <3> QED
      BY <1>5, <3>1, <3>2, <3>3
  <2>2. /\ RowFits(x) /\ x.kept # "NONE" /\ x.key = book[r].key
        /\ book[r].debts \subseteq x.debts
    BY <1>2, <2>1 DEF RowFits, Columns
  <2> QED
    BY <1>3, <2>1, <2>2
<1> QED
  BY <1>4, <1>5

LEMMA DeskStep ==
    ASSUME BookInv, Desk
    PROVE  BookInv' /\ Grows
<1>1. ASSUME NEW c \in Clerks, BulkTransfer(c) PROVE BookInv' /\ Grows
  <2>1. PICK source \in Wallets, target \in Wallets :
          book' = [r \in Rows |->
                     IF Live(r) /\ book[r].wallet = source /\ ~book[r].listed
                     THEN [book[r] EXCEPT !.wallet = target] ELSE book[r]]
    BY <1>1 DEF BulkTransfer
  <2>2. ASSUME NEW r \in Rows
        PROVE  /\ RowFits(book'[r]) /\ book'[r].kept = book[r].kept
               /\ book'[r].key = book[r].key /\ book'[r].debts = book[r].debts
    <3>1. RowFits(book[r])
      BY DEF BookInv
    <3> QED
      BY <2>1, <3>1 DEF RowFits, Columns
  <2> QED
    BY <1>1, <2>1, <2>2, RowsWritten DEF BulkTransfer
<1>2. ASSUME NEW r \in Rows, Settle(r) PROVE BookInv' /\ Grows
  <2>1. PICK x : x = [book[r] EXCEPT !.paid = TRUE]
    OBVIOUS
  <2>2. book' = [book EXCEPT ![r] = x] /\ RowFits(book[r]) /\ ~Blank(r)
    BY <1>2, <2>1 DEF Settle, BookInv, Live, Blank
  <2>3. /\ RowFits(x) /\ x.kept # "NONE" /\ x.key = book[r].key
        /\ book[r].debts \subseteq x.debts
    BY <2>1, <2>2 DEF RowFits, Columns, Blank
  <2>4. DOMAIN clerk' = Clerks /\ \A i \in Clerks : clerk'[i] = clerk[i]
    BY <1>2 DEF Settle, BookInv
  <2> QED
    BY <2>2, <2>3, <2>4, RowWritten
<1> QED
  BY <1>1, <1>2, Reading, Upserting, Writing DEF Desk

-----------------------------------------------------------------------------
(* What a job relies on stays as it is.                                    *)

FilesStay == \A b \in Batches :
    batch[b] # NoBatch => batch'[b] # NoBatch /\ batch'[b].file = batch[b].file

LEMMA BookStays ==
    ASSUME BookInv, UNCHANGED <<book, clerk>>
    PROVE  BookInv' /\ Grows
<1>1. ASSUME NEW c \in Clerks PROVE ClerkFits(clerk[c])'
  BY DEF BookInv, ClerkFits, InUse, Blank
<1> QED
  BY <1>1 DEF BookInv, UniqueKeys, Grows, Blank

LEMMA LandedStays == ASSUME Grows, NEW debt, Landed(debt) PROVE Landed(debt)'
  BY DEF Grows, Landed

LEMMA JobStays ==
    ASSUME Grows, FilesStay, NEW k, ApplyFits(k)
    PROVE  ApplyFits(k)'
<1>1. ASSUME NEW b, Stored(b) PROVE Stored(b)' /\ ToApply(b)' = ToApply(b)
  BY <1>1 DEF Stored, FilesStay, ToApply
<1>2. ASSUME NEW lines, LinesFit(k, lines) PROVE LinesFit(k, lines)'
  <2>1. \A r : InUse(r) => InUse(r)'
    BY DEF InUse, Grows
  <2>2. k.at = "merge" => \A r \in k.row : InUse(r)' /\ lines[k.next].debt \in book'[r].debts
    BY <1>2, <2>1 DEF LinesFit, InUse, Grows
  <2>3. \A n \in 1 .. Len(lines) : Landed(lines[n].debt) => Landed(lines[n].debt)'
    BY LandedStays
  <2> QED
    BY <1>2, <2>2, <2>3 DEF LinesFit
<1> QED
  BY <1>1, <1>2 DEF ApplyFits, Applying

LEMMA BatchStays ==
    ASSUME NEW b \in Batches, ImportFits(b), Grows, batch'[b] = batch[b], check'[b] = check[b],
           (\E j \in Jobs : job[j].at \in Owing /\ job[j].batch = b)
             => \E j \in Jobs : job'[j].at \in Owing /\ job'[j].batch = b
    PROVE  ImportFits(b)'
<1>1. ToApply(b)' = ToApply(b)
  BY DEF ToApply
<1>2. AllLanded(b) => AllLanded(b)'
  BY <1>1, LandedStays DEF AllLanded
<1> QED
  BY <1>1, <1>2 DEF ImportFits

\* A batch is written, but for its file, and never to APPLIED.
LEMMA BatchWrites ==
    ASSUME ImportInv, NEW b \in Batches, NEW l, DOMAIN l = BatchFields, l.status # "NONE",
           batch[b] # NoBatch => l.file = batch[b].file,
           l.status = "APPLIED" => batch[b].status = "APPLIED" /\ l.counts = batch[b].counts,
           batch' = [batch EXCEPT ![b] = l], UNCHANGED <<book, clerk, job>>,
           DOMAIN check' = Batches, \A c \in Batches \ {b} : check'[c] = check[c],
           DOMAIN manager' = Managers, \A m \in Managers : ManagerFits(manager'[m])
    PROVE  ImportInv'
<1>1. /\ DOMAIN batch' = Batches /\ batch'[b] = l /\ l # NoBatch
      /\ \A c \in Batches \ {b} : batch'[c] = batch[c]
  BY DEF ImportInv, NoBatch
<1>2. FilesStay
  BY <1>1 DEF FilesStay
<1>3. BookInv' /\ Grows
  BY BookStays DEF ImportInv
<1>4. ASSUME NEW c \in Batches PROVE ImportFits(c)'
  <2>1. CASE c = b
    <3>1. l.status = "APPLIED" => batch[b] # NoBatch /\ ToApply(b)' = ToApply(b)
      BY <1>1 DEF ToApply, NoBatch
    <3>2. l.status = "APPLIED" => AllLanded(b)'
      BY <3>1, <1>3, LandedStays DEF ImportInv, ImportFits, AllLanded
    <3> QED
      BY <1>1, <2>1, <3>1, <3>2 DEF ImportInv, ImportFits
  <2>2. CASE c # b
    BY <1>1, <1>3, <2>2, BatchStays DEF ImportInv
  <2> QED
    BY <2>1, <2>2
<1>5. ASSUME NEW j \in Jobs PROVE ApplyFits(job[j])'
  <2>1. PICK k : k = job[j] /\ ApplyFits(k)
    BY DEF ImportInv
  <2>2. ApplyFits(k)'
    BY <1>2, <1>3, <2>1, JobStays
  <2> QED
    BY <2>1, <2>2 DEF ApplyFits
<1>6. ASSUME NEW m \in Managers PROVE ManagerFits(manager[m])'
  BY <1>2 DEF ManagerFits, Stored, FilesStay
<1> QED
  BY <1>1, <1>3, <1>4, <1>5, <1>6 DEF ImportInv

\* A job moves, and may write its batch.
LEMMA JobMoves ==
    ASSUME ImportInv, BookInv', Grows, NEW j \in Jobs,
           NEW k, k.at # "none", ApplyFits(k)', k.batch \in Batches, batch[k.batch] # NoBatch,
           job[j] = NoJob \/ job[j].batch = k.batch,
           job' = [job EXCEPT ![j] = k],
           NEW l, DOMAIN l = BatchFields, l.status # "NONE", l.file = batch[k.batch].file,
           DOMAIN batch' = Batches, batch'[k.batch] = l,
           \A c \in Batches \ {k.batch} : batch'[c] = batch[c],
           l.status = "APPLIED" =>
              \/ AllLanded(k.batch) /\ Sum(l.counts) = Len(ToApply(k.batch))
              \/ batch[k.batch].status = "APPLIED" /\ k.at \in Owing
              \/ l = batch[k.batch] /\ job[j].at \notin Owing,
           UNCHANGED check,
           DOMAIN manager' = Managers, \A m \in Managers : ManagerFits(manager'[m])
    PROVE  ImportInv'
<1>1. /\ DOMAIN batch' = Batches /\ batch'[k.batch] = l /\ l # NoBatch
      /\ \A c \in Batches \ {k.batch} : batch'[c] = batch[c]
  BY DEF ImportInv, NoBatch
<1>2. FilesStay
  BY <1>1 DEF FilesStay
<1>3. /\ DOMAIN job' = Jobs /\ job'[j] = k /\ \A i \in Jobs \ {j} : job'[i] = job[i]
  BY DEF ImportInv
<1>4. ASSUME NEW c \in Batches PROVE ImportFits(c)'
  <2>1. CASE c = k.batch
    <3>1. ToApply(c)' = ToApply(c)
      BY <1>1, <2>1 DEF ToApply
    <3>2. AllLanded(c) => AllLanded(c)'
      BY <3>1, LandedStays DEF AllLanded
    <3>3. l.status = "APPLIED" => AllLanded(c)
      BY <2>1 DEF ImportInv, ImportFits
    <3>4. ASSUME l.status = "APPLIED", Sum(l.counts) # Len(ToApply(c))
          PROVE  \E i \in Jobs : job'[i].at \in Owing /\ job'[i].batch = c
      <4>1. CASE k.at \in Owing
        BY <1>3, <2>1, <4>1
      <4>2. CASE l = batch[c] /\ job[j].at \notin Owing
        <5>1. PICK i \in Jobs : job[i].at \in Owing /\ job[i].batch = c
          BY <2>1, <3>4, <4>2 DEF ImportInv, ImportFits
        <5> QED
          BY <1>3, <4>2, <5>1
      <4> QED
        BY <2>1, <3>4, <4>1, <4>2
    <3> QED
      BY <1>1, <2>1, <3>1, <3>2, <3>3, <3>4 DEF ImportFits
  <2>2. CASE c # k.batch
    <3>1. ASSUME NEW i \in Jobs, job[i].at \in Owing, job[i].batch = c
          PROVE  job'[i].at \in Owing /\ job'[i].batch = c
      BY <1>3, <2>2, <3>1 DEF NoJob, Owing
    <3> QED
      BY <1>1, <2>2, <3>1, BatchStays DEF ImportInv
  <2> QED
    BY <2>1, <2>2
<1>5. ASSUME NEW i \in Jobs PROVE ApplyFits(job[i])'
  <2>1. CASE i = j
    BY <1>3, <2>1 DEF ApplyFits
  <2>2. CASE i # j
    <3>1. PICK x : x = job[i] /\ ApplyFits(x) /\ job'[i] = x
      BY <1>3, <2>2 DEF ImportInv
    <3>2. ApplyFits(x)'
      BY <1>2, <3>1, JobStays
    <3> QED
      BY <3>1, <3>2 DEF ApplyFits
  <2> QED
    BY <2>1, <2>2
<1>6. ASSUME NEW m \in Managers PROVE ManagerFits(manager[m])'
  BY <1>2 DEF ManagerFits, Stored, FilesStay
<1> QED
  BY <1>1, <1>3, <1>4, <1>5, <1>6 DEF ImportInv

-----------------------------------------------------------------------------
(* The requests and the validation.                                        *)

LEMMA ImportStarts == ImportInit => ImportInv
<1> SUFFICES ASSUME ImportInit PROVE ImportInv
  OBVIOUS
<1> USE DEF ImportInit, ImportQueues
<1>1. ASSUME NEW r \in Rows PROVE RowFits(book[r]) /\ Blank(r)
  BY DEF NoContract, RowFits, Columns, Blank
<1>2. BookInv
  BY <1>1 DEF BookInv, UniqueKeys, ClerkFits, Idle
<1>3. ASSUME NEW b \in Batches PROVE ImportFits(b)
  BY DEF ImportFits, Uploaded, NoBatch, BatchFields
<1>4. ASSUME NEW j \in Jobs PROVE ApplyFits(job[j])
  BY DEF ApplyFits, NoJob, Applying
<1> QED
  BY <1>2, <1>3, <1>4 DEF ImportInv, ManagerFits

LEMMA UploadStep ==
    ASSUME ImportInv, NEW b \in Batches, Upload(b)
    PROVE  ImportInv'
<1>1. PICK file \in Files, w \in Wallets :
        batch' = [batch EXCEPT ![b] = Uploaded("PENDING_VALIDATION", file, w)]
  BY DEF Upload
<1>2. PICK l : l = Uploaded("PENDING_VALIDATION", file, w)
  OBVIOUS
<1>3. /\ DOMAIN l = BatchFields /\ l.status # "NONE" /\ l.status # "APPLIED"
      /\ batch' = [batch EXCEPT ![b] = l] /\ batch[b] = NoBatch
  BY <1>1, <1>2 DEF Upload, Uploaded, BatchFields
<1>4. /\ DOMAIN check' = Batches /\ \A c \in Batches \ {b} : check'[c] = check[c]
      /\ DOMAIN manager' = Managers /\ \A m \in Managers : ManagerFits(manager'[m])
      /\ UNCHANGED <<book, clerk, job>>
  BY DEF Upload, importOnly, bookVars, ImportInv
<1> QED
  BY <1>3, <1>4, BatchWrites

LEMMA ScheduleCheckStep ==
    ASSUME ImportInv, NEW b \in Batches, UNCHANGED <<bookVars, batch, job, manager>>,
           NEW k, check' = [check EXCEPT ![b] = k], batch[b] # NoBatch
    PROVE  ImportInv'
<1>1. BookInv' /\ Grows /\ FilesStay
  BY BookStays DEF ImportInv, bookVars, FilesStay
<1>2. ASSUME NEW c \in Batches PROVE ImportFits(c)'
  <2>1. ToApply(c)' = ToApply(c) /\ (AllLanded(c) => AllLanded(c)')
    BY <1>1, LandedStays DEF ToApply, AllLanded
  <2> QED
    BY <2>1 DEF ImportInv, ImportFits
<1>3. ASSUME NEW j \in Jobs PROVE ApplyFits(job[j])'
  <2>1. PICK k1 : k1 = job[j] /\ ApplyFits(k1)
    BY DEF ImportInv
  <2>2. ApplyFits(k1)'
    BY <1>1, <2>1, JobStays
  <2> QED
    BY <2>1, <2>2 DEF ApplyFits
<1> QED
  BY <1>1, <1>2, <1>3 DEF ImportInv, ManagerFits, Stored

LEMMA CheckMoves ==
    ASSUME ImportInv, NEW b \in Batches, ScheduleCheck(b) \/ CheckLine(b) \/ CheckEnd(b)
                                        \/ CheckStall(b)
    PROVE  ImportInv'
<1>1. batch[b] # NoBatch
  BY DEF ScheduleCheck, CheckLine, CheckEnd, CheckStall, Checking, CheckRunning, ImportInv,
         ImportFits, NoCheck
<1>2. PICK k : check' = [check EXCEPT ![b] = k]
  <2>1. CASE CheckEnd(b)
    <3>1. PICK at : check' = [check EXCEPT ![b].at = at]
      BY <2>1 DEF CheckEnd
    <3>2. check' = [check EXCEPT ![b] = [check[b] EXCEPT !.at = at]]
      BY <3>1 DEF ImportInv
    <3> QED
      BY <3>2
  <2> QED
    BY <2>1 DEF ScheduleCheck, CheckLine, CheckStall
<1> QED
  BY <1>1, <1>2, ScheduleCheckStep DEF ScheduleCheck, CheckLine, CheckEnd, CheckStall

LEMMA CheckWrites ==
    ASSUME ImportInv, NEW b \in Batches, CheckStart(b) \/ CheckWrite(b) \/ CheckFail(b)
    PROVE  ImportInv'
<1>1. /\ batch[b] # NoBatch /\ DOMAIN batch[b] = BatchFields /\ batch[b].status # "NONE"
  BY DEF CheckStart, CheckWrite, CheckFail, Checking, CheckRunning, ImportInv, ImportFits, NoCheck
<1>2. PICK l : /\ batch' = [batch EXCEPT ![b] = l] /\ DOMAIN l = BatchFields /\ l.status # "NONE"
               /\ l.file = batch[b].file
               /\ l.status = "APPLIED" => batch[b].status = "APPLIED" /\ l.counts = batch[b].counts
  <2>1. CASE CheckStart(b) \/ CheckFail(b)
    <3>1. PICK status \in {"VALIDATING", "VALIDATION_FAILED"} :
            batch' = [batch EXCEPT ![b].status = status]
      BY <2>1 DEF CheckStart, CheckFail
    <3>2. PICK l : l = [batch[b] EXCEPT !.status = status]
      OBVIOUS
    <3>3. batch' = [batch EXCEPT ![b] = l]
      BY <3>1, <3>2 DEF ImportInv
    <3>4. /\ DOMAIN l = BatchFields /\ l.status = status /\ l.file = batch[b].file
      BY <1>1, <3>2 DEF BatchFields
    <3> QED
      BY <3>3, <3>4
  <2>2. CASE CheckWrite(b)
    <3>1. PICK status, valid, invalid :
            /\ batch' = [batch EXCEPT ![b].valid = valid, ![b].invalid = invalid,
                                      ![b].status = status]
            /\ status \in {batch[b].status, "VALIDATED_WITH_ERRORS", "VALIDATED"}
      BY <2>2 DEF CheckWrite
    <3>2. PICK l : l = [batch[b] EXCEPT !.valid = valid, !.invalid = invalid, !.status = status]
      OBVIOUS
    <3>3. batch' = [batch EXCEPT ![b] = l]
      BY <3>1, <3>2 DEF ImportInv
    <3>4. /\ DOMAIN l = BatchFields /\ l.status = status /\ l.file = batch[b].file
          /\ l.counts = batch[b].counts
      BY <1>1, <3>2 DEF BatchFields
    <3> QED
      BY <1>1, <3>1, <3>3, <3>4
  <2> QED
    BY <2>1, <2>2
<1>3. /\ DOMAIN check' = Batches /\ \A c \in Batches \ {b} : check'[c] = check[c]
      /\ DOMAIN manager' = Managers /\ \A m \in Managers : ManagerFits(manager'[m])
      /\ UNCHANGED <<book, clerk, job>>
  BY DEF CheckStart, CheckWrite, CheckFail, bookVars, ImportInv
<1> QED
  BY <1>2, <1>3, BatchWrites

\* A request begins or dies.
LEMMA ManagerMoves ==
    ASSUME ImportInv, NEW m \in Managers, UNCHANGED <<bookVars, batch, check, job>>,
           NEW k, manager' = [manager EXCEPT ![m] = k], ManagerFits(k)
    PROVE  ImportInv'
<1>1. BookInv' /\ Grows /\ FilesStay
  BY BookStays DEF ImportInv, bookVars, FilesStay
<1>2. ASSUME NEW c \in Batches PROVE ImportFits(c)'
  BY <1>1, BatchStays DEF ImportInv
<1>3. ASSUME NEW j \in Jobs PROVE ApplyFits(job[j])'
  <2>1. PICK k1 : k1 = job[j] /\ ApplyFits(k1)
    BY DEF ImportInv
  <2>2. ApplyFits(k1)'
    BY <1>1, <2>1, JobStays
  <2> QED
    BY <2>1, <2>2 DEF ApplyFits
<1>4. ASSUME NEW i \in Managers PROVE ManagerFits(manager[i])'
  BY DEF ImportInv, ManagerFits, Stored
<1> QED
  BY <1>1, <1>2, <1>3, <1>4 DEF ImportInv

LEMMA AskStep ==
    ASSUME ImportInv, NEW m \in Managers, CancelBatchRead(m) \/ ConfirmRead(m) \/ ConfirmDies(m)
    PROVE  ImportInv'
<1>1. ASSUME NEW b \in Batches, batch[b].status # "NONE", NEW what, Ask(m, what, b)
      PROVE  ImportInv'
  <2>1. ManagerFits([at |-> what, batch |-> b])
    BY <1>1 DEF ManagerFits, Stored, NoBatch
  <2> QED
    BY <1>1, <2>1, ManagerMoves DEF Ask
<1>2. CASE CancelBatchRead(m) \/ ConfirmRead(m)
  BY <1>1, <1>2 DEF CancelBatchRead, ConfirmRead, Cancellable, Confirmable
<1>3. CASE ConfirmDies(m)
  <2>1. PICK k : k = [manager[m] EXCEPT !.at = "dead"]
    OBVIOUS
  <2>2. manager[m] # Idle /\ ManagerFits(manager[m])
    BY <1>3 DEF ConfirmDies, ImportInv, Idle
  <2>3. manager' = [manager EXCEPT ![m] = k] /\ ManagerFits(k)
    BY <1>3, <2>1, <2>2 DEF ConfirmDies, ImportInv, ManagerFits
  <2> QED
    BY <1>3, <2>3, ManagerMoves DEF ConfirmDies
<1> QED
  BY <1>2, <1>3

LEMMA ManagerWrites ==
    ASSUME ImportInv, NEW m \in Managers, CancelBatchWrite(m) \/ ConfirmWrite(m)
    PROVE  ImportInv'
<1>1. PICK b : b = manager[m].batch
  OBVIOUS
<1>2. manager[m] # Idle /\ ManagerFits(manager[m]) /\ b \in Batches /\ batch[b] # NoBatch
  BY <1>1 DEF CancelBatchWrite, ConfirmWrite, ImportInv, Idle, ManagerFits, Stored
<1>3. PICK status \in {"CANCELLED", "APPLYING"} : batch' = [batch EXCEPT ![b].status = status]
  BY <1>1 DEF CancelBatchWrite, ConfirmWrite
<1>4. PICK l : l = [batch[b] EXCEPT !.status = status]
  OBVIOUS
<1>5. /\ batch' = [batch EXCEPT ![b] = l] /\ DOMAIN l = BatchFields /\ l.status = status
      /\ l.file = batch[b].file
  BY <1>2, <1>3, <1>4 DEF ImportInv, ImportFits, BatchFields
<1>6. PICK k : manager' = [manager EXCEPT ![m] = k] /\ ManagerFits(k)
  <2>1. CASE CancelBatchWrite(m)
    BY <2>1 DEF CancelBatchWrite, ManagerFits
  <2>2. CASE ConfirmWrite(m)
    <3>1. PICK k : k = [manager[m] EXCEPT !.at = "schedule"]
      OBVIOUS
    <3>2. manager' = [manager EXCEPT ![m] = k] /\ ManagerFits(k)
      BY <1>2, <2>2, <3>1 DEF ConfirmWrite, ImportInv, ManagerFits
    <3> QED
      BY <3>2
  <2> QED
    BY <2>1, <2>2
<1>7. /\ DOMAIN manager' = Managers /\ \A i \in Managers : ManagerFits(manager'[i])
      /\ DOMAIN check' = Batches /\ \A c \in Batches \ {b} : check'[c] = check[c]
      /\ UNCHANGED <<book, clerk, job>>
  BY <1>6 DEF CancelBatchWrite, ConfirmWrite, bookVars, ImportInv
<1> QED
  BY <1>2, <1>3, <1>5, <1>7, BatchWrites

LEMMA ConfirmScheduleStep ==
    ASSUME ImportInv, NEW m \in Managers, ConfirmSchedule(m)
    PROVE  ImportInv'
<1>1. PICK j \in Jobs :
        /\ job[j] = NoJob
        /\ job' = [job EXCEPT ![j] = [at |-> "queued", tries |-> 0, stalls |-> 0,
                                      batch |-> manager[m].batch]]
  BY DEF ConfirmSchedule
<1>2. PICK k : k = [at |-> "queued", tries |-> 0, stalls |-> 0, batch |-> manager[m].batch]
  OBVIOUS
<1>3. manager[m] # Idle /\ Stored(k.batch)
  BY <1>2 DEF ConfirmSchedule, ImportInv, Idle, ManagerFits
<1>4. BookInv' /\ Grows /\ FilesStay
  BY BookStays DEF ConfirmSchedule, ImportInv, bookVars, FilesStay
<1>5. ApplyFits(k)
  BY <1>2, <1>3 DEF ApplyFits, Applying
<1>6. ApplyFits(k)'
  BY <1>4, <1>5, JobStays
<1>7. PICK l : l = batch[k.batch]
  OBVIOUS
<1>8. /\ DOMAIN l = BatchFields /\ l.status # "NONE" /\ UNCHANGED <<batch, check>>
  BY <1>3, <1>7 DEF ConfirmSchedule, Stored, ImportInv, ImportFits
<1>9. DOMAIN manager' = Managers /\ \A i \in Managers : ManagerFits(manager'[i])
  BY DEF ConfirmSchedule, ImportInv, ManagerFits
<1> QED
  BY <1>1, <1>2, <1>3, <1>4, <1>6, <1>7, <1>8, <1>9, JobMoves DEF Stored, Owing, ImportInv

-----------------------------------------------------------------------------
(* The application.                                                        *)

\* A job moves and writes no batch.
LEMMA JobOnly ==
    ASSUME ImportInv, BookInv', Grows, NEW j \in Jobs, job[j].at # "none",
           NEW k, ApplyFits(k)', k.batch = job[j].batch,
           k.at \in Owing \/ (k.at # "none" /\ job[j].at \notin Owing),
           job' = [job EXCEPT ![j] = k], UNCHANGED <<batch, check, manager>>
    PROVE  ImportInv'
<1>1. Stored(k.batch) /\ k.at # "none"
  BY DEF ImportInv, ApplyFits, Owing
<1>2. PICK l : l = batch[k.batch]
  OBVIOUS
<1>3. DOMAIN l = BatchFields /\ l.status # "NONE"
  BY <1>1, <1>2 DEF Stored, ImportInv, ImportFits
<1>4. DOMAIN batch' = Batches /\ DOMAIN manager' = Managers
      /\ \A m \in Managers : ManagerFits(manager'[m])
  BY DEF ImportInv
<1> QED
  BY <1>1, <1>2, <1>3, <1>4, JobMoves DEF Stored

\* A line is counted once it is in the book.
LEMMA CountStep ==
    ASSUME ImportInv, BookInv', Grows, NEW j \in Jobs,
           job[j].at \in {"look", "create", "merge"}, job[j].next <= Len(JobFile(j)),
           NEW debt, debt = JobLine(j).debt, Landed(debt)',
           NEW what \in {"created", "updated", "ignored"},
           job' = [job EXCEPT ![j] = Counted(job[j], what)],
           UNCHANGED <<batch, check, manager>>
    PROVE  ImportInv'
<1>1. PICK o : o = job[j]
  OBVIOUS
<1>2. /\ Stored(o.batch) /\ o.tries \in Nat /\ DOMAIN o = JobFields /\ o.next \in Nat \ {0}
      /\ CountsFit(o.counts) /\ LinesFit(o, ToApply(o.batch)) /\ Sum(o.counts) + 1 = o.next
      /\ o.at \in {"look", "create", "merge"}
  BY <1>1 DEF ImportInv, ApplyFits, Applying, LinesFit
<1>3. PICK k : k = Counted(o, what)
  OBVIOUS
<1>4. /\ DOMAIN k = JobFields /\ k.at = "save" /\ k.batch = o.batch /\ k.tries = o.tries
      /\ k.next = o.next /\ k.counts = [o.counts EXCEPT ![what] = o.counts[what] + 1]
  BY <1>2, <1>3 DEF Counted, JobFields
<1>5. CountsFit(k.counts) /\ Sum(k.counts) = Sum(o.counts) + 1
  <2>1. /\ DOMAIN k.counts = DOMAIN o.counts /\ k.counts[what] = o.counts[what] + 1
        /\ \A c \in DOMAIN o.counts \ {what} : k.counts[c] = o.counts[c]
    BY <1>2, <1>4 DEF CountsFit
  <2>2. o.counts.created \in Nat /\ o.counts.updated \in Nat /\ o.counts.ignored \in Nat
    BY <1>2 DEF CountsFit
  <2>3. DOMAIN o.counts = {"created", "updated", "ignored"}
    BY <1>2 DEF CountsFit
  <2>4. CASE what = "created"
    <3>1. /\ k.counts.created = o.counts.created + 1
          /\ k.counts.updated = o.counts.updated /\ k.counts.ignored = o.counts.ignored
      BY <2>1, <2>3, <2>4
    <3>2. Sum(k.counts) = Sum(o.counts) + 1
      BY <2>2, <3>1, SMTT(30) DEF Sum
    <3>3. CountsFit(k.counts)
      BY <2>1, <2>2, <2>3, <3>1 DEF CountsFit
    <3> QED
      BY <3>2, <3>3
  <2>5. CASE what = "updated"
    <3>1. /\ k.counts.updated = o.counts.updated + 1
          /\ k.counts.created = o.counts.created /\ k.counts.ignored = o.counts.ignored
      BY <2>1, <2>3, <2>5
    <3>2. Sum(k.counts) = Sum(o.counts) + 1
      BY <2>2, <3>1, SMTT(30) DEF Sum
    <3>3. CountsFit(k.counts)
      BY <2>1, <2>2, <2>3, <3>1 DEF CountsFit
    <3> QED
      BY <3>2, <3>3
  <2>6. CASE what = "ignored"
    <3>1. /\ k.counts.ignored = o.counts.ignored + 1
          /\ k.counts.created = o.counts.created /\ k.counts.updated = o.counts.updated
      BY <2>1, <2>3, <2>6
    <3>2. Sum(k.counts) = Sum(o.counts) + 1
      BY <2>2, <3>1, SMTT(30) DEF Sum
    <3>3. CountsFit(k.counts)
      BY <2>1, <2>2, <2>3, <3>1 DEF CountsFit
    <3> QED
      BY <3>2, <3>3
  <2> QED
    BY <2>4, <2>5, <2>6
<1>6. PICK lines : lines = ToApply(o.batch)
  OBVIOUS
<1>7. lines = ToApply(k.batch)'
  BY <1>4, <1>6 DEF ToApply
<1>8. ASSUME NEW n \in 1 .. Len(lines), n < o.next \/ n = o.next
      PROVE  Landed(lines[n].debt)'
  <2>1. CASE n < o.next
    BY <1>2, <1>6, <2>1, LandedStays DEF LinesFit
  <2>2. CASE n = o.next
    <3>1. debt = lines[n].debt
      BY <1>1, <1>6, <2>2 DEF JobLine, JobFile
    <3> QED
      BY <3>1
  <2> QED
    BY <1>8, <2>1, <2>2
<1>9. LinesFit(k, lines)'
  BY <1>1, <1>2, <1>4, <1>5, <1>6, <1>8 DEF LinesFit, JobFile
<1>10. Stored(k.batch)'
  BY <1>2, <1>4 DEF Stored
<1>11. ApplyFits(k)'
  BY <1>2, <1>4, <1>5, <1>7, <1>9, <1>10 DEF ApplyFits, Applying
<1> QED
  BY <1>1, <1>2, <1>3, <1>4, <1>11, JobOnly DEF Owing

LEMMA ApplyStartStep ==
    ASSUME ImportInv, NEW j \in Jobs, ApplyStart(j)
    PROVE  ImportInv'
<1>1. BookInv' /\ Grows /\ FilesStay /\ UNCHANGED <<batch, check, manager>>
  BY BookStays DEF ApplyStart, JobsOnly, ImportInv, FilesStay
<1>2. PICK k : k = [at |-> "look", batch |-> job[j].batch, tries |-> job[j].tries,
                    stalls |-> job[j].stalls, next |-> 1, counts |-> Zero,
                    seen |-> NoContract, row |-> {}]
  OBVIOUS
<1>3. job[j].at = "queued" /\ ApplyFits(job[j]) /\ Stored(job[j].batch) /\ job[j].tries \in Nat
  BY DEF ApplyStart, At, ImportInv, ApplyFits
<1>4. Len(ToApply(k.batch)) \in Nat
  BY DEF ToApply, LinesOf
<1>5. CountsFit(k.counts) /\ Sum(k.counts) = 0
  BY <1>2 DEF CountsFit, Sum, Zero
<1>6. LinesFit(k, ToApply(k.batch))
  BY <1>2, <1>4, <1>5 DEF LinesFit
<1>7. ApplyFits(k)
  BY <1>2, <1>3, <1>5, <1>6 DEF ApplyFits, JobFields, Applying
<1>8. ApplyFits(k)'
  BY <1>1, <1>7, JobStays
<1> QED
  BY <1>1, <1>2, <1>3, <1>8, JobOnly DEF ApplyStart, Owing

LEMMA MatchingLands ==
    ASSUME BookInv, NEW debt, NEW r \in Matching(debt)
    PROVE  InUse(r) /\ debt \in book[r].debts
  BY DEF BookInv, Matching, Live, RowFits, InUse, Blank

LEMMA ApplyLookStep ==
    ASSUME ImportInv, NEW j \in Jobs, ApplyLook(j)
    PROVE  ImportInv'
<1>1. BookInv' /\ Grows /\ FilesStay /\ UNCHANGED <<batch, check, manager, book>>
  BY BookStays DEF ApplyLook, JobsOnly, ImportInv, FilesStay
<1>2. PICK o : o = job[j]
  OBVIOUS
<1>3. PICK debt : debt = JobLine(j).debt
  OBVIOUS
<1>4. PICK found : found = Matching(debt)
  OBVIOUS
<1>5. /\ Stored(o.batch) /\ o.tries \in Nat /\ DOMAIN o = JobFields /\ o.next \in Nat \ {0}
      /\ CountsFit(o.counts) /\ LinesFit(o, ToApply(o.batch)) /\ o.at = "look"
      /\ o.next <= Len(JobFile(j)) /\ JobFile(j) = ToApply(o.batch)
  BY <1>2 DEF ApplyLook, At, ImportInv, ApplyFits, Applying, JobFile
<1>6. CASE found # {} /\ job' = [job EXCEPT ![j] = Counted(o, "ignored")]
  <2>1. Landed(debt)
    BY <1>4, <1>6, MatchingLands DEF Landed, ImportInv, InUse
  <2>2. Landed(debt)'
    BY <1>1, <2>1, LandedStays
  <2> QED
    BY <1>1, <1>2, <1>3, <1>5, <1>6, <2>2, CountStep
<1>7. CASE found = {} /\ job' = [job EXCEPT ![j] = [o EXCEPT !.at = "create"]]
  <2>1. PICK k : k = [o EXCEPT !.at = "create"]
    OBVIOUS
  <2>2. /\ DOMAIN k = JobFields /\ k.at = "create" /\ k.next = o.next /\ k.counts = o.counts
        /\ k.batch = o.batch /\ k.tries = o.tries
    BY <1>5, <2>1 DEF JobFields
  <2>3. ApplyFits(k)
    BY <1>5, <2>2 DEF ApplyFits, LinesFit, Applying
  <2>4. ApplyFits(k)'
    BY <1>1, <2>3, JobStays
  <2> QED
    BY <1>1, <1>2, <1>5, <1>7, <2>1, <2>2, <2>4, JobOnly DEF Owing
<1>8. ASSUME NEW seen, job' = [job EXCEPT ![j] = [o EXCEPT !.at = "merge", !.row = found,
                                                           !.seen = seen]]
      PROVE  ImportInv'
  <2>1. PICK k : k = [o EXCEPT !.at = "merge", !.row = found, !.seen = seen]
    OBVIOUS
  <2>2. /\ DOMAIN k = JobFields /\ k.at = "merge" /\ k.next = o.next /\ k.counts = o.counts
        /\ k.batch = o.batch /\ k.tries = o.tries /\ k.row = found
    BY <1>5, <2>1 DEF JobFields
  <2>3. debt = ToApply(o.batch)[o.next].debt
    BY <1>2, <1>3 DEF JobLine, JobFile
  <2>4. \A r \in found : InUse(r) /\ debt \in book[r].debts
    BY <1>4, MatchingLands DEF ImportInv
  <2>5. ApplyFits(k)
    BY <1>5, <2>2, <2>3, <2>4 DEF ApplyFits, LinesFit, Applying
  <2>6. ApplyFits(k)'
    BY <1>1, <2>5, JobStays
  <2> QED
    BY <1>1, <1>2, <1>5, <1>8, <2>1, <2>2, <2>6, JobOnly DEF Owing
<1>9. \/ found # {} /\ job' = [job EXCEPT ![j] = Counted(o, "ignored")]
      \/ found = {} /\ job' = [job EXCEPT ![j] = [o EXCEPT !.at = "create"]]
      \/ \E seen : job' = [job EXCEPT ![j] = [o EXCEPT !.at = "merge", !.row = found,
                                                        !.seen = seen]]
  <2>1. Cardinality({}) = 0
    BY FS_EmptySet
  <2>2. CASE \/ Cardinality(found) > 1
             \/ \E r \in found : book[r].paid \/ book[r].status = "CANCELLED"
    <3>1. found # {}
      BY <2>1, <2>2
    <3>2. job' = [job EXCEPT ![j] = Counted(o, "ignored")]
      BY <1>2, <1>3, <1>4, <2>2 DEF ApplyLook
    <3> QED
      BY <3>1, <3>2
  <2>3. CASE ~(\/ Cardinality(found) > 1
               \/ \E r \in found : book[r].paid \/ book[r].status = "CANCELLED")
    BY <1>2, <1>3, <1>4, <2>3 DEF ApplyLook
  <2> QED
    BY <2>2, <2>3
<1> QED
  BY <1>6, <1>7, <1>8, <1>9

LEMMA ApplyCreateStep ==
    ASSUME ImportInv, NEW j \in Jobs, ApplyCreate(j)
    PROVE  ImportInv'
<1>1. PICK debt : debt = JobLine(j).debt
  OBVIOUS
<1>2. PICK wallet : wallet = Wallet(j)
  OBVIOUS
<1>3. PICK terms : terms = JobLine(j).terms
  OBVIOUS
<1>4. /\ job[j].at = "create" /\ ~KeyTaken(debt, wallet) /\ Create(wallet, debt, terms)
      /\ job' = [job EXCEPT ![j] = Counted(job[j], "created")]
      /\ UNCHANGED <<batch, clerk, check, manager>>
  BY <1>1, <1>2, <1>3 DEF ApplyCreate, At, JobsOnly
<1>5. BookInv /\ DOMAIN clerk' = Clerks /\ \A c \in Clerks : clerk'[c] = clerk[c]
  BY <1>4 DEF ImportInv, BookInv
<1>6. BookInv' /\ Grows /\ \E r \in Rows : debt \in book'[r].debts
  BY <1>4, <1>5, Creates
<1>7. Landed(debt)'
  BY <1>6 DEF Landed
<1>8. job[j].next <= Len(JobFile(j))
  BY <1>4 DEF ImportInv, ApplyFits, LinesFit, JobFile, Applying
<1> QED
  BY <1>1, <1>4, <1>6, <1>7, <1>8, CountStep

LEMMA ApplyMergeStep ==
    ASSUME ImportInv, NEW j \in Jobs, ApplyMerge(j)
    PROVE  ImportInv'
<1>1. PICK o : o = job[j]
  OBVIOUS
<1>2. PICK line : line = JobLine(j)
  OBVIOUS
<1>3. PICK wallet : wallet = Wallet(j)
  OBVIOUS
<1>4. /\ Stored(o.batch) /\ o.at = "merge" /\ o.next <= Len(JobFile(j))
      /\ \A r \in o.row : InUse(r) /\ line.debt \in book[r].debts
  BY <1>1, <1>2 DEF ApplyMerge, At, ImportInv, ApplyFits, LinesFit, Applying, JobFile, JobLine
<1>5. PICK r \in o.row :
        /\ ~KeyClash(j, r)
        /\ book' = IF Untouched(o.seen, line, wallet) THEN book
                   ELSE [book EXCEPT ![r] = Merged(book[r], o.seen, line, wallet)]
  BY <1>1, <1>2, <1>3 DEF ApplyMerge
<1>6. InUse(r) /\ line.debt \in book[r].debts /\ RowFits(book[r])
  BY <1>4, <1>5 DEF InUse, ImportInv, BookInv
<1>7. BookInv' /\ Grows
  <2>1. CASE Untouched(o.seen, line, wallet)
    BY <1>5, <2>1, BookStays DEF ApplyMerge, JobsOnly, ImportInv
  <2>2. CASE ~Untouched(o.seen, line, wallet)
    <3>1. PICK x : x = Merged(book[r], o.seen, line, wallet)
      OBVIOUS
    <3>2. PICK y : y = [book[r] EXCEPT !.wallet = wallet, !.terms = line.terms,
                                       !.offer = Offer(wallet, line.terms),
                                       !.debt = line.debt, !.key = line.debt,
                                       !.debts = book[r].debts \cup {line.debt}]
      OBVIOUS
    <3>3. PICK status : status = (IF o.seen.status = "SUSPENDED" THEN "ACTIVE" ELSE book[r].status)
      OBVIOUS
    <3>4. \/ x = y /\ o.seen.wallet # wallet
          \/ x = [y EXCEPT !.status = status] /\ o.seen.terms # line.terms
          \/ x = [book[r] EXCEPT !.status = status]
      BY <3>1, <3>2, <3>3 DEF Merged
    <3>5. /\ DOMAIN y = Columns /\ y.debt = line.debt /\ y.key = line.debt
          /\ y.debts = book[r].debts \cup {line.debt} /\ y.kept = book[r].kept
      BY <1>6, <3>2 DEF RowFits, Columns
    <3>6. book[r].kept # "NONE" /\ r \in Rows
      BY <1>6 DEF InUse, Blank
    <3>7. /\ RowFits(x) /\ x.kept # "NONE" /\ book[r].debts \subseteq x.debts
          /\ \/ x.key = book[r].key
             \/ x.key = line.debt /\ (o.seen.wallet # wallet \/ o.seen.terms # line.terms)
      BY <1>6, <3>4, <3>5, <3>6 DEF RowFits, Columns
    <3>8. ~Blank(r) /\ (x.key = book[r].key \/ ~KeyTakenByOther(x.key, r))
      BY <1>1, <1>2, <1>3, <1>5, <1>6, <3>7 DEF KeyClash, InUse
    <3>9. book' = [book EXCEPT ![r] = x]
      BY <1>5, <2>2, <3>1
    <3>10. DOMAIN clerk' = Clerks /\ \A c \in Clerks : clerk'[c] = clerk[c]
      BY DEF ApplyMerge, JobsOnly, ImportInv, BookInv
    <3> QED
      BY <3>6, <3>7, <3>8, <3>9, <3>10, RowWritten DEF ImportInv
  <2> QED
    BY <2>1, <2>2
<1>8. PICK debt : debt = line.debt
  OBVIOUS
<1>9. Landed(debt)'
  BY <1>6, <1>7, <1>8, LandedStays DEF Landed, InUse
<1>10. PICK what \in {"ignored", "updated"} : job' = [job EXCEPT ![j] = Counted(o, what)]
  BY <1>1 DEF ApplyMerge
<1>11. UNCHANGED <<batch, check, manager>>
  BY DEF ApplyMerge, JobsOnly
<1> QED
  BY <1>1, <1>2, <1>4, <1>7, <1>8, <1>9, <1>10, <1>11, CountStep

LEMMA ApplySaveStep ==
    ASSUME ImportInv, NEW j \in Jobs, ApplySave(j)
    PROVE  ImportInv'
<1>1. PICK o : o = job[j]
  OBVIOUS
<1>2. /\ Stored(o.batch) /\ o.tries \in Nat /\ DOMAIN o = JobFields /\ o.next \in Nat \ {0}
      /\ CountsFit(o.counts) /\ LinesFit(o, ToApply(o.batch)) /\ o.at = "save"
  BY <1>1 DEF ApplySave, At, ImportInv, ApplyFits, Applying
<1>3. PICK k : k = [o EXCEPT !.at = "look", !.next = o.next + 1, !.seen = NoContract, !.row = {}]
  OBVIOUS
<1>4. /\ DOMAIN k = JobFields /\ k.at = "look" /\ k.next = o.next + 1 /\ k.counts = o.counts
      /\ k.batch = o.batch /\ k.tries = o.tries
  BY <1>2, <1>3 DEF JobFields
<1>5. PICK l : l = [batch[o.batch] EXCEPT !.counts = o.counts]
  OBVIOUS
<1>6. /\ DOMAIN l = BatchFields /\ l.status = batch[o.batch].status /\ l.status # "NONE"
      /\ l.file = batch[o.batch].file
  BY <1>2, <1>5 DEF ImportInv, ImportFits, Stored, BatchFields
<1>7. /\ job' = [job EXCEPT ![j] = k] /\ batch' = [batch EXCEPT ![o.batch] = l]
      /\ UNCHANGED <<book, clerk, check, manager>>
  BY <1>1, <1>2, <1>3, <1>5 DEF ApplySave, JobsOnly, ImportInv, Stored
<1>8. /\ DOMAIN batch' = Batches /\ batch'[k.batch] = l /\ k.batch \in Batches
      /\ \A c \in Batches \ {k.batch} : batch'[c] = batch[c]
  BY <1>2, <1>4, <1>7 DEF ImportInv, Stored
<1>9. BookInv' /\ Grows /\ FilesStay
  BY <1>4, <1>6, <1>7, <1>8, BookStays DEF ImportInv, FilesStay, NoBatch
<1>10. PICK lines : lines = ToApply(o.batch)
  OBVIOUS
<1>11. LinesFit(k, lines)
  <2>1. Len(lines) \in Nat
    BY <1>10 DEF ToApply, LinesOf
  <2>2. \A n \in 1 .. Len(lines) : n < k.next => n < o.next \/ n = o.next
    BY <1>2, <1>4, <2>1
  <2> QED
    BY <1>2, <1>4, <1>10, <2>1, <2>2 DEF LinesFit
<1>12. ApplyFits(k)
  BY <1>2, <1>4, <1>10, <1>11 DEF ApplyFits, Applying
<1>13. ApplyFits(k)'
  BY <1>9, <1>12, JobStays
<1>14. DOMAIN manager' = Managers /\ \A m \in Managers : ManagerFits(manager'[m])
  BY <1>7 DEF ImportInv
<1>15. /\ k.at # "none" /\ job[j].batch = k.batch /\ l.file = batch[k.batch].file
       /\ batch[k.batch] # NoBatch
       /\ l.status = "APPLIED" => batch[k.batch].status = "APPLIED" /\ k.at \in Owing
  BY <1>1, <1>2, <1>4, <1>6 DEF Stored, Owing
<1> QED
  BY <1>6, <1>7, <1>8, <1>9, <1>13, <1>14, <1>15, JobMoves

LEMMA ApplyEndStep ==
    ASSUME ImportInv, NEW j \in Jobs, ApplyEnd(j)
    PROVE  ImportInv'
<1>1. PICK o : o = job[j]
  OBVIOUS
<1>2. /\ Stored(o.batch) /\ o.tries \in Nat /\ DOMAIN o = JobFields /\ o.next \in Nat \ {0}
      /\ CountsFit(o.counts) /\ LinesFit(o, ToApply(o.batch)) /\ o.at = "look"
      /\ o.next > Len(ToApply(o.batch))
  BY <1>1 DEF ApplyEnd, At, ImportInv, ApplyFits, Applying, JobFile
<1>3. PICK k : k = [o EXCEPT !.at = "reprice"]
  OBVIOUS
<1>4. /\ DOMAIN k = JobFields /\ k.at = "reprice" /\ k.next = o.next /\ k.counts = o.counts
      /\ k.batch = o.batch /\ k.tries = o.tries
  BY <1>2, <1>3 DEF JobFields
<1>5. PICK l : l = [batch[o.batch] EXCEPT !.counts = o.counts, !.status = "APPLIED"]
  OBVIOUS
<1>6. /\ DOMAIN l = BatchFields /\ l.status # "NONE" /\ l.file = batch[o.batch].file
      /\ l.counts = o.counts
  BY <1>2, <1>5 DEF ImportInv, ImportFits, Stored, BatchFields
<1>7. /\ job' = [job EXCEPT ![j] = k] /\ batch' = [batch EXCEPT ![o.batch] = l]
      /\ UNCHANGED <<book, clerk, check, manager>>
  BY <1>1, <1>2, <1>3, <1>5 DEF ApplyEnd, JobsOnly, ImportInv, Stored
<1>8. /\ DOMAIN batch' = Batches /\ batch'[k.batch] = l /\ k.batch \in Batches
      /\ \A c \in Batches \ {k.batch} : batch'[c] = batch[c]
  BY <1>2, <1>4, <1>7 DEF ImportInv, Stored
<1>9. BookInv' /\ Grows /\ FilesStay
  BY <1>4, <1>6, <1>7, <1>8, BookStays DEF ImportInv, FilesStay, NoBatch
<1>10. PICK lines : lines = ToApply(o.batch)
  OBVIOUS
<1>11. /\ \A n \in 1 .. Len(lines) : Landed(lines[n].debt)
       /\ Sum(o.counts) = Len(lines)
  <2>1. Len(lines) \in Nat
    BY <1>10 DEF ToApply, LinesOf
  <2>2. Sum(o.counts) \in Nat
    BY <1>2 DEF CountsFit, Sum
  <2>3. o.next <= Len(lines) + 1 /\ o.next > Len(lines) /\ Sum(o.counts) + 1 = o.next
    BY <1>2, <1>10 DEF LinesFit
  <2>4. \A n \in 1 .. Len(lines) : n < o.next
    BY <1>2, <2>1, <2>3
  <2> QED
    BY <1>2, <1>10, <2>1, <2>2, <2>3, <2>4 DEF LinesFit
<1>12. LinesFit(k, lines)
  BY <1>4, <1>11 DEF LinesFit
<1>13. ApplyFits(k)
  BY <1>2, <1>4, <1>10, <1>12 DEF ApplyFits, Applying
<1>14. ApplyFits(k)'
  BY <1>9, <1>13, JobStays
<1>15. AllLanded(k.batch) /\ Sum(l.counts) = Len(ToApply(k.batch))
  BY <1>4, <1>6, <1>10, <1>11 DEF AllLanded
<1>16. DOMAIN manager' = Managers /\ \A m \in Managers : ManagerFits(manager'[m])
  BY <1>7 DEF ImportInv
<1>17. /\ k.at # "none" /\ job[j].batch = k.batch /\ l.file = batch[k.batch].file
       /\ batch[k.batch] # NoBatch
  BY <1>1, <1>2, <1>4, <1>6 DEF Stored
<1> QED
  BY <1>6, <1>7, <1>8, <1>9, <1>14, <1>15, <1>16, <1>17, JobMoves

LEMMA ApplyRepriceStep ==
    ASSUME ImportInv, NEW j \in Jobs, ApplyReprice(j)
    PROVE  ImportInv'
<1>1. PICK wallet : wallet = Wallet(j)
  OBVIOUS
<1>2. book' = [r \in Rows |->
                 IF /\ Live(r) /\ book[r].wallet = wallet
                    /\ book[r].status = "ACTIVE" /\ ~book[r].paid
                 THEN [book[r] EXCEPT !.offer = Offer(book[r].wallet, book[r].terms)]
                 ELSE book[r]]
  BY <1>1 DEF ApplyReprice
<1>3. ASSUME NEW r \in Rows
      PROVE  /\ RowFits(book'[r]) /\ book'[r].kept = book[r].kept
             /\ book'[r].key = book[r].key /\ book'[r].debts = book[r].debts
  <2>1. RowFits(book[r])
    BY DEF ImportInv, BookInv
  <2> QED
    BY <1>2, <2>1 DEF RowFits, Columns
<1>4. BookInv' /\ Grows
  BY <1>2, <1>3, RowsWritten DEF ApplyReprice, JobsOnly, ImportInv
<1>5. PICK k : k = [at |-> "done", batch |-> job[j].batch]
  OBVIOUS
<1>6. job[j].at = "reprice" /\ Stored(job[j].batch)
  BY DEF ApplyReprice, At, ImportInv, ApplyFits
<1>7. ApplyFits(k)'
  BY <1>5, <1>6 DEF ApplyFits, Applying, Stored, ApplyReprice
<1> QED
  BY <1>4, <1>5, <1>6, <1>7, JobOnly DEF ApplyReprice, JobsOnly, Owing

LEMMA GiveUpStep ==
    ASSUME ImportInv, NEW j \in Jobs, job[j].at \in Applying, GiveUp(j)
    PROVE  ImportInv'
<1>1. PICK o : o = job[j]
  OBVIOUS
<1>2. Stored(o.batch) /\ o.tries \in Nat /\ ApplyFits(o)
  BY <1>1 DEF ImportInv, ApplyFits, Applying
<1>3. BookInv' /\ Grows
  BY BookStays DEF GiveUp, JobsOnly, ImportInv
<1>4. CASE o.tries + 1 >= MaxTries
  <2>1. o.tries >= MaxTries - 1
    BY <1>2, <1>4, ImportAssumption
  <2>2. PICK k : k = [at |-> "done", batch |-> o.batch]
    OBVIOUS
  <2>3. PICK l : l = [batch[o.batch] EXCEPT !.status = "FAILED"]
    OBVIOUS
  <2>4. /\ DOMAIN l = BatchFields /\ l.status = "FAILED" /\ l.file = batch[o.batch].file
    BY <1>2, <2>3 DEF ImportInv, ImportFits, Stored, BatchFields
  <2>5. /\ job' = [job EXCEPT ![j] = k] /\ batch' = [batch EXCEPT ![o.batch] = l]
        /\ UNCHANGED <<book, clerk, check, manager>>
    BY <1>1, <1>2, <1>4, <2>1, <2>2, <2>3 DEF GiveUp, JobsOnly, ImportInv, Stored
  <2>6. /\ DOMAIN batch' = Batches /\ batch'[k.batch] = l /\ k.batch \in Batches
        /\ \A c \in Batches \ {k.batch} : batch'[c] = batch[c]
    BY <1>2, <2>2, <2>5 DEF ImportInv, Stored
  <2>7. ApplyFits(k)'
    BY <1>2, <2>2, <2>4, <2>6 DEF ApplyFits, Applying, Stored, NoBatch
  <2>8. DOMAIN manager' = Managers /\ \A m \in Managers : ManagerFits(manager'[m])
    BY <2>5 DEF ImportInv
  <2>9. /\ k.at # "none" /\ job[j].batch = k.batch /\ l.file = batch[k.batch].file
        /\ batch[k.batch] # NoBatch
    BY <1>1, <1>2, <2>2, <2>4 DEF Stored
  <2>10. l.status # "NONE" /\ l.status # "APPLIED"
    BY <2>4
  <2> QED
    BY <1>3, <2>4, <2>5, <2>6, <2>7, <2>8, <2>9, <2>10, JobMoves
<1>5. CASE ~(o.tries + 1 >= MaxTries)
  <2>1. ~(o.tries >= MaxTries - 1)
    BY <1>2, <1>5, ImportAssumption
  <2>2. PICK k : k = [at |-> "queued", batch |-> o.batch, tries |-> o.tries + 1,
                      stalls |-> o.stalls]
    OBVIOUS
  <2>3. job' = [job EXCEPT ![j] = k] /\ UNCHANGED <<batch, book, clerk, check, manager>>
    BY <1>1, <1>5, <2>1, <2>2 DEF GiveUp, JobsOnly
  <2>4. ApplyFits(k)'
    BY <1>2, <2>2, <2>3 DEF ApplyFits, Applying, Stored
  <2> QED
    BY <1>1, <1>3, <2>2, <2>3, <2>4, JobOnly DEF Applying, Owing
<1> QED
  BY <1>4, <1>5

LEMMA ApplyFaults ==
    ASSUME ImportInv, NEW j \in Jobs, ApplyClash(j) \/ ApplyFail(j) \/ ApplyStall(j)
    PROVE  ImportInv'
<1>1. job[j].at \in Applying
  BY DEF ApplyClash, ApplyFail, ApplyStall, ApplyRunning, At, Applying
<1>2. CASE ApplyClash(j) \/ ApplyFail(j)
  BY <1>1, <1>2, GiveUpStep DEF ApplyClash, ApplyFail
<1>3. CASE ApplyStall(j)
  <2>1. BookInv' /\ Grows /\ UNCHANGED <<batch, check, manager>>
    BY <1>3, BookStays DEF ApplyStall, JobsOnly, ImportInv
  <2>2. Stored(job[j].batch) /\ job[j].tries \in Nat
    BY <1>1 DEF ImportInv, ApplyFits, Applying
  <2>3. PICK k : /\ job' = [job EXCEPT ![j] = k]
                 /\ k \in {[at |-> "lost", batch |-> job[j].batch],
                           [at |-> "queued", batch |-> job[j].batch, tries |-> job[j].tries,
                            stalls |-> job[j].stalls + 1]}
    BY <1>3 DEF ApplyStall
  <2>4. ApplyFits(k)'
    BY <2>1, <2>2, <2>3 DEF ApplyFits, Applying, Stored
  <2> QED
    BY <1>1, <2>1, <2>3, <2>4, JobOnly DEF Applying, Owing
<1> QED
  BY <1>2, <1>3

LEMMA ImportMove ==
    ASSUME ImportInv, [ImportNext]_importVars
    PROVE  ImportInv'
<1>1. CASE (Desk \/ UNCHANGED bookVars) /\ UNCHANGED <<batch, importOnly>>
  <2>1. BookInv' /\ Grows /\ FilesStay
    BY <1>1, DeskStep, BookStays DEF ImportInv, bookVars, FilesStay
  <2>2. UNCHANGED <<batch, check, job, manager>>
    BY <1>1 DEF importOnly
  <2>3. ASSUME NEW b \in Batches PROVE ImportFits(b)'
    BY <2>1, <2>2, BatchStays DEF ImportInv
  <2>4. ASSUME NEW j \in Jobs PROVE ApplyFits(job[j])'
    <3>1. PICK k : k = job[j] /\ ApplyFits(k)
      BY DEF ImportInv
    <3>2. ApplyFits(k)'
      BY <2>1, <3>1, JobStays
    <3> QED
      BY <2>2, <3>1, <3>2 DEF ApplyFits
  <2> QED
    BY <2>1, <2>2, <2>3, <2>4 DEF ImportInv, ManagerFits, Stored
<1>2. ASSUME NEW b \in Batches, \/ Upload(b) \/ ScheduleCheck(b) \/ CheckStep(b)
                                \/ CheckFail(b) \/ CheckStall(b)
      PROVE  ImportInv'
  BY <1>2, UploadStep, CheckMoves, CheckWrites DEF CheckStep
<1>3. ASSUME NEW m \in Managers, Manage(m) \/ ConfirmDies(m)
      PROVE  ImportInv'
  BY <1>3, AskStep, ManagerWrites, ConfirmScheduleStep DEF Manage
<1>4. ASSUME NEW j \in Jobs, ApplyStep(j) \/ ApplyFail(j) \/ ApplyStall(j)
      PROVE  ImportInv'
  BY <1>4, ApplyStartStep, ApplyLookStep, ApplyCreateStep, ApplyMergeStep, ApplySaveStep,
     ApplyEndStep, ApplyRepriceStep, ApplyFaults DEF ApplyStep
<1> QED
  BY <1>1, <1>2, <1>3, <1>4 DEF ImportNext, importVars, importOnly

LEMMA ImportsKeep == ImportSpec => []ImportInv
  BY ImportStarts, ImportMove, PTL DEF ImportSpec

\* A debt has one contract, whatever imports, retries and requests race to
\* create it: the unique index on deduplicationKey, and the columns that
\* createOrUpdate, update and the application worker write with it.
THEOREM DebtsHaveOneContract == ImportSpec => []OneContractPerDebt
<1>1. ImportInv => OneContractPerDebt
  BY DEF ImportInv, BookInv, UniqueKeys, Blank, OneContractPerDebt, Live
<1> QED
  BY <1>1, ImportsKeep, PTL

\* The counters of an APPLIED batch whose jobs are done account for every
\* line, however often a job was retried or taken up again (application
\* worker: counters, progress and status).
THEOREM ImportsAddUp == ImportSpec => []CountsAddUp
<1>1. ImportInv => CountsAddUp
  BY DEF ImportInv, ImportFits, CountsAddUp, JobsOf, At, Owing, Sum
<1> QED
  BY <1>1, ImportsKeep, PTL

\* Every line an APPLIED batch applied has a row that is, or was, its debt.
THEOREM AppliedLinesLand == ImportSpec => []AppliedIsInTheBook
<1>1. ImportInv => AppliedIsInTheBook
  BY DEF ImportInv, ImportFits, AllLanded, Landed, AppliedIsInTheBook
<1> QED
  BY <1>1, ImportsKeep, PTL

-----------------------------------------------------------------------------
(***************************************************************************)
(* Types of the imports.                                                   *)
(***************************************************************************)

\* A batch that is stored has a file and a wallet.
BatchTyped(x) ==
    /\ x.status \in BatchStatuses
    /\ x # NoBatch => x.file \in Files /\ x.wallet \in Wallets

BudgetsTyped == managed \in 0 .. MaxManaged /\ troubles \in 0 .. MaxTroubles

ImportTyped ==
    /\ ImportInv /\ BookTyped /\ BudgetsTyped
    /\ \A b \in Batches : BatchTyped(batch[b])

\* The lines of a file that are applied: those that are sound, in order.
LEMMA LinesAre ==
    ASSUME NEW file \in Files
    PROVE  /\ LinesOf(file) \in Seq(Line)
           /\ \A n \in 1 .. Len(LinesOf(file)) :
                 \E i \in DOMAIN file : Applicable(file[i]) /\ LinesOf(file)[n] = file[i]
           /\ \A i \in DOMAIN file : Applicable(file[i]) =>
                 \E n \in 1 .. Len(LinesOf(file)) : LinesOf(file)[n] = file[i]
<1>1. PICK K : K = {i \in DOMAIN file : Applicable(file[i])}
  OBVIOUS
<1>2. file \in Seq(Line) /\ K \in SUBSET (DOMAIN file)
  BY <1>1, ImportAssumption
<1>3. LinesOf(file) = Chosen(file, K)
  BY <1>1 DEF LinesOf
<1>4. /\ Chosen(file, K) \in Seq(Line) /\ Len(Chosen(file, K)) = Cardinality(K)
      /\ \A n \in 1 .. Cardinality(K) :
            PlaceOf(K, n) \in K /\ Chosen(file, K)[n] = file[PlaceOf(K, n)]
  BY <1>2, ChosenFits
<1>5. ASSUME NEW i \in K PROVE \E n \in 1 .. Len(Chosen(file, K)) : Chosen(file, K)[n] = file[i]
  BY <1>2, ChosenKeeps
<1>6. PICK L : L = Chosen(file, K)
  OBVIOUS
<1>7. L \in Seq(Line)
  BY <1>4, <1>6
<1>8. ASSUME NEW n \in 1 .. Len(L)
      PROVE  \E i \in DOMAIN file : Applicable(file[i]) /\ L[n] = file[i]
  <2>1. n \in 1 .. Cardinality(K)
    BY <1>4, <1>6
  <2>2. PlaceOf(K, n) \in K /\ L[n] = file[PlaceOf(K, n)]
    BY <1>4, <1>6, <2>1
  <2> QED
    BY <1>1, <2>2
<1>9. ASSUME NEW i \in DOMAIN file, Applicable(file[i])
      PROVE  \E n \in 1 .. Len(L) : L[n] = file[i]
  <2>1. i \in K
    BY <1>1, <1>9
  <2> QED
    BY <1>5, <1>6, <2>1
<1>10. L = LinesOf(file)
  BY <1>3, <1>6
<1> QED
  BY <1>7, <1>8, <1>9, <1>10

\* A batch is written.
LEMMA BatchSet ==
    ASSUME ImportTyped, NEW b \in Batches, NEW x, BatchTyped(x),
           batch' = [batch EXCEPT ![b] = x], NEW c \in Batches
    PROVE  BatchTyped(batch'[c])
  BY DEF ImportTyped, ImportInv

\* What every step leaves of the batches: each is as it was, new, or has its
\* file and wallet and a status of the table's.
LEMMA BatchesTyped ==
    ASSUME ImportTyped, ImportNext, NEW c \in Batches
    PROVE  BatchTyped(batch[c])'
<1>0. BatchTyped(batch[c]) /\ \A b \in Batches : BatchTyped(batch[b])
  BY DEF ImportTyped
<1>1. SUFFICES BatchTyped(batch'[c])
  BY DEF BatchTyped
<1>2. CASE batch' = batch
  BY <1>0, <1>2
\* The status, or other columns too, of a stored batch.
<1>3. ASSUME NEW b, Stored(b), NEW s \in BatchStatuses,
             \/ batch' = [batch EXCEPT ![b].status = s]
             \/ \E n : batch' = [batch EXCEPT ![b].counts = n]
             \/ \E n : batch' = [batch EXCEPT ![b].counts = n, ![b].status = s]
             \/ \E n, m : batch' = [batch EXCEPT ![b].valid = n, ![b].invalid = m, ![b].status = s]
      PROVE  BatchTyped(batch'[c])
  <2>1. /\ b \in Batches /\ batch[b] # NoBatch /\ DOMAIN batch[b] = BatchFields
        /\ BatchTyped(batch[b]) /\ DOMAIN batch = Batches
    BY <1>0, <1>3 DEF Stored, ImportTyped, ImportInv, ImportFits
  <2>2. PICK x : x = batch'[b] /\ \A a \in Batches \ {b} : batch'[a] = batch[a]
    BY <1>3, <2>1
  <2>3. PICK row : row = batch[b] /\ DOMAIN row = BatchFields
    BY <2>1
  <2>4. \/ x = [row EXCEPT !.status = s]
        \/ \E n : x = [row EXCEPT !.counts = n]
        \/ \E n : x = [row EXCEPT !.counts = n, !.status = s]
        \/ \E n, m : x = [row EXCEPT !.valid = n, !.invalid = m, !.status = s]
    <3>1. CASE batch' = [batch EXCEPT ![b].status = s]
      BY <2>1, <2>2, <2>3, <3>1
    <3>2. CASE \E n : batch' = [batch EXCEPT ![b].counts = n]
      <4>1. PICK n : batch' = [batch EXCEPT ![b].counts = n]
        BY <3>2
      <4>2. x = [row EXCEPT !.counts = n]
        BY <2>1, <2>2, <2>3, <4>1
      <4> QED
        BY <4>2
    <3>3. CASE \E n : batch' = [batch EXCEPT ![b].counts = n, ![b].status = s]
      <4>1. PICK n : batch' = [batch EXCEPT ![b].counts = n, ![b].status = s]
        BY <3>3
      <4>2. x = [row EXCEPT !.counts = n, !.status = s]
        BY <2>1, <2>2, <2>3, <4>1
      <4> QED
        BY <4>2
    <3>4. CASE \E n, m : batch' = [batch EXCEPT ![b].valid = n, ![b].invalid = m, ![b].status = s]
      <4>1. PICK n, m : batch' = [batch EXCEPT ![b].valid = n, ![b].invalid = m, ![b].status = s]
        BY <3>4
      <4>2. x = [row EXCEPT !.valid = n, !.invalid = m, !.status = s]
        BY <2>1, <2>2, <2>3, <4>1
      <4> QED
        BY <4>2
    <3> QED
      BY <1>3, <3>1, <3>2, <3>3, <3>4
  <2>5. x.status \in {s, row.status} /\ x.file = row.file /\ x.wallet = row.wallet
    BY <2>3, <2>4 DEF BatchFields
  <2>6. BatchTyped(x)
    BY <1>3, <2>1, <2>3, <2>5 DEF BatchTyped
  <2> QED
    BY <1>0, <2>2, <2>6
<1>4. ASSUME NEW b \in Batches, Upload(b) PROVE BatchTyped(batch'[c])
  <2>1. PICK file \in Files, w \in Wallets :
          batch' = [batch EXCEPT ![b] = Uploaded("PENDING_VALIDATION", file, w)]
    BY <1>4 DEF Upload
  <2>2. BatchTyped(Uploaded("PENDING_VALIDATION", file, w))
    BY DEF BatchTyped, Uploaded, BatchStatuses, Cancellable
  <2> QED
    BY <2>1, <2>2, BatchSet
<1>5. ASSUME NEW b \in Batches, \/ ScheduleCheck(b) \/ CheckStep(b) \/ CheckFail(b)
                                \/ CheckStall(b)
      PROVE  BatchTyped(batch'[c])
  <2>1. CASE ScheduleCheck(b) \/ CheckLine(b) \/ CheckEnd(b) \/ CheckStall(b)
    BY <1>2, <2>1 DEF ScheduleCheck, CheckLine, CheckEnd, CheckStall
  <2>2. ASSUME check[b].at \in {"queued", "line", "ends", "keep", "grade"} PROVE Stored(b)
    BY <2>2 DEF ImportTyped, ImportInv, ImportFits, Stored, NoCheck
  <2>3. CASE CheckStart(b)
    BY <1>3, <2>2, <2>3 DEF CheckStart, Checking, BatchStatuses, Cancellable
  <2>4. CASE CheckWrite(b)
    <3>1. batch[b].status \in BatchStatuses /\ Stored(b)
      BY <1>0, <2>2, <2>4 DEF CheckWrite, BatchTyped
    <3>2. PICK s \in BatchStatuses : \E n, m :
            batch' = [batch EXCEPT ![b].valid = n, ![b].invalid = m, ![b].status = s]
      BY <2>4, <3>1 DEF CheckWrite, BatchStatuses, Cancellable
    <3> QED
      BY <1>3, <3>1, <3>2
  <2>5. CASE CheckFail(b)
    BY <1>3, <2>2, <2>5 DEF CheckFail, CheckRunning, BatchStatuses
  <2> QED
    BY <1>5, <2>1, <2>3, <2>4, <2>5 DEF CheckStep
<1>6. ASSUME NEW m \in Managers, Manage(m) \/ ConfirmDies(m) PROVE BatchTyped(batch'[c])
  <2>1. CASE CancelBatchRead(m) \/ ConfirmRead(m) \/ ConfirmSchedule(m) \/ ConfirmDies(m)
    BY <1>2, <2>1 DEF CancelBatchRead, ConfirmRead, Ask, ConfirmSchedule, ConfirmDies
  <2>2. ASSUME manager[m].at \in {"cancel", "confirm"} PROVE Stored(manager[m].batch)
    BY <2>2 DEF ImportTyped, ImportInv, ManagerFits, Idle
  <2>3. CASE CancelBatchWrite(m)
    BY <1>3, <2>2, <2>3 DEF CancelBatchWrite, BatchStatuses
  <2>4. CASE ConfirmWrite(m)
    BY <1>3, <2>2, <2>4 DEF ConfirmWrite, BatchStatuses
  <2> QED
    BY <1>6, <2>1, <2>3, <2>4 DEF Manage
<1>7. ASSUME NEW j \in Jobs, ApplyStep(j) \/ ApplyFail(j) \/ ApplyStall(j)
      PROVE  BatchTyped(batch'[c])
  <2>1. CASE ApplyStart(j) \/ ApplyLook(j) \/ ApplyCreate(j) \/ ApplyMerge(j)
             \/ ApplyReprice(j) \/ ApplyStall(j)
    BY <1>2, <2>1 DEF ApplyStart, ApplyLook, ApplyCreate, ApplyMerge, ApplyReprice, ApplyStall
  <2>2. ASSUME job[j].at \in Applying PROVE Stored(job[j].batch)
    BY <2>2 DEF ImportTyped, ImportInv, ApplyFits, Applying
  <2>3. CASE ApplySave(j)
    <3>1. Stored(job[j].batch) /\ "APPLIED" \in BatchStatuses
      BY <2>2, <2>3 DEF ApplySave, At, Applying, BatchStatuses
    <3> QED
      BY <1>3, <2>3, <3>1 DEF ApplySave
  <2>4. CASE ApplyEnd(j)
    <3>1. Stored(job[j].batch) /\ "APPLIED" \in BatchStatuses
      BY <2>2, <2>4 DEF ApplyEnd, At, Applying, BatchStatuses
    <3> QED
      BY <1>3, <2>4, <3>1 DEF ApplyEnd
  <2>5. CASE ApplyClash(j) \/ ApplyFail(j)
    <3>1. Stored(job[j].batch) /\ "FAILED" \in BatchStatuses
      BY <2>2, <2>5 DEF ApplyClash, ApplyFail, ApplyRunning, At, Applying, BatchStatuses
    <3>2. batch' = batch \/ batch' = [batch EXCEPT ![job[j].batch].status = "FAILED"]
      BY <2>5 DEF ApplyClash, ApplyFail, GiveUp
    <3> QED
      BY <1>2, <1>3, <3>1, <3>2
  <2> QED
    BY <1>7, <2>1, <2>3, <2>4, <2>5 DEF ApplyStep
<1>8. CASE Desk /\ UNCHANGED <<batch, importOnly>>
  BY <1>2, <1>8
<1> QED
  BY <1>4, <1>5, <1>6, <1>7, <1>8 DEF ImportNext

\* A line that is being applied, and the wallet it goes to.
LEMMA LineTyped ==
    ASSUME ImportTyped, NEW j \in Jobs, job[j].at \in {"create", "merge"}
    PROVE  JobLine(j) \in Line /\ Wallet(j) \in Wallets
<1>1. PICK k : k = job[j]
  OBVIOUS
<1>2. /\ Stored(k.batch) /\ k.next \in Nat \ {0} /\ k.next <= Len(ToApply(k.batch))
  BY <1>1 DEF ImportTyped, ImportInv, ApplyFits, Applying, LinesFit
<1>3. PICK file \in Files : file = batch[k.batch].file /\ Wallet(j) \in Wallets
  BY <1>1, <1>2 DEF ImportTyped, BatchTyped, Stored, Wallet
<1>4. PICK lines : lines = LinesOf(file) /\ lines \in Seq(Line)
  BY LinesAre
<1>5. JobLine(j) = lines[k.next] /\ k.next \in 1 .. Len(lines)
  BY <1>1, <1>2, <1>3, <1>4 DEF JobLine, JobFile, ToApply
<1> QED
  BY <1>3, <1>4, <1>5

\* What an import makes of a row is a row.
LEMMA MergedTyped ==
    ASSUME NEW row \in ContractRow, NEW seen, NEW line \in Line, NEW wallet \in Wallets
    PROVE  Merged(row, seen, line, wallet) \in ContractRow
<1>1. PICK t \in Terms, d \in Debts : t = line.terms /\ d = line.debt
  BY DEF Line
<1>2. PICK o \in Offers : o = Offer(wallet, line.terms)
  BY <1>1, OfferTyped
<1>3. PICK s \in Statuses : s = IF seen.status = "SUSPENDED" THEN "ACTIVE" ELSE row.status
  BY RowTyped, StatusesAre
<1>4. PICK y : y = [row EXCEPT !.wallet = wallet, !.terms = t, !.offer = o, !.debt = d,
                               !.key = d, !.debts = row.debts \cup {d}]
  OBVIOUS
<1>5. y \in ContractRow
  BY <1>4, RowTyped
<1>6. [y EXCEPT !.status = s] \in ContractRow /\ [row EXCEPT !.status = s] \in ContractRow
  BY <1>5, RowTyped
<1>7. PICK x : x = Merged(row, seen, line, wallet)
  OBVIOUS
<1>8. x = y \/ x = [y EXCEPT !.status = s] \/ x = [row EXCEPT !.status = s]
  BY <1>1, <1>2, <1>3, <1>4, <1>7 DEF Merged
<1> QED
  BY <1>5, <1>6, <1>7, <1>8

\* The steps of the imports write rows.
LEMMA ImportBookTyped ==
    ASSUME ImportTyped, ImportNext
    PROVE  BookTyped'
<1>0. BookTyped /\ \A r \in Rows : book[r] \in ContractRow
  BY DEF ImportTyped, BookTyped
\* Only the book may change.
<1>1. ASSUME UNCHANGED <<clerk, served>>, book' \in [Rows -> ContractRow] PROVE BookTyped'
  BY <1>0, <1>1 DEF BookTyped
<1>2. CASE UNCHANGED bookVars
  BY <1>0, <1>2 DEF BookTyped, bookVars
<1>3. ASSUME NEW j \in Jobs, ApplyCreate(j) PROVE BookTyped'
  <2>1. PICK line \in Line, wallet \in Wallets : line = JobLine(j) /\ wallet = Wallet(j)
    BY <1>3, LineTyped DEF ApplyCreate, At
  <2>2. line.debt \in Debts /\ line.terms \in Terms /\ Create(wallet, line.debt, line.terms)
    BY <1>3, <2>1 DEF ApplyCreate, Line
  <2>3. book' \in [Rows -> ContractRow]
    BY <1>0, <2>2, CreateTyped
  <2> QED
    BY <1>1, <1>3, <2>3 DEF ApplyCreate, JobsOnly
<1>4. ASSUME NEW j \in Jobs, ApplyMerge(j) PROVE BookTyped'
  <2>1. PICK line \in Line, wallet \in Wallets : line = JobLine(j) /\ wallet = Wallet(j)
    BY <1>4, LineTyped DEF ApplyMerge, At
  <2>2. PICK r \in job[j].row :
          book' = IF Untouched(job[j].seen, line, wallet) THEN book
                  ELSE [book EXCEPT ![r] = Merged(book[r], job[j].seen, line, wallet)]
    BY <1>4, <2>1 DEF ApplyMerge
  <2>3. r \in Rows
    BY <1>4, <2>2 DEF ApplyMerge, At, ImportTyped, ImportInv, ApplyFits, Applying, LinesFit, InUse
  <2>4. Merged(book[r], job[j].seen, line, wallet) \in ContractRow
    BY <1>0, <2>1, <2>3, MergedTyped
  <2>5. book' \in [Rows -> ContractRow]
    BY <1>0, <2>2, <2>3, <2>4, BookSet DEF BookTyped
  <2> QED
    BY <1>1, <1>4, <2>5 DEF ApplyMerge, JobsOnly
<1>5. ASSUME NEW j \in Jobs, ApplyReprice(j) PROVE BookTyped'
  <2>1. ASSUME NEW r \in Rows
        PROVE  book'[r] \in ContractRow
    <3>1. PICK o \in Offers : o = Offer(book[r].wallet, book[r].terms)
      BY <1>0, RowTyped, OfferTyped
    <3>2. [book[r] EXCEPT !.offer = o] \in ContractRow
      BY <1>0, RowTyped
    <3>3. book'[r] \in {book[r], [book[r] EXCEPT !.offer = o]}
      BY <1>5, <3>1 DEF ApplyReprice
    <3> QED
      BY <1>0, <3>2, <3>3
  <2>2. book' = [r \in Rows |-> book'[r]]
    BY <1>5 DEF ApplyReprice
  <2>3. book' \in [Rows -> ContractRow]
    BY <2>1, <2>2
  <2> QED
    BY <1>1, <1>5, <2>3 DEF ApplyReprice, JobsOnly
<1>6. ASSUME NEW j \in Jobs, \/ ApplyStart(j) \/ ApplyLook(j) \/ ApplySave(j) \/ ApplyEnd(j)
                             \/ ApplyClash(j) \/ ApplyFail(j) \/ ApplyStall(j)
      PROVE  BookTyped'
  BY <1>2, <1>6 DEF ApplyStart, ApplyLook, ApplySave, ApplyEnd, ApplyClash, ApplyFail,
                    ApplyStall, GiveUp, JobsOnly, bookVars
<1>7. ASSUME NEW b \in Batches, \/ Upload(b) \/ ScheduleCheck(b) \/ CheckStep(b) \/ CheckFail(b)
                                \/ CheckStall(b)
      PROVE  BookTyped'
  BY <1>2, <1>7 DEF Upload, ScheduleCheck, CheckStep, CheckStart, CheckLine, CheckEnd,
                    CheckWrite, CheckFail, CheckStall
<1>8. ASSUME NEW m \in Managers, Manage(m) \/ ConfirmDies(m) PROVE BookTyped'
  BY <1>2, <1>8 DEF Manage, ConfirmDies, CancelBatchRead, CancelBatchWrite, ConfirmRead,
                    ConfirmWrite, ConfirmSchedule, Ask
<1>9. CASE Desk
  BY <1>0, <1>9, DeskTyped
<1> QED
  BY <1>3, <1>4, <1>5, <1>6, <1>7, <1>8, <1>9 DEF ImportNext, ApplyStep

LEMMA BudgetsMove ==
    ASSUME ImportTyped, ImportNext
    PROVE  BudgetsTyped'
<1>0. BudgetsTyped /\ MaxManaged \in Nat /\ MaxTroubles \in Nat
  BY ImportAssumption DEF ImportTyped
<1>1. CASE UNCHANGED <<managed, troubles>>
  BY <1>0, <1>1 DEF BudgetsTyped
<1>2. CASE Trouble /\ UNCHANGED managed
  BY <1>0, <1>2 DEF BudgetsTyped, Trouble
<1>3. ASSUME NEW m \in Managers, NEW what, NEW b, Ask(m, what, b) PROVE BudgetsTyped'
  BY <1>0, <1>3 DEF BudgetsTyped, Ask
<1>4. ASSUME NEW j \in Jobs, ApplyStep(j) \/ ApplyFail(j) \/ ApplyStall(j) PROVE BudgetsTyped'
  BY <1>1, <1>2, <1>4 DEF ApplyStep, ApplyStart, ApplyLook, ApplyCreate, ApplyMerge, ApplySave,
       ApplyEnd, ApplyReprice, ApplyClash, ApplyFail, ApplyStall, JobsOnly, GiveUp
<1>5. ASSUME NEW b \in Batches, \/ Upload(b) \/ ScheduleCheck(b) \/ CheckStep(b) \/ CheckFail(b)
                                \/ CheckStall(b)
      PROVE  BudgetsTyped'
  BY <1>1, <1>2, <1>5 DEF Upload, ScheduleCheck, CheckStep, CheckStart, CheckLine, CheckEnd,
                    CheckWrite, CheckFail, CheckStall, importOnly
<1>6. ASSUME NEW m \in Managers, Manage(m) \/ ConfirmDies(m) PROVE BudgetsTyped'
  BY <1>1, <1>2, <1>3, <1>6 DEF Manage, ConfirmDies, CancelBatchRead, CancelBatchWrite,
                    ConfirmRead, ConfirmWrite, ConfirmSchedule
<1>7. CASE Desk /\ UNCHANGED <<batch, importOnly>>
  BY <1>1, <1>7 DEF importOnly
<1> QED
  BY <1>4, <1>5, <1>6, <1>7 DEF ImportNext

LEMMA ImportTypedStarts == ImportInit => ImportTyped
<1> SUFFICES ASSUME ImportInit PROVE ImportTyped
  OBVIOUS
<1> USE DEF ImportInit, ImportQueues
<1>1. BookTyped
  BY NoContractTyped DEF BookTyped, ClerkTyped, Idle
<1>2. ASSUME NEW b \in Batches PROVE BatchTyped(batch[b])
  BY DEF BatchTyped, NoBatch, Uploaded, BatchStatuses, Cancellable
<1> QED
  BY <1>1, <1>2, ImportStarts DEF ImportTyped, BudgetsTyped

LEMMA ImportTypedMove ==
    ASSUME ImportTyped, [ImportNext]_importVars
    PROVE  ImportTyped'
<1>1. ImportInv'
  BY ImportMove DEF ImportTyped
<1>2. CASE ImportNext
  BY <1>1, <1>2, ImportBookTyped, BudgetsMove, BatchesTyped DEF ImportTyped
<1>3. CASE UNCHANGED importVars
  BY <1>1, <1>3 DEF importVars, importOnly, bookVars, ImportTyped, BookTyped, BudgetsTyped,
                    BatchTyped, ClerkTyped
<1> QED
  BY <1>2, <1>3

LEMMA ImportsFit == ImportTyped => ImportTypeOK
  BY DEF ImportTyped, ImportTypeOK, BookTyped, BudgetsTyped, BatchTyped, ImportInv, ApplyFits,
         Stored

\* The contract rows, the batches and the jobs hold what their columns may.
THEOREM ImportsAreTyped == ImportSpec => []ImportTypeOK
  BY ImportTypedStarts, ImportTypedMove, ImportsFit, PTL DEF ImportSpec

\* Every sound line of an APPLIED batch's file, not only every line its job
\* went through, has a row that is, or was, its debt: the job's query leaves
\* no sound line out, and neither a retry nor a stall skips one.
SoundLineLands ==
    \A b \in Batches : batch[b].status = "APPLIED" =>
       \A i \in DOMAIN batch[b].file :
          Applicable(batch[b].file[i]) => Landed(batch[b].file[i].debt)

THEOREM SoundLinesLand == ImportSpec => []SoundLineLands
<1>1. ASSUME ImportTyped PROVE SoundLineLands
  <2> SUFFICES ASSUME NEW b \in Batches, batch[b].status = "APPLIED",
                      NEW i \in DOMAIN batch[b].file, Applicable(batch[b].file[i])
               PROVE  Landed(batch[b].file[i].debt)
    BY DEF SoundLineLands
  <2>1. batch[b].file \in Files
    BY <1>1 DEF ImportTyped, BatchTyped, NoBatch
  <2>2. PICK n \in 1 .. Len(LinesOf(batch[b].file)) :
           LinesOf(batch[b].file)[n] = batch[b].file[i]
    BY <2>1, LinesAre
  <2>3. AllLanded(b) /\ ToApply(b) = LinesOf(batch[b].file)
    BY <1>1 DEF ImportTyped, ImportInv, ImportFits, ToApply
  <2> QED
    BY <2>2, <2>3 DEF AllLanded
<1> QED
  BY <1>1, ImportTypedStarts, ImportTypedMove, PTL DEF ImportSpec

-----------------------------------------------------------------------------
(***************************************************************************)
(* Removals.                                                               *)
(***************************************************************************)

\* A list of contracts.
Listed(l) == l \in Seq(Rows) /\ Len(l) \in Nat /\ DOMAIN l = 1 .. Len(l)

\* The first n contracts of a list are cancelled by b.
StruckTo(b, list, n) == n \in Nat /\ \A i \in DOMAIN list : i <= n => list[i] \in struck[b]

Sifting == {"queued", "resolve", "write"}
SiftFits(k) ==
    /\ k.at \in {"none", "lost", "done", "ack"} \cup Sifting
    /\ k.at = "none" => k = NoSift
    /\ k.at \in {"queued", "resolve", "ack"} =>
         k = [at |-> k.at, tries |-> k.tries, stalls |-> k.stalls]
    /\ k.at \in {"ack"} \cup Sifting => k.stalls \in Nat
    /\ k.at = "write" => Listed(k.list)

LetterFits(l) ==
    /\ l = [status |-> l.status, letter |-> l.letter, list |-> l.list, done |-> l.done,
            reread |-> l.reread]
    /\ l.status # "NONE" /\ l.reread \in BOOLEAN /\ l.letter \in Letters /\ Listed(l.list)

\* No list of b is stored yet, and the next one will be its first.
Fresh(b) == sift[b] = NoSift \/ (sift[b].at \in Sifting /\ sift[b].stalls = 0)

\* Nobody has approved b.
Alone(b) == /\ \A j \in Strikes : strike[j] # NoStrike => strike[j].batch # b
            /\ \A a \in Approvers : approver[a] # Idle => approver[a].batch # b

\* The progress of b, and that it is COMPLETED, tell what was cancelled.
Progressed(b) ==
    ~removal[b].reread =>
       /\ StruckTo(b, removal[b].list, removal[b].done)
       /\ removal[b].status = "COMPLETED"
            => StruckTo(b, removal[b].list, Len(removal[b].list))

RemovalFits(b) ==
    /\ removal[b] = NoLetter => sift[b] = NoSift /\ Alone(b)
    /\ removal[b] # NoLetter =>
         /\ LetterFits(removal[b]) /\ Progressed(b)
         /\ Fresh(b) => /\ Alone(b) /\ removal[b].done = 0
                        /\ removal[b].status \notin {"READY", "COMPLETED"}

Striking == {"read", "cancel", "save"}
StrikeFits(k) ==
    /\ k.at \in {"none", "queued", "done", "lost"} \cup Striking
    /\ k.at = "none" => k = NoStrike
    /\ k.at \in Striking =>
         k = [at |-> k.at, tries |-> k.tries, stalls |-> k.stalls, batch |-> k.batch,
              list |-> k.list, count |-> k.count]
    /\ k.at # "none" => k.batch \in Removals

\* A job works on the list of its batch, and has cancelled what it has counted.
StrikeTells(k) ==
    (k.at \in Striking /\ ~removal[k.batch].reread)
      => k.list = removal[k.batch].list /\ StruckTo(k.batch, k.list, k.count)

RemovalInv ==
    /\ DOMAIN removal = Removals /\ DOMAIN sift = Removals /\ DOMAIN strike = Strikes
    /\ DOMAIN approver = Approvers /\ DOMAIN struck = Removals
    /\ \A b \in Removals : RemovalFits(b) /\ SiftFits(sift[b])
    /\ \A j \in Strikes : StrikeFits(strike[j]) /\ StrikeTells(strike[j])
    /\ \A a \in Approvers :
          approver[a] # Idle =>
             /\ approver[a].at \in {"confirm", "schedule"}
             /\ approver[a] = [at |-> approver[a].at, batch |-> approver[a].batch]
             /\ approver[a].batch \in Removals

\* What was cancelled stays on the record.
Kept1 == DOMAIN struck' = Removals /\ \A b \in Removals : struck[b] \subseteq struck'[b]

LEMMA StruckStays ==
    ASSUME Kept1, NEW b \in Removals, NEW list, NEW n, StruckTo(b, list, n)
    PROVE  StruckTo(b, list, n)'
  BY DEF Kept1, StruckTo

\* A batch nobody moves, but for approvals that go away.
LEMMA OtherBatch ==
    ASSUME Kept1, NEW b \in Removals, RemovalFits(b),
           removal'[b] = removal[b], sift'[b] = sift[b], Alone(b) => Alone(b)'
    PROVE  RemovalFits(b)'
<1>1. Fresh(b)' <=> Fresh(b)
  BY DEF Fresh
<1>2. removal[b] # NoLetter => Progressed(b)'
  <2> SUFFICES ASSUME removal[b] # NoLetter, ~removal[b].reread
               PROVE  /\ StruckTo(b, removal[b].list, removal[b].done)'
                      /\ removal[b].status = "COMPLETED"
                            => StruckTo(b, removal[b].list, Len(removal[b].list))'
    BY DEF Progressed
  <2>1. /\ StruckTo(b, removal[b].list, removal[b].done)
        /\ removal[b].status = "COMPLETED"
              => StruckTo(b, removal[b].list, Len(removal[b].list))
    BY DEF RemovalFits, Progressed
  <2> QED
    BY <2>1 DEF Kept1, StruckTo
<1> QED
  BY <1>1, <1>2 DEF RemovalFits

\* A job nobody moves, whose batch keeps its list or is checked again.
LEMMA OtherJob ==
    ASSUME Kept1, NEW k, StrikeFits(k), StrikeTells(k),
           k.at \in Striking =>
              \/ removal'[k.batch].reread = TRUE
              \/ /\ removal'[k.batch].reread = removal[k.batch].reread
                 /\ removal'[k.batch].list = removal[k.batch].list
    PROVE  StrikeTells(k)'
<1> SUFFICES ASSUME k.at \in Striking, ~removal'[k.batch].reread
             PROVE  k.list = removal'[k.batch].list /\ StruckTo(k.batch, k.list, k.count)'
  BY DEF StrikeTells
<1>1. k.batch \in Removals
  BY DEF StrikeFits, Striking
<1>2. k.list = removal'[k.batch].list /\ StruckTo(k.batch, k.list, k.count)
  BY DEF StrikeTells
<1> QED
  BY <1>1, <1>2 DEF Kept1, StruckTo

LEMMA RemovalStarts == RemovalInit => RemovalInv
<1> SUFFICES ASSUME RemovalInit PROVE RemovalInv
  OBVIOUS
<1> USE DEF RemovalInit, RemovalQueues
<1>1. ASSUME NEW b \in Removals PROVE RemovalFits(b) /\ SiftFits(sift[b])
  BY DEF RemovalFits, SiftFits, Sifting, Alone, NoSift
<1>2. ASSUME NEW j \in Strikes PROVE StrikeFits(strike[j]) /\ StrikeTells(strike[j])
  BY DEF StrikeFits, StrikeTells, Striking, NoStrike
<1> QED
  BY <1>1, <1>2 DEF RemovalInv

-----------------------------------------------------------------------------
(* A batch is written: its status or its progress, not its list.           *)

LEMMA BatchWritten ==
    ASSUME RemovalInv, NEW b \in Removals, removal[b] # NoLetter,
           NEW l, LetterFits(l), l.list = removal[b].list, l.reread = removal[b].reread,
           removal' = [removal EXCEPT ![b] = l], UNCHANGED struck,
           DOMAIN sift' = Removals, \A c \in Removals \ {b} : sift'[c] = sift[c],
           SiftFits(sift'[b]),
           \A c \in Removals : Alone(c) => Alone(c)',
           Fresh(b)' => Fresh(b) /\ l.done = 0 /\ l.status \notin {"READY", "COMPLETED"},
           ~l.reread => /\ StruckTo(b, l.list, l.done)
                        /\ l.status = "COMPLETED" => StruckTo(b, l.list, Len(l.list))
    PROVE  /\ DOMAIN removal' = Removals
           /\ \A c \in Removals : RemovalFits(c)' /\ SiftFits(sift'[c])
           /\ \A j \in Strikes : strike'[j] = strike[j]
                => StrikeFits(strike[j])' /\ StrikeTells(strike[j])'
<1>1. /\ DOMAIN removal' = Removals /\ removal'[b] = l /\ Kept1
      /\ \A c \in Removals \ {b} : removal'[c] = removal[c]
  BY DEF RemovalInv, Kept1
<1>2. RemovalFits(b)'
  <2>1. l # NoLetter /\ LetterFits(removal'[b])
    BY <1>1 DEF LetterFits, NoLetter
  <2>2. Progressed(b)'
    BY <1>1 DEF Progressed, StruckTo
  <2>3. Fresh(b)' => Alone(b)'
    BY DEF RemovalInv, RemovalFits
  <2> QED
    BY <1>1, <2>1, <2>2, <2>3 DEF RemovalFits
<1>3. ASSUME NEW c \in Removals \ {b} PROVE RemovalFits(c)'
  BY <1>1, OtherBatch DEF RemovalInv
<1>4. \A c \in Removals : SiftFits(sift'[c])
  BY DEF RemovalInv
<1>5. ASSUME NEW j \in Strikes, strike'[j] = strike[j]
      PROVE  StrikeFits(strike[j])' /\ StrikeTells(strike[j])'
  <2>1. PICK k : k = strike[j]
    OBVIOUS
  <2>2. StrikeFits(k) /\ StrikeTells(k)
    BY <2>1 DEF RemovalInv
  <2>3. k.at \in Striking => k.batch \in Removals
    BY <2>2 DEF StrikeFits, Striking
  <2>4. k.at \in Striking => /\ removal'[k.batch].reread = removal[k.batch].reread
                             /\ removal'[k.batch].list = removal[k.batch].list
    BY <1>1, <2>3
  <2>5. StrikeTells(k)'
    BY <1>1, <2>2, <2>4, OtherJob
  <2>6. strike'[j] = k
    BY <1>5, <2>1
  <2> QED
    BY <2>2, <2>5, <2>6 DEF StrikeTells
<1> QED
  BY <1>1, <1>2, <1>3, <1>4, <1>5

-----------------------------------------------------------------------------
(* Only the validation moves, or only a job.                               *)

LEMMA SiftMoves ==
    ASSUME RemovalInv, NEW b \in Removals, removal[b] # NoLetter,
           NEW k, SiftFits(k), sift' = [sift EXCEPT ![b] = k],
           UNCHANGED <<removal, strike, approver, struck>>,
           Fresh(b)' => Fresh(b)
    PROVE  RemovalInv'
<1>1. Kept1 /\ \A c \in Removals : Alone(c)' <=> Alone(c)
  BY DEF Kept1, RemovalInv, Alone
<1>2. ASSUME NEW c \in Removals PROVE RemovalFits(c)' /\ SiftFits(sift[c])'
  <2>1. CASE c = b
    <3>1. sift'[b] = k /\ Progressed(b)' /\ LetterFits(removal[b])
      BY DEF RemovalInv, RemovalFits, Progressed, StruckTo
    <3> QED
      BY <1>1, <2>1, <3>1 DEF RemovalInv, RemovalFits
  <2>2. CASE c # b
    BY <1>1, <2>2, OtherBatch DEF RemovalInv
  <2> QED
    BY <2>1, <2>2
<1>3. ASSUME NEW j \in Strikes PROVE StrikeFits(strike[j])' /\ StrikeTells(strike[j])'
  BY DEF RemovalInv, StrikeTells, StruckTo
<1> QED
  BY <1>2, <1>3 DEF RemovalInv

LEMMA StrikeMoves ==
    ASSUME RemovalInv, NEW j \in Strikes, strike[j] # NoStrike,
           NEW k, StrikeFits(k), k.batch = strike[j].batch, StrikeTells(k)',
           strike' = [strike EXCEPT ![j] = k], Kept1,
           UNCHANGED <<removal, sift, approver>>
    PROVE  RemovalInv'
<1>1. \A c \in Removals : Alone(c) => Alone(c)'
  BY DEF RemovalInv, Alone
<1>2. ASSUME NEW c \in Removals PROVE RemovalFits(c)' /\ SiftFits(sift[c])'
  BY <1>1, OtherBatch DEF RemovalInv
<1>3. ASSUME NEW i \in Strikes PROVE StrikeFits(strike[i])' /\ StrikeTells(strike[i])'
  <2>1. CASE i = j
    <3>1. strike'[i] = k
      BY <2>1 DEF RemovalInv
    <3> QED
      BY <3>1 DEF StrikeTells
  <2>2. CASE i # j
    <3>1. PICK l : l = strike[i] /\ strike'[i] = l
      BY <2>2
    <3>2. StrikeTells(l)'
      BY <3>1, OtherJob DEF RemovalInv
    <3> QED
      BY <3>1, <3>2 DEF RemovalInv, StrikeTells
  <2> QED
    BY <2>1, <2>2
<1> QED
  BY <1>2, <1>3 DEF RemovalInv, Kept1

\* A job writes its batch and goes on.
LEMMA BothMove ==
    ASSUME RemovalInv, NEW j \in Strikes, strike[j].at \in Striking,
           NEW k, StrikeFits(k), k.at \notin Striking \/ k.at = "read",
           k.batch = strike[j].batch,
           k.at = "read" => k.list = strike[j].list /\ k.count = strike[j].count,
           strike' = [strike EXCEPT ![j] = k],
           NEW l, removal' = [removal EXCEPT ![k.batch] = l],
           \/ l = [removal[k.batch] EXCEPT !.done = strike[j].count]
           \/ l = [removal[k.batch] EXCEPT !.status = "FAILED", !.done = strike[j].count]
           \/ /\ l = [removal[k.batch] EXCEPT !.status = "COMPLETED", !.done = strike[j].count]
              /\ strike[j].count >= Len(strike[j].list),
           UNCHANGED <<sift, approver, struck>>
    PROVE  RemovalInv'
<1> DEFINE b == k.batch
<1>1. /\ b \in Removals /\ removal[b] # NoLetter /\ LetterFits(removal[b]) /\ ~Fresh(b)
      /\ strike[j] # NoStrike /\ strike[j].batch = b
  BY DEF RemovalInv, StrikeFits, Striking, RemovalFits, Alone, NoStrike
<1>2. /\ l.list = removal[b].list /\ l.reread = removal[b].reread /\ LetterFits(l)
      /\ l.done = strike[j].count
  BY <1>1 DEF LetterFits
<1>3. ~l.reread => /\ StruckTo(b, l.list, l.done)
                   /\ l.status = "COMPLETED" => StruckTo(b, l.list, Len(l.list))
  <2> SUFFICES ASSUME ~l.reread
               PROVE  /\ StruckTo(b, l.list, l.done)
                      /\ l.status = "COMPLETED" => StruckTo(b, l.list, Len(l.list))
    OBVIOUS
  <2>1. strike[j].list = l.list /\ StruckTo(b, l.list, l.done) /\ Listed(l.list)
    BY <1>1, <1>2 DEF RemovalInv, StrikeTells, LetterFits
  <2>2. CASE l.status = "COMPLETED" /\ strike[j].count >= Len(strike[j].list)
    <3>1. /\ l.done \in Nat /\ \A i \in DOMAIN l.list : i <= l.done => l.list[i] \in struck[b]
          /\ l.done >= Len(l.list) /\ Len(l.list) \in Nat /\ DOMAIN l.list = 1 .. Len(l.list)
      BY <1>2, <2>1, <2>2 DEF StruckTo, Listed
    <3> QED
      BY <2>1, <3>1 DEF StruckTo
  <2>3. CASE l.status = removal[b].status
    BY <1>1, <1>2, <2>1, <2>3 DEF RemovalInv, RemovalFits, Progressed
  <2>4. CASE l.status = "FAILED"
    BY <2>1, <2>4
  <2>5. \/ l.status = removal[b].status
        \/ l.status = "FAILED"
        \/ l.status = "COMPLETED" /\ strike[j].count >= Len(strike[j].list)
    BY <1>1 DEF LetterFits
  <2> QED
    BY <2>1, <2>2, <2>3, <2>4, <2>5
<1>4. /\ removal' = [removal EXCEPT ![b] = l]
      /\ \A c \in Removals : Alone(c) => Alone(c)'
      /\ SiftFits(sift'[b]) /\ ~Fresh(b)' /\ DOMAIN sift' = Removals
  BY <1>1 DEF RemovalInv, Alone, Fresh
<1> HIDE DEF b
<1>5. /\ DOMAIN removal' = Removals
      /\ \A c \in Removals : RemovalFits(c)' /\ SiftFits(sift'[c])
      /\ \A i \in Strikes : strike'[i] = strike[i]
           => StrikeFits(strike[i])' /\ StrikeTells(strike[i])'
  BY <1>1, <1>2, <1>3, <1>4, BatchWritten
<1>6. StrikeFits(strike[j])' /\ StrikeTells(strike[j])'
  <2>1. strike'[j] = k /\ removal'[b] = l
    BY <1>1, <1>4 DEF RemovalInv
  <2>2. CASE k.at = "read"
    <3>1. strike[j].list = removal[b].list \/ l.reread
      BY <1>1, <1>2 DEF RemovalInv, StrikeTells, LetterFits
    <3>2. ~l.reread => k.list = l.list /\ StruckTo(b, k.list, k.count)
      BY <1>2, <1>3, <2>2, <3>1 DEF LetterFits
    <3> QED
      BY <2>1, <3>2 DEF StrikeTells, StruckTo, b
  <2>3. CASE k.at \notin Striking
    BY <2>1, <2>3 DEF StrikeTells
  <2> QED
    BY <2>2, <2>3
<1> QED
  BY <1>5, <1>6 DEF RemovalInv

-----------------------------------------------------------------------------
(* The steps.                                                              *)

LEMMA PreviewStep ==
    ASSUME RemovalInv, NEW b \in Removals, Preview(b)
    PROVE  RemovalInv'
<1>1. PICK f \in Letters :
        removal' = [removal EXCEPT ![b] =
           [status |-> "PENDING", letter |-> f, list |-> << >>, done |-> 0, reread |-> FALSE]]
  BY DEF Preview
<1>2. removal[b] = NoLetter /\ sift[b] = NoSift /\ Alone(b)
  BY DEF Preview, RemovalInv, RemovalFits
<1>3. Kept1 /\ \A c \in Removals : Alone(c) => Alone(c)'
  BY DEF Preview, Kept1, RemovalInv, Alone
<1>4. /\ removal'[b] = [status |-> "PENDING", letter |-> f, list |-> << >>, done |-> 0,
                        reread |-> FALSE]
      /\ \A c \in Removals \ {b} : removal'[c] = removal[c]
  BY <1>1 DEF RemovalInv
<1>5. RemovalFits(b)'
  <2>1. LetterFits(removal'[b]) /\ removal'[b] # NoLetter
    BY <1>4 DEF LetterFits, Listed, NoLetter
  <2>2. Progressed(b)'
    BY <1>4 DEF Progressed, StruckTo
  <2> QED
    BY <1>2, <1>3, <1>4, <2>1, <2>2 DEF RemovalFits
<1>6. ASSUME NEW c \in Removals PROVE RemovalFits(c)' /\ SiftFits(sift[c])'
  BY <1>3, <1>4, <1>5, OtherBatch DEF Preview, RemovalInv
<1>7. ASSUME NEW j \in Strikes PROVE StrikeFits(strike[j])' /\ StrikeTells(strike[j])'
  <2>1. PICK k : k = strike[j]
    OBVIOUS
  <2>2. StrikeFits(k) /\ StrikeTells(k) /\ (k.at \in Striking => k.batch # b /\ k.batch \in Removals)
    BY <1>2, <2>1 DEF RemovalInv, Alone, StrikeFits, Striking, NoStrike
  <2>3. StrikeTells(k)'
    BY <1>3, <1>4, <2>2, OtherJob
  <2> QED
    BY <2>1, <2>2, <2>3 DEF Preview, StrikeTells
<1> QED
  BY <1>1, <1>6, <1>7 DEF Preview, RemovalInv

LEMMA ScheduleStep ==
    ASSUME RemovalInv, NEW b \in Removals, ScheduleSift(b)
    PROVE  RemovalInv'
<1>1. removal[b] # NoLetter
  BY DEF ScheduleSift, NoLetter
<1>2. SiftFits([at |-> "queued", tries |-> 0, stalls |-> 0])
  BY DEF SiftFits, Sifting
<1> QED
  BY <1>1, <1>2, SiftMoves DEF ScheduleSift, Fresh

LEMMA ApproveReadStep ==
    ASSUME RemovalInv, NEW a \in Approvers, ApproveRead(a)
    PROVE  RemovalInv'
<1>1. PICK b \in Removals : /\ removal[b].status = "READY"
                            /\ approver' = [approver EXCEPT ![a] = [at |-> "confirm", batch |-> b]]
  BY DEF ApproveRead
<1>2. removal[b] # NoLetter /\ ~Fresh(b)
  BY <1>1 DEF RemovalInv, RemovalFits, NoLetter
<1>3. \A c \in Removals \ {b} : Alone(c) => Alone(c)'
  BY <1>1 DEF ApproveRead, Alone, RemovalInv
<1>4. Kept1
  BY DEF ApproveRead, Kept1, RemovalInv
<1>5. ASSUME NEW c \in Removals PROVE RemovalFits(c)' /\ SiftFits(sift[c])'
  <2>1. CASE c = b
    <3>1. LetterFits(removal[b])' /\ Progressed(b)' /\ ~Fresh(b)'
      BY <1>2 DEF ApproveRead, RemovalInv, RemovalFits, Progressed, StruckTo, Fresh
    <3> QED
      BY <1>2, <2>1, <3>1 DEF ApproveRead, RemovalInv, RemovalFits
  <2>2. CASE c # b
    BY <1>3, <1>4, <2>2, OtherBatch DEF ApproveRead, RemovalInv
  <2> QED
    BY <2>1, <2>2
<1>6. ASSUME NEW j \in Strikes PROVE StrikeFits(strike[j])' /\ StrikeTells(strike[j])'
  BY DEF ApproveRead, RemovalInv, StrikeTells, StruckTo
<1> QED
  BY <1>1, <1>5, <1>6 DEF ApproveRead, RemovalInv

LEMMA ApproveWriteStep ==
    ASSUME RemovalInv, NEW a \in Approvers, ApproveWrite(a)
    PROVE  RemovalInv'
<1>a. PICK b : b = approver[a].batch
  OBVIOUS
<1>b. PICK l : l = [removal[b] EXCEPT !.status = "APPLYING"]
  OBVIOUS
<1>1. approver[a] # Idle
  BY DEF ApproveWrite, Idle
<1>2. b \in Removals /\ removal[b] # NoLetter /\ LetterFits(removal[b]) /\ ~Fresh(b)
  BY <1>a, <1>1 DEF RemovalInv, RemovalFits, Alone
<1>3. /\ removal' = [removal EXCEPT ![b] = l] /\ LetterFits(l) /\ l.status = "APPLYING"
      /\ l.list = removal[b].list /\ l.reread = removal[b].reread /\ l.done = removal[b].done
  BY <1>a, <1>b, <1>2 DEF ApproveWrite, LetterFits, RemovalInv
<1>4. \A c \in Removals : Alone(c) => Alone(c)'
  BY <1>1 DEF ApproveWrite, Alone, RemovalInv
<1>5. ~l.reread => /\ StruckTo(b, l.list, l.done)
                   /\ l.status = "COMPLETED" => StruckTo(b, l.list, Len(l.list))
  BY <1>2, <1>3 DEF RemovalInv, RemovalFits, Progressed
<1>6. /\ SiftFits(sift'[b]) /\ ~Fresh(b)' /\ UNCHANGED struck
      /\ DOMAIN sift' = Removals /\ \A c \in Removals \ {b} : sift'[c] = sift[c]
  BY <1>2 DEF ApproveWrite, RemovalInv, Fresh
<1>7. /\ DOMAIN removal' = Removals
      /\ \A c \in Removals : RemovalFits(c)' /\ SiftFits(sift'[c])
      /\ \A j \in Strikes : strike'[j] = strike[j]
           => StrikeFits(strike[j])' /\ StrikeTells(strike[j])'
  BY <1>2, <1>3, <1>4, <1>5, <1>6, BatchWritten
<1>8. \A c \in Approvers : approver'[c] # Idle =>
         /\ approver'[c].at \in {"confirm", "schedule"}
         /\ approver'[c] = [at |-> approver'[c].at, batch |-> approver'[c].batch]
         /\ approver'[c].batch \in Removals
  BY <1>1 DEF ApproveWrite, RemovalInv
<1> QED
  BY <1>7, <1>8 DEF ApproveWrite, RemovalInv

LEMMA ApproveScheduleStep ==
    ASSUME RemovalInv, NEW a \in Approvers, ApproveSchedule(a)
    PROVE  RemovalInv'
<1>1. PICK j \in Strikes :
        /\ strike[j] = NoStrike
        /\ strike' = [strike EXCEPT ![j] = [at |-> "queued", tries |-> 0, stalls |-> 0,
                                            batch |-> approver[a].batch]]
  BY DEF ApproveSchedule
<1>2. approver[a] # Idle /\ approver[a].batch \in Removals
  BY DEF ApproveSchedule, RemovalInv, Idle
<1>3. \A c \in Removals : Alone(c) => Alone(c)'
  BY <1>1, <1>2 DEF ApproveSchedule, Alone, RemovalInv
<1>4. Kept1
  BY DEF ApproveSchedule, Kept1, RemovalInv
<1>5. ASSUME NEW c \in Removals PROVE RemovalFits(c)' /\ SiftFits(sift[c])'
  BY <1>3, <1>4, OtherBatch DEF ApproveSchedule, RemovalInv
<1>6. ASSUME NEW i \in Strikes PROVE StrikeFits(strike[i])' /\ StrikeTells(strike[i])'
  <2>1. CASE i = j
    BY <1>1, <1>2, <2>1 DEF RemovalInv, StrikeFits, StrikeTells, Striking
  <2>2. CASE i # j
    BY <1>1, <2>2 DEF ApproveSchedule, RemovalInv, StrikeTells, StruckTo
  <2> QED
    BY <2>1, <2>2
<1> QED
  BY <1>1, <1>5, <1>6 DEF ApproveSchedule, RemovalInv

LEMMA ResolvedIsListed ==
    ASSUME NEW letter \in Letters, NEW kept \in [Names -> Rows]
    PROVE  Listed(Resolved(letter, kept))
<1>1. letter \in Seq(Names)
  BY RemovalAssumption
<1>2. PICK list : list = [i \in DOMAIN letter |-> kept[letter[i]]]
  OBVIOUS
<1>3. list \in Seq(Rows) /\ DOMAIN list = DOMAIN letter
  BY <1>1, <1>2
<1>4. PICK places \in SUBSET (DOMAIN letter) : Resolved(letter, kept) = Chosen(list, places)
  BY <1>2 DEF Resolved
<1>5. Chosen(list, places) \in Seq(Rows)
  BY <1>3, <1>4, ChosenFits
<1> QED
  BY <1>4, <1>5 DEF Listed

-----------------------------------------------------------------------------
(* The validation.                                                         *)

\* It starts, or fails: the batch takes a status that promises nothing.
LEMMA SiftRewrites ==
    ASSUME RemovalInv, NEW b \in Removals, SiftStart(b) \/ SiftFail(b)
    PROVE  RemovalInv'
<1>1. /\ sift[b].at \in Sifting /\ removal[b] # NoLetter /\ LetterFits(removal[b])
  BY DEF SiftStart, SiftFail, RemovalInv, RemovalFits, NoSift, Sifting
<1>2. PICK status \in {"VALIDATING", "FAILED"} :
        removal' = [removal EXCEPT ![b].status = status]
  BY DEF SiftStart, SiftFail
<1>3. PICK l : l = [removal[b] EXCEPT !.status = status]
  OBVIOUS
<1>4. /\ removal' = [removal EXCEPT ![b] = l] /\ LetterFits(l) /\ l.status = status
      /\ l.list = removal[b].list /\ l.reread = removal[b].reread /\ l.done = removal[b].done
  BY <1>1, <1>2, <1>3 DEF LetterFits, RemovalInv
<1>5. PICK k : sift' = [sift EXCEPT ![b] = k]
  BY DEF SiftStart, SiftFail
<1>6. SiftFits(sift'[b]) /\ (Fresh(b)' => Fresh(b))
  BY <1>1 DEF SiftStart, SiftFail, RemovalInv, SiftFits, Sifting, Fresh, NoSift
<1>7. /\ \A c \in Removals : Alone(c) => Alone(c)'
      /\ DOMAIN sift' = Removals /\ \A c \in Removals \ {b} : sift'[c] = sift[c]
      /\ UNCHANGED <<strike, approver, struck>>
  BY <1>5 DEF SiftStart, SiftFail, Alone, RemovalInv
<1>8. Fresh(b)' => Fresh(b) /\ l.done = 0 /\ l.status \notin {"READY", "COMPLETED"}
  BY <1>1, <1>2, <1>4, <1>6 DEF RemovalInv, RemovalFits
<1>9. ~l.reread => /\ StruckTo(b, l.list, l.done)
                   /\ l.status = "COMPLETED" => StruckTo(b, l.list, Len(l.list))
  BY <1>1, <1>2, <1>4 DEF RemovalInv, RemovalFits, Progressed
<1>10. /\ DOMAIN removal' = Removals
       /\ \A c \in Removals : RemovalFits(c)' /\ SiftFits(sift'[c])
       /\ \A j \in Strikes : strike'[j] = strike[j]
            => StrikeFits(strike[j])' /\ StrikeTells(strike[j])'
  BY <1>1, <1>4, <1>6, <1>7, <1>8, <1>9, BatchWritten
<1> QED
  BY <1>7, <1>10 DEF RemovalInv

LEMMA SiftGoesOn ==
    ASSUME RemovalInv, NEW b \in Removals, SiftResolve(b) \/ SiftDone(b) \/ SiftStall(b)
    PROVE  RemovalInv'
<1>1. sift[b].at \in Sifting \cup {"ack"} /\ removal[b] # NoLetter /\ SiftFits(sift[b])
  BY DEF SiftResolve, SiftDone, SiftStall, RemovalInv, RemovalFits, NoSift, Sifting
<1>2. CASE SiftResolve(b)
  <2>1. PICK list : /\ Listed(list)
                    /\ sift' = [sift EXCEPT ![b] =
                          [at |-> "write", tries |-> sift[b].tries, stalls |-> sift[b].stalls,
                           list |-> list]]
    <3>1. removal[b].letter \in Letters
      BY <1>1 DEF RemovalInv, RemovalFits, LetterFits
    <3>2. PICK kept \in [Names -> Rows] :
            sift' = [sift EXCEPT ![b] =
               [at |-> "write", tries |-> sift[b].tries, stalls |-> sift[b].stalls,
                list |-> Resolved(removal[b].letter, kept)]]
      BY <1>2 DEF SiftResolve
    <3>3. Listed(Resolved(removal[b].letter, kept))
      BY <3>1, <3>2, ResolvedIsListed
    <3> QED
      BY <3>2, <3>3
  <2>2. SiftFits([at |-> "write", tries |-> sift[b].tries, stalls |-> sift[b].stalls,
                  list |-> list])
    BY <1>1, <2>1 DEF SiftFits, Sifting
  <2>3. Fresh(b)' => Fresh(b)
    BY <1>1, <1>2, <2>1 DEF SiftResolve, Fresh, Sifting, NoSift, RemovalInv
  <2> QED
    BY <1>1, <1>2, <2>1, <2>2, <2>3, SiftMoves DEF SiftResolve
<1>3. CASE SiftDone(b) \/ SiftStall(b)
  <2>1. PICK k : /\ sift' = [sift EXCEPT ![b] = k]
                 /\ k \in {[at |-> "done"], [at |-> "lost"],
                           [at |-> "queued", tries |-> sift[b].tries, stalls |-> 1]}
    BY <1>3 DEF SiftDone, SiftStall
  <2>2. SiftFits(k)
    BY <2>1 DEF SiftFits, Sifting
  <2>3. ~Fresh(b)'
    BY <2>1 DEF Fresh, Sifting, NoSift, RemovalInv
  <2> QED
    BY <1>1, <1>3, <2>1, <2>2, <2>3, SiftMoves DEF SiftDone, SiftStall
<1> QED
  BY <1>2, <1>3

\* A list is stored.  The first of a batch finds no progress and no job; any
\* other marks the batch as read again.
LEMMA SiftWriteStep ==
    ASSUME RemovalInv, NEW b \in Removals, SiftWrite(b)
    PROVE  RemovalInv'
<1>1. /\ sift[b].at = "write" /\ removal[b] # NoLetter /\ LetterFits(removal[b])
      /\ Listed(sift[b].list) /\ sift[b].stalls \in Nat
  BY DEF SiftWrite, RemovalInv, RemovalFits, NoSift, SiftFits, Sifting
<1>2. /\ DOMAIN removal' = Removals /\ LetterFits(removal'[b])
      /\ removal'[b].status = "READY" /\ removal'[b].done = removal[b].done
      /\ removal'[b].reread = (removal[b].reread \/ sift[b].stalls > 0)
      /\ \A c \in Removals \ {b} : removal'[c] = removal[c]
  BY <1>1 DEF SiftWrite, RemovalInv, LetterFits
<1>3. /\ DOMAIN sift' = Removals /\ ~Fresh(b)' /\ SiftFits(sift'[b])
      /\ \A c \in Removals \ {b} : sift'[c] = sift[c]
  BY <1>1 DEF SiftWrite, RemovalInv, Fresh, Sifting, NoSift, SiftFits
<1>4. removal'[b].reread = TRUE \/ (Alone(b) /\ removal[b].done = 0)
  <2>1. CASE removal[b].reread \/ sift[b].stalls > 0
    BY <1>2, <2>1
  <2>2. CASE ~(removal[b].reread \/ sift[b].stalls > 0)
    <3>1. sift[b].stalls = 0
      BY <1>1, <2>2
    <3> QED
      BY <1>1, <3>1 DEF RemovalInv, RemovalFits, Fresh, Sifting
  <2> QED
    BY <2>1, <2>2
<1>5. Kept1 /\ \A c \in Removals : Alone(c) => Alone(c)'
  BY DEF SiftWrite, Kept1, RemovalInv, Alone
<1>6. RemovalFits(b)'
  <2>1. Progressed(b)'
    <3> SUFFICES ASSUME ~removal'[b].reread
                 PROVE  StruckTo(b, removal[b].list, removal[b].done)'
      BY <1>2 DEF Progressed
    <3>1. removal'[b].done = 0 /\ Listed(removal'[b].list)
      BY <1>2, <1>4 DEF LetterFits
    <3> QED
      BY <3>1 DEF StruckTo, Listed
  <2>2. removal'[b] # NoLetter
    BY <1>2 DEF LetterFits, NoLetter
  <2> QED
    BY <1>2, <1>3, <2>1, <2>2 DEF RemovalFits
<1>7. ASSUME NEW c \in Removals PROVE RemovalFits(c)' /\ SiftFits(sift'[c])
  BY <1>2, <1>3, <1>5, <1>6, OtherBatch DEF RemovalInv
<1>8. ASSUME NEW j \in Strikes PROVE StrikeFits(strike[j])' /\ StrikeTells(strike[j])'
  <2>1. PICK k : k = strike[j]
    OBVIOUS
  <2>2. StrikeFits(k) /\ StrikeTells(k)
    BY <2>1 DEF RemovalInv
  <2>3. k.at \in Striking => k.batch \in Removals /\ (k.batch = b => ~Alone(b))
    BY <2>1, <2>2 DEF StrikeFits, Striking, Alone, NoStrike
  <2>4. StrikeTells(k)'
    BY <1>2, <1>4, <1>5, <2>2, <2>3, OtherJob
  <2> QED
    BY <2>1, <2>2, <2>4 DEF SiftWrite, StrikeTells
<1> QED
  BY <1>2, <1>3, <1>7, <1>8 DEF SiftWrite, RemovalInv

-----------------------------------------------------------------------------
(* The job.                                                                *)

\* It takes the list and the progress up, or looks a contract up.
LEMMA StrikeStartStep ==
    ASSUME RemovalInv, NEW j \in Strikes, StrikeStart(j)
    PROVE  RemovalInv'
<1>1. PICK b : b = strike[j].batch
  OBVIOUS
<1>2. strike[j] # NoStrike /\ b \in Removals
  BY <1>1 DEF StrikeStart, RemovalInv, StrikeFits, NoStrike
<1>3. removal[b] # NoLetter
  BY <1>1, <1>2 DEF RemovalInv, RemovalFits, Alone
<1>4. PICK k : k = [at |-> "read", tries |-> strike[j].tries, stalls |-> strike[j].stalls,
                    batch |-> b, list |-> removal[b].list, count |-> removal[b].done]
  OBVIOUS
<1>5. strike' = [strike EXCEPT ![j] = k] /\ Kept1
  BY <1>1, <1>4 DEF StrikeStart, RemovalOf, Kept1, RemovalInv
<1>6. StrikeFits(k) /\ k.batch = strike[j].batch
  BY <1>1, <1>2, <1>4 DEF StrikeFits, Striking
<1>7. StrikeTells(k)'
  BY <1>2, <1>3, <1>4 DEF StrikeStart, StrikeTells, RemovalInv, RemovalFits, Progressed, StruckTo
<1> QED
  BY <1>2, <1>5, <1>6, <1>7, StrikeMoves DEF StrikeStart

LEMMA StrikeReadStep ==
    ASSUME RemovalInv, NEW j \in Strikes, StrikeRead(j)
    PROVE  RemovalInv'
<1>1. PICK k : k = [strike[j] EXCEPT !.at = "cancel"]
  OBVIOUS
<1>2. strike[j] # NoStrike /\ StrikeFits(strike[j]) /\ StrikeTells(strike[j])
  BY DEF StrikeRead, RemovalInv, NoStrike
<1>3. /\ StrikeFits(k) /\ k.at = "cancel" /\ k.batch = strike[j].batch
      /\ k.list = strike[j].list /\ k.count = strike[j].count /\ strike[j].at = "read"
  BY <1>1, <1>2 DEF StrikeRead, StrikeFits, Striking
<1>4. strike' = [strike EXCEPT ![j] = k] /\ Kept1
  BY <1>1 DEF StrikeRead, Kept1, RemovalInv
<1>5. StrikeTells(k)'
  BY <1>2, <1>3 DEF StrikeRead, StrikeTells, Striking, StruckTo
<1> QED
  BY <1>2, <1>3, <1>4, <1>5, StrikeMoves DEF StrikeRead

\* It cancels the contract it counts.
LEMMA StrikeCancelStep ==
    ASSUME RemovalInv, NEW j \in Strikes, StrikeCancel(j)
    PROVE  RemovalInv'
<1>1. PICK o : o = strike[j]
  OBVIOUS
<1>2. /\ o # NoStrike /\ StrikeFits(o) /\ StrikeTells(o) /\ o.at = "cancel" /\ o.batch \in Removals
      /\ o = [at |-> o.at, tries |-> o.tries, stalls |-> o.stalls, batch |-> o.batch,
              list |-> o.list, count |-> o.count]
  BY <1>1 DEF StrikeCancel, RemovalInv, NoStrike, StrikeFits, Striking
<1>3. PICK at \in {"save", "read"} :
        strike' = [strike EXCEPT ![j].count = o.count + 1, ![j].at = at]
  BY <1>1 DEF StrikeCancel
<1>4. PICK k : k = [at |-> at, tries |-> o.tries, stalls |-> o.stalls, batch |-> o.batch,
                    list |-> o.list, count |-> o.count + 1]
  OBVIOUS
<1>5. strike' = [strike EXCEPT ![j] = k]
  BY <1>1, <1>2, <1>3, <1>4 DEF RemovalInv
<1>6. StrikeFits(k) /\ k.batch = strike[j].batch
  BY <1>1, <1>2, <1>4 DEF StrikeFits, Striking
<1>7. struck' = [struck EXCEPT ![o.batch] = @ \cup {o.list[o.count + 1]}]
  BY <1>1 DEF StrikeCancel, Next1
<1>8. Kept1
  BY <1>7 DEF Kept1, RemovalInv
<1>9. StrikeTells(k)'
  <2> SUFFICES ASSUME ~removal[o.batch].reread
               PROVE  o.list = removal[o.batch].list /\ StruckTo(o.batch, o.list, o.count + 1)'
    BY <1>4 DEF StrikeCancel, StrikeTells
  <2>1. o.list = removal[o.batch].list /\ StruckTo(o.batch, o.list, o.count)
    BY <1>2 DEF StrikeTells, Striking
  <2>2. struck'[o.batch] = struck[o.batch] \cup {o.list[o.count + 1]}
    BY <1>2, <1>7 DEF RemovalInv
  <2>3. LetterFits(removal[o.batch])
    BY <1>1, <1>2 DEF RemovalInv, RemovalFits, Alone
  <2>4. DOMAIN o.list \subseteq Nat
    BY <2>1, <2>3 DEF LetterFits, Listed
  <2>5. \A i \in Nat : i <= o.count + 1 => i <= o.count \/ i = o.count + 1
    BY <2>1 DEF StruckTo
  <2> QED
    BY <2>1, <2>2, <2>4, <2>5 DEF StruckTo
<1> QED
  BY <1>1, <1>2, <1>5, <1>6, <1>8, <1>9, StrikeMoves DEF StrikeCancel

\* Its worker dies.
LEMMA StrikeStallStep ==
    ASSUME RemovalInv, NEW j \in Strikes, StrikeStall(j)
    PROVE  RemovalInv'
<1>1. strike[j] # NoStrike /\ strike[j].batch \in Removals
  BY DEF StrikeStall, RemovalInv, NoStrike, StrikeFits
<1>2. PICK k : /\ strike' = [strike EXCEPT ![j] = k]
               /\ k \in {[at |-> "lost", batch |-> strike[j].batch],
                         [at |-> "queued", tries |-> strike[j].tries, stalls |-> 1,
                          batch |-> strike[j].batch]}
  BY DEF StrikeStall
<1>3. StrikeFits(k) /\ k.batch = strike[j].batch /\ k.at \notin Striking
  BY <1>1, <1>2 DEF StrikeFits, Striking
<1>4. StrikeTells(k)' /\ Kept1
  BY <1>3 DEF StrikeStall, StrikeTells, Kept1, RemovalInv
<1> QED
  BY <1>1, <1>2, <1>3, <1>4, StrikeMoves DEF StrikeStall

\* It saves its progress, ends, or gives way.
LEMMA StrikeWrites ==
    ASSUME RemovalInv, NEW j \in Strikes,
           StrikeSave(j) \/ StrikeEnd(j) \/ StrikeRefused(j) \/ StrikeFail(j)
    PROVE  RemovalInv'
<1>1. PICK o : o = strike[j]
  OBVIOUS
<1>2. /\ strike[j].at \in Striking /\ o.batch \in Removals
      /\ o = [at |-> o.at, tries |-> o.tries, stalls |-> o.stalls, batch |-> o.batch,
              list |-> o.list, count |-> o.count]
  BY <1>1 DEF StrikeSave, StrikeEnd, StrikeRefused, StrikeFail, Striking, RemovalInv, StrikeFits
<1>3. CASE StrikeSave(j)
  <2>1. PICK k : k = [o EXCEPT !.at = "read"]
    OBVIOUS
  <2>2. PICK l : l = [removal[o.batch] EXCEPT !.done = o.count]
    OBVIOUS
  <2>3. /\ strike' = [strike EXCEPT ![j] = k] /\ StrikeFits(k) /\ k.at = "read"
        /\ k.batch = o.batch /\ k.list = o.list /\ k.count = o.count
    BY <1>1, <1>2, <1>3, <2>1 DEF StrikeSave, StrikeFits, Striking, RemovalInv
  <2>4. removal' = [removal EXCEPT ![k.batch] = l]
    BY <1>1, <1>2, <1>3, <2>2, <2>3 DEF StrikeSave, RemovalInv
  <2>5. /\ l = [removal[k.batch] EXCEPT !.done = strike[j].count]
        /\ k.batch = strike[j].batch /\ k.list = strike[j].list /\ k.count = strike[j].count
        /\ UNCHANGED <<sift, approver, struck>>
    BY <1>1, <1>3, <2>2, <2>3 DEF StrikeSave
  <2> QED
    BY <1>2, <2>3, <2>4, <2>5, BothMove
<1>4. CASE StrikeEnd(j)
  <2>1. PICK k : k = [at |-> "done", batch |-> o.batch]
    OBVIOUS
  <2>2. PICK l : l = [removal[o.batch] EXCEPT !.status = "COMPLETED", !.done = o.count]
    OBVIOUS
  <2>3. /\ strike' = [strike EXCEPT ![j] = k] /\ StrikeFits(k) /\ k.at \notin Striking
        /\ k.batch = o.batch /\ k.at # "read"
    BY <1>1, <1>2, <1>4, <2>1 DEF StrikeEnd, StrikeFits, Striking
  <2>4. removal' = [removal EXCEPT ![k.batch] = l]
    BY <1>1, <1>2, <1>4, <2>2, <2>3 DEF StrikeEnd, RemovalInv
  <2>5. /\ l = [removal[k.batch] EXCEPT !.status = "COMPLETED", !.done = strike[j].count]
        /\ k.batch = strike[j].batch /\ strike[j].count >= Len(strike[j].list)
        /\ UNCHANGED <<sift, approver, struck>>
    BY <1>1, <1>4, <2>2, <2>3 DEF StrikeEnd
  <2> QED
    BY <1>2, <2>3, <2>4, <2>5, BothMove
<1>5. CASE StrikeRefused(j) \/ StrikeFail(j)
  <2>1. Retreat(j)
    BY <1>5 DEF StrikeRefused, StrikeFail
  <2>2. PICK k : /\ strike' = [strike EXCEPT ![j] = k]
                 /\ k \in {[at |-> "done", batch |-> o.batch],
                           [at |-> "queued", tries |-> o.tries + 1, stalls |-> o.stalls,
                            batch |-> o.batch]}
    BY <1>1, <2>1 DEF Retreat
  <2>3. PICK l : l = [removal[o.batch] EXCEPT !.status = "FAILED", !.done = o.count]
    OBVIOUS
  <2>4. /\ StrikeFits(k) /\ k.at \notin Striking /\ k.batch = o.batch /\ k.at # "read"
    BY <1>2, <2>2 DEF StrikeFits, Striking
  <2>5. removal' = [removal EXCEPT ![k.batch] = l]
    BY <1>1, <1>2, <2>1, <2>3, <2>4 DEF Retreat, RemovalInv
  <2>6. /\ l = [removal[k.batch] EXCEPT !.status = "FAILED", !.done = strike[j].count]
        /\ k.batch = strike[j].batch /\ UNCHANGED <<sift, approver, struck>>
    BY <1>1, <2>1, <2>3, <2>4 DEF Retreat
  <2> QED
    BY <1>2, <2>2, <2>4, <2>5, <2>6, BothMove
<1> QED
  BY <1>3, <1>4, <1>5

LEMMA RemovalMove ==
    ASSUME RemovalInv, [RemovalNext]_removalVars
    PROVE  RemovalInv'
<1>1. CASE UNCHANGED removalOnly
  <2>1. ASSUME NEW b \in Removals PROVE RemovalFits(b)' /\ SiftFits(sift[b])'
    BY <1>1 DEF removalOnly, RemovalInv, RemovalFits, Fresh, Alone, Progressed, StruckTo
  <2>2. ASSUME NEW j \in Strikes PROVE StrikeFits(strike[j])' /\ StrikeTells(strike[j])'
    BY <1>1 DEF removalOnly, RemovalInv, StrikeTells, StruckTo
  <2> QED
    BY <1>1, <2>1, <2>2 DEF removalOnly, RemovalInv
<1>2. ASSUME NEW b \in Removals,
             \/ Preview(b) \/ ScheduleSift(b) \/ SiftStep(b)
             \/ SiftFail(b) \/ SiftStall(b)
      PROVE  RemovalInv'
  BY <1>2, PreviewStep, ScheduleStep, SiftRewrites, SiftGoesOn, SiftWriteStep DEF SiftStep
<1>3. ASSUME NEW a \in Approvers, ApproveRead(a) \/ ApproveWrite(a) \/ ApproveSchedule(a)
      PROVE  RemovalInv'
  BY <1>3, ApproveReadStep, ApproveWriteStep, ApproveScheduleStep
<1>4. ASSUME NEW j \in Strikes, StrikeStep(j) \/ StrikeFail(j) \/ StrikeStall(j)
      PROVE  RemovalInv'
  BY <1>4, StrikeStartStep, StrikeReadStep, StrikeCancelStep, StrikeWrites, StrikeStallStep
     DEF StrikeStep
<1> QED
  BY <1>1, <1>2, <1>3, <1>4 DEF RemovalNext, removalVars, removalOnly

\* A removal that is COMPLETED has cancelled every contract of its list,
\* whatever was retried, approved twice or cancelled elsewhere, unless its
\* file was checked again (applyInBackground of the removal worker).
THEOREM RemovalsAreCancelled == RemovalSpec => []CompletedIsCancelled
<1>1. RemovalInv => CompletedIsCancelled
  <2> SUFFICES ASSUME RemovalInv, NEW b \in Removals,
                      removal[b].status = "COMPLETED", ~removal[b].reread,
                      NEW n \in DOMAIN removal[b].list
               PROVE  removal[b].list[n] \in struck[b]
    BY DEF CompletedIsCancelled
  <2>1. /\ StruckTo(b, removal[b].list, Len(removal[b].list))
        /\ Listed(removal[b].list)
    BY DEF RemovalInv, RemovalFits, Progressed, LetterFits, NoLetter
  <2> QED
    BY <2>1 DEF StruckTo, Listed
<1> QED
  BY <1>1, RemovalStarts, RemovalMove, PTL DEF RemovalSpec

-----------------------------------------------------------------------------
(* Types of the removals.                                                  *)

\* A job that is about to cancel has a contract left on its list.
StrikeTyped(k) ==
    /\ k.at \in Striking => k.list \in Seq(Rows) /\ k.count \in Nat
    /\ k.at = "cancel" => k.count < Len(k.list)

LetterTyped(l) ==
    l.status \in RemovalStatuses /\ (l # NoLetter => l.done \in Nat)

RemovalTyped ==
    /\ RemovalInv /\ BookTyped
    /\ \A b \in Removals : LetterTyped(removal[b])
    /\ \A j \in Strikes : StrikeTyped(strike[j])
    /\ struck \in [Removals -> SUBSET Rows]
    /\ approvals \in 0 .. MaxApprovals /\ mishaps \in 0 .. MaxMishaps

\* The batch of a job, of a check under way and of an approval is stored.
LEMMA LetterStored ==
    ASSUME RemovalTyped
    PROVE  /\ \A b \in Removals : sift[b].at # "none" => removal[b] # NoLetter
           /\ \A j \in Strikes : strike[j].at # "none" =>
                 strike[j].batch \in Removals /\ removal[strike[j].batch] # NoLetter
           /\ \A a \in Approvers : approver[a] # Idle =>
                 approver[a].batch \in Removals /\ removal[approver[a].batch] # NoLetter
  BY DEF RemovalTyped, RemovalInv, RemovalFits, Alone, StrikeFits, NoSift, NoStrike

LEMMA LettersTyped ==
    ASSUME RemovalTyped, RemovalNext, NEW c \in Removals
    PROVE  LetterTyped(removal[c])'
<1>0. LetterTyped(removal[c]) /\ \A b \in Removals : LetterTyped(removal[b])
  BY DEF RemovalTyped
<1>1. SUFFICES LetterTyped(removal'[c])
  BY DEF LetterTyped
<1>2. CASE removal' = removal
  BY <1>0, <1>2
\* The status, the progress or the list of a stored batch.
<1>3. ASSUME NEW b \in Removals, removal[b] # NoLetter, NEW s \in RemovalStatuses,
             NEW n \in Nat,
             \/ removal' = [removal EXCEPT ![b].status = s]
             \/ removal' = [removal EXCEPT ![b].done = n]
             \/ removal' = [removal EXCEPT ![b].status = s, ![b].done = n]
             \/ \E l, x : removal' = [removal EXCEPT ![b].status = s, ![b].list = l,
                                                     ![b].reread = x]
      PROVE  LetterTyped(removal'[c])
  <2>1. /\ removal[b] = [status |-> removal[b].status, letter |-> removal[b].letter,
                         list |-> removal[b].list, done |-> removal[b].done,
                         reread |-> removal[b].reread]
        /\ LetterTyped(removal[b]) /\ DOMAIN removal = Removals
    BY <1>0, <1>3 DEF RemovalTyped, RemovalInv, RemovalFits, LetterFits
  <2>2. PICK x : x = removal'[b] /\ \A a \in Removals \ {b} : removal'[a] = removal[a]
    BY <1>3, <2>1
  <2>3. x.status \in {s, removal[b].status} /\ x.done \in {n, removal[b].done}
    <3>1. CASE \E l, y : removal' = [removal EXCEPT ![b].status = s, ![b].list = l,
                                                    ![b].reread = y]
      <4>1. PICK l, y : removal' = [removal EXCEPT ![b].status = s, ![b].list = l,
                                                   ![b].reread = y]
        BY <3>1
      <4>2. x = [removal[b] EXCEPT !.status = s, !.list = l, !.reread = y]
        BY <2>1, <2>2, <4>1
      <4> QED
        BY <2>1, <4>2
    <3>2. CASE removal' = [removal EXCEPT ![b].status = s, ![b].done = n]
      BY <2>1, <2>2, <3>2
    <3>3. CASE \/ removal' = [removal EXCEPT ![b].status = s]
               \/ removal' = [removal EXCEPT ![b].done = n]
      BY <2>1, <2>2, <3>3
    <3> QED
      BY <1>3, <3>1, <3>2, <3>3
  <2>4. LetterTyped(x)
    BY <1>3, <2>1, <2>3 DEF LetterTyped
  <2> QED
    BY <1>0, <2>2, <2>4
<1>4. ASSUME NEW b \in Removals, Preview(b) PROVE LetterTyped(removal'[c])
  <2>0. PICK f \in Letters :
          removal' = [removal EXCEPT ![b] =
             [status |-> "PENDING", letter |-> f, list |-> << >>, done |-> 0,
              reread |-> FALSE]]
    BY <1>4 DEF Preview
  <2>1. PICK l : /\ removal' = [removal EXCEPT ![b] = l]
                 /\ l.status = "PENDING" /\ l.done = 0
    <3>1. PICK l : l = [status |-> "PENDING", letter |-> f, list |-> << >>, done |-> 0,
                        reread |-> FALSE]
      OBVIOUS
    <3>2. l.status = "PENDING" /\ l.done = 0 /\ removal' = [removal EXCEPT ![b] = l]
      BY <2>0, <3>1
    <3> QED
      BY <3>2
  <2>2. LetterTyped(l) /\ DOMAIN removal = Removals
    BY <2>1 DEF LetterTyped, RemovalStatuses, RemovalTyped, RemovalInv
  <2> QED
    BY <1>0, <2>1, <2>2
<1>5. ASSUME NEW b \in Removals, \/ ScheduleSift(b) \/ SiftStep(b) \/ SiftFail(b) \/ SiftStall(b)
      PROVE  LetterTyped(removal'[c])
  <2>1. CASE ScheduleSift(b) \/ SiftResolve(b) \/ SiftDone(b) \/ SiftStall(b)
    BY <1>2, <2>1 DEF ScheduleSift, SiftResolve, SiftDone, SiftStall
  <2>2. CASE SiftStart(b) \/ SiftFail(b)
    <3>1. /\ removal[b] # NoLetter
          /\ \E s \in {"VALIDATING", "FAILED"} : removal' = [removal EXCEPT ![b].status = s]
      BY <2>2, LetterStored DEF SiftStart, SiftFail
    <3> QED
      BY <1>3, <3>1 DEF RemovalStatuses
  <2>3. CASE SiftWrite(b)
    <3>1. /\ removal[b] # NoLetter
          /\ \E l, x : removal' = [removal EXCEPT ![b].status = "READY", ![b].list = l,
                                                  ![b].reread = x]
      BY <2>3, LetterStored DEF SiftWrite
    <3>2. "READY" \in RemovalStatuses /\ 0 \in Nat
      BY DEF RemovalStatuses
    <3> QED
      BY <1>3, <3>1, <3>2
  <2> QED
    BY <1>5, <2>1, <2>2, <2>3 DEF SiftStep
<1>6. ASSUME NEW a \in Approvers, ApproveRead(a) \/ ApproveWrite(a) \/ ApproveSchedule(a)
      PROVE  LetterTyped(removal'[c])
  <2>1. CASE ApproveRead(a) \/ ApproveSchedule(a)
    BY <1>2, <2>1 DEF ApproveRead, ApproveSchedule
  <2>2. CASE ApproveWrite(a)
    <3>1. /\ approver[a].batch \in Removals /\ removal[approver[a].batch] # NoLetter
          /\ removal' = [removal EXCEPT ![approver[a].batch].status = "APPLYING"]
      BY <2>2, LetterStored DEF ApproveWrite, Idle
    <3>2. "APPLYING" \in RemovalStatuses /\ 0 \in Nat
      BY DEF RemovalStatuses
    <3> QED
      BY <1>3, <3>1, <3>2
  <2> QED
    BY <1>6, <2>1, <2>2
<1>7. ASSUME NEW j \in Strikes, StrikeStep(j) \/ StrikeFail(j) \/ StrikeStall(j)
      PROVE  LetterTyped(removal'[c])
  <2>1. CASE StrikeStart(j) \/ StrikeRead(j) \/ StrikeCancel(j) \/ StrikeStall(j)
    BY <1>2, <2>1 DEF StrikeStart, StrikeRead, StrikeCancel, StrikeStall
  <2>2. ASSUME strike[j].at \in Striking
        PROVE  /\ strike[j].batch \in Removals /\ removal[strike[j].batch] # NoLetter
               /\ strike[j].count \in Nat
    BY <2>2, LetterStored DEF RemovalTyped, StrikeTyped, Striking
  <2>3. CASE StrikeSave(j)
    <3>1. removal' = [removal EXCEPT ![strike[j].batch].done = strike[j].count]
      BY <2>3 DEF StrikeSave
    <3>2. "FAILED" \in RemovalStatuses
      BY DEF RemovalStatuses
    <3> QED
      BY <1>3, <2>2, <2>3, <3>1, <3>2 DEF StrikeSave, Striking
  <2>4. CASE StrikeEnd(j) \/ StrikeRefused(j) \/ StrikeFail(j)
    <3>1. PICK s \in {"COMPLETED", "FAILED"} :
            removal' = [removal EXCEPT ![strike[j].batch].status = s,
                                       ![strike[j].batch].done = strike[j].count]
      BY <2>4 DEF StrikeEnd, StrikeRefused, StrikeFail, Retreat
    <3>2. s \in RemovalStatuses /\ strike[j].at \in Striking
      BY <2>4, <3>1 DEF RemovalStatuses, Striking, StrikeEnd, StrikeRefused, StrikeFail
    <3> QED
      BY <1>3, <2>2, <3>1, <3>2
  <2> QED
    BY <1>7, <2>1, <2>3, <2>4 DEF StrikeStep
<1>8. CASE UNCHANGED removalOnly
  BY <1>2, <1>8 DEF removalOnly
<1> QED
  BY <1>4, <1>5, <1>6, <1>7, <1>8 DEF RemovalNext

LEMMA StrikesTyped ==
    ASSUME RemovalTyped, RemovalNext, NEW i \in Strikes
    PROVE  StrikeTyped(strike[i])'
<1>0. StrikeTyped(strike[i]) /\ DOMAIN strike = Strikes
  BY DEF RemovalTyped, RemovalInv
<1>1. SUFFICES StrikeTyped(strike'[i])
  BY DEF StrikeTyped
<1>2. CASE strike' = strike
  BY <1>0, <1>2
<1>3. ASSUME NEW j \in Strikes, NEW k, strike' = [strike EXCEPT ![j] = k], StrikeTyped(k)
      PROVE  StrikeTyped(strike'[i])
  BY <1>0, <1>3
<1>4. CASE \E a \in Approvers : ApproveSchedule(a)
  <2>1. PICK a \in Approvers, j \in Strikes :
          strike' = [strike EXCEPT ![j] = [at |-> "queued", tries |-> 0, stalls |-> 0,
                                           batch |-> approver[a].batch]]
    BY <1>4 DEF ApproveSchedule
  <2>2. StrikeTyped([at |-> "queued", tries |-> 0, stalls |-> 0, batch |-> approver[a].batch])
    BY DEF StrikeTyped, Striking
  <2> QED
    BY <1>3, <2>1, <2>2
<1>5. ASSUME NEW j \in Strikes, StrikeStep(j) \/ StrikeFail(j) \/ StrikeStall(j)
      PROVE  StrikeTyped(strike'[i])
  <2>1. PICK o : o = strike[j] /\ StrikeTyped(o) /\ StrikeFits(o)
    BY DEF RemovalTyped, RemovalInv
  <2>2. CASE StrikeStart(j)
    <3>1. PICK l : l = removal[o.batch] /\ l.list \in Seq(Rows) /\ l.done \in Nat
      BY <2>1, <2>2, LetterStored DEF StrikeStart, RemovalTyped, RemovalInv, RemovalFits,
                                      LetterFits, Listed, LetterTyped
    <3>2. PICK k : /\ strike' = [strike EXCEPT ![j] = k]
                   /\ k.at = "read" /\ k.list = l.list /\ k.count = l.done
      <4>1. PICK k : k = [at |-> "read", tries |-> o.tries, stalls |-> o.stalls,
                          batch |-> o.batch, list |-> l.list, count |-> l.done]
        OBVIOUS
      <4>2. strike' = [strike EXCEPT ![j] = k]
        BY <2>1, <2>2, <3>1, <4>1 DEF StrikeStart, RemovalOf
      <4>3. k.at = "read" /\ k.list = l.list /\ k.count = l.done
        BY <4>1
      <4> QED
        BY <4>2, <4>3
    <3>3. StrikeTyped(k)
      BY <3>1, <3>2 DEF StrikeTyped
    <3> QED
      BY <1>3, <3>2, <3>3
  <2>3. CASE StrikeRead(j) \/ StrikeCancel(j) \/ StrikeSave(j)
    <3>1. /\ o.list \in Seq(Rows) /\ o.count \in Nat
          /\ o = [at |-> o.at, tries |-> o.tries, stalls |-> o.stalls, batch |-> o.batch,
                  list |-> o.list, count |-> o.count]
      BY <2>1, <2>3 DEF StrikeRead, StrikeCancel, StrikeSave, StrikeTyped, StrikeFits, Striking
    <3>2. PICK k : /\ strike' = [strike EXCEPT ![j] = k]
                   /\ k.list = o.list /\ k.count \in {o.count, o.count + 1}
                   /\ k.at = "cancel" => k.count < Len(k.list)
      <4>1. CASE StrikeRead(j)
        <5>1. PICK k : k = [o EXCEPT !.at = "cancel"]
          OBVIOUS
        <5>2. strike' = [strike EXCEPT ![j] = k]
          BY <1>0, <2>1, <4>1, <5>1 DEF StrikeRead
        <5>3. k.list = o.list /\ k.count = o.count /\ o.count < Len(o.list)
          BY <2>1, <3>1, <4>1, <5>1 DEF StrikeRead
        <5> QED
          BY <5>2, <5>3
      <4>2. CASE StrikeCancel(j)
        <5>1. PICK at \in {"save", "read"} :
                strike' = [strike EXCEPT ![j].count = o.count + 1, ![j].at = at]
          BY <2>1, <4>2 DEF StrikeCancel
        <5>2. PICK k : k = [o EXCEPT !.count = o.count + 1, !.at = at]
          OBVIOUS
        <5>3. strike' = [strike EXCEPT ![j] = k]
          BY <1>0, <2>1, <5>1, <5>2
        <5>4. k.list = o.list /\ k.count = o.count + 1 /\ k.at = at
          BY <3>1, <5>2
        <5> QED
          BY <5>3, <5>4
      <4>3. CASE StrikeSave(j)
        <5>1. PICK k : k = [o EXCEPT !.at = "read"]
          OBVIOUS
        <5>2. strike' = [strike EXCEPT ![j] = k]
          BY <1>0, <2>1, <4>3, <5>1 DEF StrikeSave
        <5>3. k.list = o.list /\ k.count = o.count /\ k.at = "read"
          BY <3>1, <5>1
        <5> QED
          BY <5>2, <5>3
      <4> QED
        BY <2>3, <4>1, <4>2, <4>3
    <3>3. StrikeTyped(k)
      BY <3>1, <3>2 DEF StrikeTyped
    <3> QED
      BY <1>3, <3>2, <3>3
  <2>4. CASE StrikeEnd(j) \/ StrikeRefused(j) \/ StrikeFail(j) \/ StrikeStall(j)
    <3>1. PICK k : strike' = [strike EXCEPT ![j] = k] /\ k.at \in {"done", "queued", "lost"}
      <4>1. CASE StrikeEnd(j)
        <5>1. PICK k : k = [at |-> "done", batch |-> o.batch]
          OBVIOUS
        <5>2. strike' = [strike EXCEPT ![j] = k] /\ k.at = "done"
          BY <2>1, <4>1, <5>1 DEF StrikeEnd
        <5> QED
          BY <5>2
      <4>2. CASE StrikeStall(j)
        <5>1. PICK k : k = IF o.stalls >= 1 THEN [at |-> "lost", batch |-> o.batch]
                           ELSE [at |-> "queued", tries |-> o.tries, stalls |-> 1,
                                 batch |-> o.batch]
          OBVIOUS
        <5>2. strike' = [strike EXCEPT ![j] = k] /\ k.at \in {"lost", "queued"}
          BY <2>1, <4>2, <5>1 DEF StrikeStall
        <5> QED
          BY <5>2
      <4>3. CASE Retreat(j)
        <5>1. PICK k : k = IF o.tries + 1 >= StrikeTries
                           THEN [at |-> "done", batch |-> o.batch]
                           ELSE [at |-> "queued", tries |-> o.tries + 1, stalls |-> o.stalls,
                                 batch |-> o.batch]
          OBVIOUS
        <5>2. strike' = [strike EXCEPT ![j] = k] /\ k.at \in {"done", "queued"}
          BY <2>1, <4>3, <5>1 DEF Retreat
        <5> QED
          BY <5>2
      <4> QED
        BY <2>4, <4>1, <4>2, <4>3 DEF StrikeRefused, StrikeFail
    <3>2. StrikeTyped(k)
      BY <3>1 DEF StrikeTyped, Striking
    <3> QED
      BY <1>3, <3>1, <3>2
  <2> QED
    BY <1>5, <2>2, <2>3, <2>4 DEF StrikeStep
<1>6. ASSUME NEW b \in Removals, \/ Preview(b) \/ ScheduleSift(b) \/ SiftStep(b)
                                 \/ SiftFail(b) \/ SiftStall(b)
      PROVE  StrikeTyped(strike'[i])
  BY <1>2, <1>6 DEF Preview, ScheduleSift, SiftStep, SiftStart, SiftResolve, SiftWrite, SiftDone,
                    SiftFail, SiftStall
<1>7. CASE UNCHANGED removalOnly
  BY <1>2, <1>7 DEF removalOnly
<1> QED
  BY <1>2, <1>4, <1>5, <1>6, <1>7 DEF RemovalNext, ApproveRead, ApproveWrite

\* The book, what was cancelled, and the budgets.
LEMMA RemovalRestTyped ==
    ASSUME RemovalTyped, RemovalNext
    PROVE  /\ BookTyped' /\ struck' \in [Removals -> SUBSET Rows]
           /\ approvals' \in 0 .. MaxApprovals /\ mishaps' \in 0 .. MaxMishaps
<1>0. /\ BookTyped /\ struck \in [Removals -> SUBSET Rows]
      /\ approvals \in 0 .. MaxApprovals /\ mishaps \in 0 .. MaxMishaps
      /\ MaxApprovals \in Nat /\ MaxMishaps \in Nat
  BY RemovalAssumption DEF RemovalTyped
<1>1. ASSUME UNCHANGED bookVars PROVE BookTyped'
  BY <1>0, <1>1 DEF BookTyped, bookVars
<1>2. ASSUME Mishap PROVE mishaps' \in 0 .. MaxMishaps
  BY <1>0, <1>2 DEF Mishap
<1>3. CASE Desk /\ UNCHANGED removalOnly
  BY <1>0, <1>3, DeskTyped DEF removalOnly
<1>4. ASSUME NEW b \in Removals, \/ Preview(b) \/ ScheduleSift(b) \/ SiftStep(b)
                                 \/ SiftFail(b) \/ SiftStall(b)
      PROVE  /\ UNCHANGED <<bookVars, struck, approvals>> /\ (Mishap \/ UNCHANGED mishaps)
  BY <1>4 DEF Preview, ScheduleSift, SiftStep, SiftStart, SiftResolve, SiftWrite, SiftDone,
              SiftFail, SiftStall
<1>5. ASSUME NEW a \in Approvers, ApproveRead(a) \/ ApproveWrite(a) \/ ApproveSchedule(a)
      PROVE  /\ UNCHANGED <<bookVars, struck, mishaps>> /\ approvals' \in 0 .. MaxApprovals
  BY <1>0, <1>5 DEF ApproveRead, ApproveWrite, ApproveSchedule
<1>6. ASSUME NEW j \in Strikes, StrikeCancel(j)
      PROVE  /\ BookTyped' /\ struck' \in [Removals -> SUBSET Rows]
             /\ UNCHANGED <<approvals, mishaps>>
  <2>1. PICK r \in Rows, b \in Removals : r = Next1(j) /\ b = strike[j].batch
    <3>1. PICK o : /\ o = strike[j] /\ o.list \in Seq(Rows) /\ o.count \in Nat
                   /\ o.count < Len(o.list) /\ o.batch \in Removals
      BY <1>6 DEF StrikeCancel, RemovalTyped, StrikeTyped, Striking, RemovalInv, StrikeFits
    <3>2. o.list[o.count + 1] \in Rows
      BY <3>1
    <3> QED
      BY <3>1, <3>2 DEF Next1
  <2>2. PICK x : x = [book[r] EXCEPT !.status = "CANCELLED"]
    OBVIOUS
  <2>3. x \in ContractRow /\ book' = [book EXCEPT ![r] = x]
    BY <1>0, <1>6, <2>1, <2>2, RowTyped, StatusesAre DEF StrikeCancel, BookTyped
  <2>4. BookTyped'
    BY <1>0, <1>6, <2>3, BookSet DEF StrikeCancel, BookTyped
  <2>5. struck' = [struck EXCEPT ![b] = @ \cup {r}]
    BY <1>6, <2>1 DEF StrikeCancel
  <2>6. struck' \in [Removals -> SUBSET Rows]
    BY <1>0, <2>5
  <2> QED
    BY <1>6, <2>4, <2>6 DEF StrikeCancel
<1>7. ASSUME NEW j \in Strikes, \/ StrikeStart(j) \/ StrikeRead(j) \/ StrikeSave(j)
                                \/ StrikeEnd(j) \/ StrikeRefused(j) \/ StrikeFail(j)
                                \/ StrikeStall(j)
      PROVE  /\ UNCHANGED <<bookVars, struck, approvals>> /\ (Mishap \/ UNCHANGED mishaps)
  BY <1>7 DEF StrikeStart, StrikeRead, StrikeSave, StrikeEnd, StrikeRefused, StrikeFail,
              StrikeStall, Retreat
<1> QED
  BY <1>0, <1>1, <1>2, <1>3, <1>4, <1>5, <1>6, <1>7 DEF RemovalNext, StrikeStep

LEMMA RemovalTypedStarts == RemovalInit => RemovalTyped
<1> SUFFICES ASSUME RemovalInit PROVE RemovalTyped
  OBVIOUS
<1>1. BookTyped
  <2>1. PICK place \in [Rows -> Debts], w \in Wallets, t \in Terms :
          book = [r \in Rows |-> NewRow(w, place[r], t)]
    BY DEF RemovalInit
  <2>2. \A r \in Rows : NewRow(w, place[r], t) \in ContractRow
    BY NewRowTyped
  <2> QED
    BY <2>1, <2>2 DEF RemovalInit, BookTyped, ClerkTyped, Idle
<1>2. ASSUME NEW b \in Removals PROVE LetterTyped(removal[b])
  BY DEF RemovalInit, RemovalQueues, LetterTyped, NoLetter, RemovalStatuses
<1>3. ASSUME NEW j \in Strikes PROVE StrikeTyped(strike[j])
  BY DEF RemovalInit, RemovalQueues, StrikeTyped, NoStrike, Striking
<1> QED
  BY <1>1, <1>2, <1>3, RemovalStarts DEF RemovalTyped, RemovalInit, RemovalQueues

LEMMA RemovalTypedMove ==
    ASSUME RemovalTyped, [RemovalNext]_removalVars
    PROVE  RemovalTyped'
<1>1. RemovalInv'
  BY RemovalMove DEF RemovalTyped
<1>2. CASE RemovalNext
  BY <1>1, <1>2, LettersTyped, StrikesTyped, RemovalRestTyped DEF RemovalTyped
<1>3. CASE UNCHANGED removalVars
  BY <1>1, <1>3 DEF removalVars, removalOnly, bookVars, RemovalTyped, BookTyped, LetterTyped,
                    StrikeTyped, ClerkTyped
<1> QED
  BY <1>2, <1>3

LEMMA RemovalsFit == RemovalTyped => RemovalTypeOK
  BY DEF RemovalTyped, RemovalTypeOK, BookTyped, LetterTyped, RemovalInv, StrikeFits

\* The contract rows and the batches hold what their columns may, and a batch
\* cancels rows of the book only (the list that validateInBackground resolves).
THEOREM RemovalsAreTyped == RemovalSpec => []RemovalTypeOK
  BY RemovalTypedStarts, RemovalTypedMove, RemovalsFit, PTL DEF RemovalSpec

-----------------------------------------------------------------------------
(***************************************************************************)
(* Commercial rules.                                                       *)
(***************************************************************************)

\* What a request holds, by where it is: bands, percentages and an offer that
\* keeps under its own maximum.
Offered == [discount : Percents, maximum : Percents]
EditorFits(k) ==
    /\ k.at \in {"idle", "rules", "relay", "wallet", "swap", "price", "reprice", "next"}
    /\ k.at \in {"rules", "relay"} =>
         /\ k.new \subseteq Band /\ k.wallets \in [Portfolios -> SUBSET Band]
         /\ k.own \in [Portfolios -> Percents]
    /\ k.at \in {"wallet", "swap"} =>
         k.wallet \in Portfolios /\ k.own \in Percents /\ k.bands \subseteq Band
    /\ k.at = "price" =>
         /\ k.contract \in Agreements /\ k.offer \in Offered
         /\ k.offer.discount <= k.offer.maximum
    /\ k.at = "reprice" =>
         k.wallet \in Portfolios /\ k.own \in Percents /\ k.todo \subseteq Portfolios
    /\ k.at = "next" => k.todo \subseteq Portfolios

RulesInv ==
    /\ RulesTypeOK /\ OfferUnderCeiling /\ edits \in 0 .. MaxEdits
    /\ DOMAIN editor = Editors
    /\ \A e \in Editors : EditorFits(editor[e])

LEMMA PercentsAreInts == \A p \in Percents : p \in Int
  BY CommercialAssumption

LEMMA LeastIsOne == \A p \in Percents, q \in Percents :
                      Least(p, q) \in Percents /\ Least(p, q) <= q
  BY PercentsAreInts DEF Least

LEMMA BandsFit == \A layout \in Layouts : \A f \in Rules(layout) : Bands(f) \subseteq Band
  BY CommercialAssumption DEF Rules, Bands, Band

LEMMA PercentOfFits ==
    ASSUME NEW found \in SUBSET Band, NEW own \in Percents
    PROVE  PercentOf(found, own) \subseteq Percents
  BY DEF PercentOf, Band

\* Either routine holds the discount under the maximum it stores with it.
LEMMA PricesFit ==
    ASSUME RulesTypeOK, NEW w \in Portfolios, NEW age, NEW own \in Percents
    PROVE  \A o \in OneByOne(w, age) \cup SetBased(w, age, own) :
              o \in Offered /\ o.discount <= o.maximum
<1>1. /\ FirstBand(strategy[w], age) \in SUBSET Band /\ FirstBand(ceiling, age) \in SUBSET Band
      /\ LastBand(strategy[w], age) \in SUBSET Band /\ LastBand(ceiling, age) \in SUBSET Band
      /\ flat[w] \in Percents
  BY DEF RulesTypeOK, FirstBand, LastBand
<1>2. /\ PercentOf(FirstBand(strategy[w], age), flat[w]) \subseteq Percents
      /\ PercentOf(FirstBand(ceiling, age), flat[w]) \subseteq Percents
      /\ PercentOf(LastBand(strategy[w], age), own) \subseteq Percents
      /\ PercentOf(LastBand(ceiling, age), own) \subseteq Percents
  BY <1>1, PercentOfFits
<1>3. \A s \in Percents, m \in Percents :
        LET o == [discount |-> Least(s, m), maximum |-> m]
        IN  o \in Offered /\ o.discount <= o.maximum
  BY LeastIsOne DEF Offered
<1> QED
  BY <1>2, <1>3 DEF OneByOne, SetBased

LEMMA RulesStart == RulesInit => RulesInv
<1> SUFFICES ASSUME RulesInit PROVE RulesInv
  OBVIOUS
<1>1. ceiling \subseteq Band
  BY BandsFit DEF RulesInit
<1>2. \A w \in Portfolios : CopiedStrategy(ceiling, flat[w]) \subseteq Band
  <2> SUFFICES ASSUME NEW w \in Portfolios, NEW b \in ceiling
               PROVE  [b EXCEPT !.percent = Least(flat[w], b.percent)] \in Band
    BY DEF CopiedStrategy
  <2>1. flat[w] \in Percents /\ b \in Band
    BY <1>1 DEF RulesInit
  <2> QED
    BY <2>1, LeastIsOne DEF Band
<1>3. strategy \in [Portfolios -> SUBSET Band]
  BY <1>2 DEF RulesInit
<1>4. (CHOOSE a \in Ages : \A b \in Ages : a <= b) \in Ages
  BY CommercialAssumption
<1>5. RulesTypeOK
  BY <1>1, <1>3, <1>4, CommercialAssumption DEF RulesInit, RulesTypeOK
<1>6. \A k \in Agreements : priced[k].discount = 0 /\ priced[k].maximum = 0
  <2> DEFINE first == CHOOSE a \in Ages : \A b \in Ages : a <= b
  <2>1. priced \in [Agreements -> [wallet : Portfolios, age : {first}, discount : {0},
                                  maximum : {0}, open : {TRUE}]]
    BY DEF RulesInit
  <2> HIDE DEF first
  <2> QED
    BY <2>1
<1>7. OfferUnderCeiling
  BY <1>6 DEF OfferUnderCeiling
<1> QED
  BY <1>5, <1>7 DEF RulesInit, RulesInv, EditorFits, NoEdit

-----------------------------------------------------------------------------
(* Steps. *)

\* A request goes on; the tables are as they were, or fit as before.
LEMMA EditorGoes ==
    ASSUME RulesInv, NEW e \in Editors, NEW k, EditorFits(k),
           editor' = [editor EXCEPT ![e] = k],
           RulesTypeOK', OfferUnderCeiling', edits' \in 0 .. MaxEdits
    PROVE  RulesInv'
  BY DEF RulesInv

LEMMA StartFits ==
    ASSUME RulesInv, NEW e \in Editors, NEW k, EditorFits(k), Start(e, k)
    PROVE  RulesInv'
<1>1. RulesTypeOK' /\ OfferUnderCeiling'
  BY DEF Start, config, RulesInv, RulesTypeOK, OfferUnderCeiling
<1>2. edits' \in 0 .. MaxEdits
  BY CommercialAssumption DEF Start, RulesInv
<1> QED
  BY <1>1, <1>2, EditorGoes DEF Start

LEMMA UpsertRulesFits ==
    ASSUME RulesInv, NEW e \in Editors,
           UpsertRulesRead(e) \/ UpsertRulesDelete(e) \/ UpsertRulesWrite(e)
    PROVE  RulesInv'
<1>1. CASE UpsertRulesRead(e)
  <2>0. PICK layout \in Layouts :
           \E f \in Rules(layout) :
              Start(e, [at |-> "rules", new |-> Bands(f), old |-> ceiling,
                        wallets |-> strategy, own |-> flat])
    BY <1>1 DEF UpsertRulesRead
  <2>1. PICK f \in Rules(layout) :
           Start(e, [at |-> "rules", new |-> Bands(f), old |-> ceiling,
                     wallets |-> strategy, own |-> flat])
    BY <2>0
  <2>2. EditorFits([at |-> "rules", new |-> Bands(f), old |-> ceiling,
                    wallets |-> strategy, own |-> flat])
    BY BandsFit DEF EditorFits, RulesInv, RulesTypeOK
  <2> QED
    BY <2>1, <2>2, StartFits
<1>2. CASE UpsertRulesDelete(e)
  <2> DEFINE k == [at |-> "relay", new |-> editor[e].new, old |-> editor[e].old,
                   wallets |-> editor[e].wallets, own |-> editor[e].own, doomed |-> strategy]
  <2>1. EditorFits(k)
    BY <1>2 DEF UpsertRulesDelete, EditorFits, RulesInv
  <2>2. RulesTypeOK' /\ OfferUnderCeiling' /\ edits' \in 0 .. MaxEdits
    BY <1>2 DEF UpsertRulesDelete, config, RulesInv, RulesTypeOK, OfferUnderCeiling
  <2> QED
    BY <1>2, <2>1, <2>2, EditorGoes DEF UpsertRulesDelete
<1>3. CASE UpsertRulesWrite(e)
  <2> DEFINE k == editor[e]
  <2>1. /\ k.new \subseteq Band /\ k.wallets \in [Portfolios -> SUBSET Band]
        /\ k.own \in [Portfolios -> Percents]
    BY <1>3 DEF UpsertRulesWrite, RulesInv, EditorFits
  <2>2. \A w \in Portfolios, b \in k.new : KeptStrategy(w, k, b) \subseteq Band
    <3> SUFFICES ASSUME NEW w \in Portfolios, NEW b \in k.new,
                        NEW p \in PercentOf({x \in k.wallets[w] : Span(x) = Span(b)}, k.own[w])
                 PROVE  [b EXCEPT !.percent = Least(p, b.percent)] \in Band
      BY DEF KeptStrategy
    <3>1. p \in Percents
      BY <2>1, PercentOfFits
    <3> QED
      BY <2>1, <3>1, LeastIsOne DEF Band
  <2>3. ceiling' \subseteq Band
    BY <1>3, <2>1 DEF UpsertRulesWrite, RulesInv, RulesTypeOK
  <2>4. strategy' \in [Portfolios -> SUBSET Band]
    <3>1. \A w \in Portfolios : UNION {KeptStrategy(w, k, b) : b \in k.new} \subseteq Band
      BY <2>2
    <3>2. strategy' = [w \in Portfolios |->
              (strategy[w] \ k.doomed[w]) \cup UNION {KeptStrategy(w, k, b) : b \in k.new}]
      BY <1>3 DEF UpsertRulesWrite
    <3> QED
      BY <3>1, <3>2 DEF RulesInv, RulesTypeOK
  <2>5. RulesTypeOK' /\ OfferUnderCeiling' /\ edits' \in 0 .. MaxEdits
    BY <1>3, <2>3, <2>4 DEF UpsertRulesWrite, Stop, RulesInv, RulesTypeOK, OfferUnderCeiling
  <2>6. EditorFits(NoEdit)
    BY DEF EditorFits, NoEdit
  <2> QED
    BY <1>3, <2>5, <2>6, EditorGoes DEF UpsertRulesWrite, Stop
<1> QED
  BY <1>1, <1>2, <1>3

LEMMA UpdateWalletFits ==
    ASSUME RulesInv, NEW e \in Editors,
           UpdateWalletRead(e) \/ UpdateWalletDelete(e) \/ UpdateWalletWrite(e)
    PROVE  RulesInv'
<1>1. CASE UpdateWalletRead(e)
  <2>1. PICK w \in Portfolios, own \in Percents, f \in Rules({Span(b) : b \in ceiling}) :
           Start(e, [at |-> "wallet", wallet |-> w, own |-> own, bands |-> Bands(f)])
    BY <1>1 DEF UpdateWalletRead
  <2>2. Bands(f) \subseteq Band
    BY DEF Rules, Bands, Band, Span, RulesInv, RulesTypeOK
  <2>3. EditorFits([at |-> "wallet", wallet |-> w, own |-> own, bands |-> Bands(f)])
    BY <2>2 DEF EditorFits
  <2> QED
    BY <2>1, <2>3, StartFits
<1>2. CASE UpdateWalletDelete(e)
  <2> DEFINE k == [at |-> "swap", wallet |-> editor[e].wallet, own |-> editor[e].own,
                   bands |-> editor[e].bands, old |-> strategy[editor[e].wallet]]
  <2>1. EditorFits(k)
    BY <1>2 DEF UpdateWalletDelete, EditorFits, RulesInv
  <2>2. RulesTypeOK' /\ OfferUnderCeiling' /\ edits' \in 0 .. MaxEdits
    BY <1>2 DEF UpdateWalletDelete, config, RulesInv, RulesTypeOK, OfferUnderCeiling
  <2> QED
    BY <1>2, <2>1, <2>2, EditorGoes DEF UpdateWalletDelete
<1>3. CASE UpdateWalletWrite(e)
  <2> DEFINE k == editor[e]
  <2>1. k.wallet \in Portfolios /\ k.own \in Percents /\ k.bands \subseteq Band
    BY <1>3 DEF UpdateWalletWrite, RulesInv, EditorFits
  <2>2. RulesTypeOK' /\ OfferUnderCeiling' /\ edits' \in 0 .. MaxEdits
    BY <1>3, <2>1 DEF UpdateWalletWrite, Stop, RulesInv, RulesTypeOK, OfferUnderCeiling
  <2>3. EditorFits(NoEdit)
    BY DEF EditorFits, NoEdit
  <2> QED
    BY <1>3, <2>2, <2>3, EditorGoes DEF UpdateWalletWrite, Stop
<1> QED
  BY <1>1, <1>2, <1>3

LEMMA PriceFits ==
    ASSUME RulesInv, NEW e \in Editors,
           \/ PriceOneRead(e) \/ PriceOneWrite(e)
           \/ PriceWalletRead(e) \/ PriceWalletWrite(e)
    PROVE  RulesInv'
<1>1. CASE PriceOneRead(e)
  <2>0. PICK k \in Agreements :
           \E offer \in OneByOne(priced[k].wallet, priced[k].age) :
              Start(e, [at |-> "price", contract |-> k, offer |-> offer])
    BY <1>1 DEF PriceOneRead
  <2>1. PICK offer \in OneByOne(priced[k].wallet, priced[k].age) :
           Start(e, [at |-> "price", contract |-> k, offer |-> offer])
    BY <2>0
  <2>2. priced[k].wallet \in Portfolios /\ 0 \in Percents
    BY CommercialAssumption DEF RulesInv, RulesTypeOK
  <2>3. offer \in Offered /\ offer.discount <= offer.maximum
    BY <2>2, PricesFit DEF RulesInv
  <2>4. EditorFits([at |-> "price", contract |-> k, offer |-> offer])
    BY <2>3 DEF EditorFits
  <2> QED
    BY <2>1, <2>4, StartFits
<1>2. CASE PriceOneWrite(e)
  <2> DEFINE k == editor[e].contract
             offer == editor[e].offer
             row == [priced[k] EXCEPT !.discount = offer.discount, !.maximum = offer.maximum]
  <2>1. k \in Agreements /\ offer \in Offered /\ offer.discount <= offer.maximum
    BY <1>2 DEF PriceOneWrite, RulesInv, EditorFits
  <2>2. /\ row.discount = offer.discount /\ row.maximum = offer.maximum
        /\ row \in [wallet : Portfolios, age : Ages, open : BOOLEAN,
                    discount : Percents, maximum : Percents]
        /\ priced' = [priced EXCEPT ![k] = row]
    BY <1>2, <2>1 DEF PriceOneWrite, RulesInv, RulesTypeOK, Offered
  <2> HIDE DEF row
  <2>3. RulesTypeOK' /\ edits' \in 0 .. MaxEdits
    BY <1>2, <2>1, <2>2 DEF PriceOneWrite, Stop, config, RulesInv, RulesTypeOK
  <2>4. OfferUnderCeiling'
    BY <1>2, <2>1, <2>2 DEF PriceOneWrite, RulesInv, RulesTypeOK, OfferUnderCeiling
  <2>5. EditorFits(NoEdit)
    BY DEF EditorFits, NoEdit
  <2> QED
    BY <1>2, <2>3, <2>4, <2>5, EditorGoes DEF PriceOneWrite, Stop
<1>3. CASE PriceWalletRead(e)
  <2>1. PICK w \in Portfolios :
           Start(e, [at |-> "reprice", wallet |-> w, own |-> flat[w], todo |-> {}])
    BY <1>3 DEF PriceWalletRead
  <2>2. EditorFits([at |-> "reprice", wallet |-> w, own |-> flat[w], todo |-> {}])
    BY DEF EditorFits, RulesInv, RulesTypeOK
  <2> QED
    BY <2>1, <2>2, StartFits
<1>4. CASE PriceWalletWrite(e)
  <2> DEFINE k == editor[e]
             mine == {a \in Agreements : priced[a].wallet = k.wallet /\ priced[a].open}
             next == IF k.todo = {} THEN NoEdit ELSE [at |-> "next", todo |-> k.todo]
  <2>1. k.wallet \in Portfolios /\ k.own \in Percents /\ k.todo \subseteq Portfolios
    BY <1>4 DEF PriceWalletWrite, RulesInv, EditorFits
  <2>2. PICK offer \in [mine -> [discount : Percents, maximum : Percents]] :
           /\ \A a \in mine : offer[a] \in SetBased(k.wallet, priced[a].age, k.own)
           /\ priced' = [a \in Agreements |->
                 IF a \in mine THEN [priced[a] EXCEPT !.discount = offer[a].discount,
                                                      !.maximum = offer[a].maximum]
                 ELSE priced[a]]
    BY <1>4 DEF PriceWalletWrite
  <2>3. \A a \in mine : offer[a] \in Offered /\ offer[a].discount <= offer[a].maximum
    BY <2>1, <2>2, PricesFit DEF RulesInv
  <2>4. ASSUME NEW a \in mine
        PROVE  /\ priced'[a].discount = offer[a].discount
               /\ priced'[a].maximum = offer[a].maximum
               /\ priced'[a] \in [wallet : Portfolios, age : Ages, open : BOOLEAN,
                                  discount : Percents, maximum : Percents]
    BY <2>2, <2>3 DEF RulesInv, RulesTypeOK, Offered
  <2>5. \A a \in Agreements \ mine : priced'[a] = priced[a]
    BY <2>2
  <2>6. RulesTypeOK' /\ edits' \in 0 .. MaxEdits
    BY <1>4, <2>2, <2>4, <2>5 DEF PriceWalletWrite, config, RulesInv, RulesTypeOK
  <2>7. OfferUnderCeiling'
    BY <1>4, <2>3, <2>4, <2>5 DEF PriceWalletWrite, RulesInv, OfferUnderCeiling
  <2>8. EditorFits(next)
    BY <2>1 DEF EditorFits, NoEdit
  <2>9. editor' = [editor EXCEPT ![e] = next]
    BY <1>4 DEF PriceWalletWrite
  <2> HIDE DEF next
  <2> QED
    BY <2>6, <2>7, <2>8, <2>9, EditorGoes
<1> QED
  BY <1>1, <1>2, <1>3, <1>4

LEMMA OtherRulesFit ==
    ASSUME RulesInv,
           \/ \E e \in Editors : WeeklyJob(e) \/ NextWallet(e) \/ PatchValueOrMove(e)
           \/ \E k \in Agreements : PayContract(k)
    PROVE  RulesInv'
<1>1. ASSUME NEW e \in Editors, WeeklyJob(e) PROVE RulesInv'
  <2>1. PICK age \in [Agreements -> Ages] :
           priced' = [k \in Agreements |-> [priced[k] EXCEPT !.age = age[k]]]
    BY <1>1 DEF WeeklyJob
  <2>2. \A k \in Agreements :
           /\ priced'[k] \in [wallet : Portfolios, age : Ages, open : BOOLEAN,
                              discount : Percents, maximum : Percents]
           /\ priced'[k].discount = priced[k].discount /\ priced'[k].maximum = priced[k].maximum
    BY <2>1 DEF RulesInv, RulesTypeOK
  <2>3. RulesTypeOK' /\ OfferUnderCeiling'
    BY <1>1, <2>1, <2>2 DEF WeeklyJob, config, RulesInv, RulesTypeOK, OfferUnderCeiling
  <2>4. edits' \in 0 .. MaxEdits
    BY <1>1, CommercialAssumption DEF WeeklyJob, RulesInv
  <2>5. EditorFits([at |-> "next", todo |-> Portfolios])
    BY DEF EditorFits
  <2> QED
    BY <1>1, <2>3, <2>4, <2>5, EditorGoes DEF WeeklyJob
<1>2. ASSUME NEW e \in Editors, NextWallet(e) PROVE RulesInv'
  <2>1. PICK w \in editor[e].todo :
           editor' = [editor EXCEPT ![e] = [at |-> "reprice", wallet |-> w, own |-> flat[w],
                                            todo |-> editor[e].todo \ {w}]]
    BY <1>2 DEF NextWallet
  <2>2. editor[e].todo \subseteq Portfolios
    BY <1>2 DEF NextWallet, RulesInv, EditorFits
  <2>3. EditorFits([at |-> "reprice", wallet |-> w, own |-> flat[w],
                    todo |-> editor[e].todo \ {w}])
    BY <2>2 DEF EditorFits, RulesInv, RulesTypeOK
  <2>4. RulesTypeOK' /\ OfferUnderCeiling' /\ edits' \in 0 .. MaxEdits
    BY <1>2 DEF NextWallet, config, RulesInv, RulesTypeOK, OfferUnderCeiling
  <2> QED
    BY <2>1, <2>3, <2>4, EditorGoes
<1>3. ASSUME NEW e \in Editors, PatchValueOrMove(e) PROVE RulesInv'
  <2>1. PICK k \in Agreements, w \in Portfolios :
           /\ priced' = [priced EXCEPT ![k].wallet = w, ![k].discount = flat[w]]
           /\ patched' = patched \cup {k}
    BY <1>3 DEF PatchValueOrMove
  <2>2. RulesTypeOK'
    BY <1>3, <2>1 DEF PatchValueOrMove, config, RulesInv, RulesTypeOK
  <2>3. OfferUnderCeiling'
    BY <2>1 DEF RulesInv, RulesTypeOK, OfferUnderCeiling
  <2>4. edits' \in 0 .. MaxEdits
    BY <1>3, CommercialAssumption DEF PatchValueOrMove, RulesInv
  <2> QED
    BY <1>3, <2>2, <2>3, <2>4 DEF PatchValueOrMove, RulesInv
<1>4. ASSUME NEW k \in Agreements, PayContract(k) PROVE RulesInv'
  <2>1. RulesTypeOK' /\ OfferUnderCeiling'
    BY <1>4, ZenonT(60) DEF PayContract, config, RulesInv, RulesTypeOK, OfferUnderCeiling
  <2> QED
    BY <1>4, <2>1 DEF PayContract, RulesInv
<1> QED
  BY <1>1, <1>2, <1>3, <1>4

LEMMA RulesMove == RulesInv /\ [RulesNext]_rulesVars => RulesInv'
<1> SUFFICES ASSUME RulesInv, [RulesNext]_rulesVars PROVE RulesInv'
  OBVIOUS
<1>1. CASE UNCHANGED rulesVars
  BY <1>1 DEF rulesVars, RulesInv, RulesTypeOK, OfferUnderCeiling
<1>2. CASE RulesNext
  BY <1>2, UpsertRulesFits, UpdateWalletFits, PriceFits, OtherRulesFit DEF RulesNext
<1> QED
  BY <1>1, <1>2

\* Replacing bands, pricing and the weekly job keep every band a span of ages
\* with a percentage, and every snapshot one of a wallet's age and percentages.
THEOREM RulesAreTyped == RulesSpec => []RulesTypeOK
<1>1. RulesInv => RulesTypeOK
  BY DEF RulesInv
<1> QED
  BY <1>1, RulesStart, RulesMove, PTL DEF RulesSpec

\* An offer that recalculateOffer or recalculateOffers priced keeps within
\* the maximum stored with it, whatever rules, wallets and contracts are
\* edited at the same time.  A PATCH or an import calls calculateOffer alone,
\* which stores no maximum: such contracts are excepted until priced again.
THEOREM OffersStayUnder == RulesSpec => []OfferUnderCeiling
<1>1. RulesInv => OfferUnderCeiling
  BY DEF RulesInv
<1> QED
  BY <1>1, RulesStart, RulesMove, PTL DEF RulesSpec

-----------------------------------------------------------------------------
(***************************************************************************)
(* Agreements.                                                             *)
(***************************************************************************)

Seen == {m \in Messages : events[m] # "NONE"}
Numbered(seen) == \A m \in seen : m.kind = "PaidInstallment" => m.number # 0

\* Serasa reported a count, as a number or as the length of an agreement.
Reported(seen, count) ==
    \/ count = 0
    \/ \E m \in seen : m.kind = "PaidInstallment" /\ m.number = count
    \/ /\ \E m \in seen : m.kind = "PaidAgreement"
       /\ \E m \in seen : m.kind = "Closed" /\ PartsOf[m.deal] = count

\* What the contract, or a copy of it, owes to the payloads seen so far: its
\* plan to an agreement closed, its count to a report of it.
Founded(seen, a) ==
    /\ a.plan = NoDeal \/ \E m \in seen : m.kind = "Closed" /\ m.deal = a.plan
    /\ Numbered(seen) => Reported(seen, a.paid)

Fields == {"status", "reference", "plan", "paid", "money"}

\* A web-hook past the creation of its row has one; its copy is founded.
ListenerFits(seen, l) ==
    /\ l = [x \in DOMAIN l |-> l[x]]
    /\ "at" \in DOMAIN l
    /\ l.at # "idle" => "message" \in DOMAIN l /\ l.message \in Messages
    /\ l.at \notin {"idle", "row"} => l.message \in seen
    /\ l.at = "store" => "seen" \in DOMAIN l /\ Founded(seen, l.seen)

CountInv ==
    /\ events \in [Messages -> {"NONE", "RECEIVED", "PROCESSED", "UNMATCHED"}]
    /\ listener = [h \in Listeners |-> listener[h]]
    /\ account = [x \in Fields |-> account[x]]
    /\ Founded(Seen, account)
    /\ \A h \in Listeners : ListenerFits(Seen, listener[h])

\* What is founded stays so when more payloads are seen.
LEMMA FoundedStays ==
    ASSUME NEW old, NEW new, old \subseteq new, NEW a, Founded(old, a)
    PROVE  Founded(new, a)
  <1>1. Numbered(new) => Numbered(old)  BY DEF Numbered
  <1>2. Reported(old, a.paid) => Reported(new, a.paid)  BY DEF Reported
  <1> QED  BY <1>1, <1>2 DEF Founded

LEMMA ListenerStays ==
    ASSUME NEW old, NEW new, old \subseteq new, NEW l, ListenerFits(old, l)
    PROVE  ListenerFits(new, l)
  BY FoundedStays DEF ListenerFits

\* A step of one web-hook that forgets no payload keeps the invariant if it
\* leaves the contract and this web-hook founded.
LEMMA OneStep ==
    ASSUME CountInv, NEW h \in Listeners,
           events' \in [Messages -> {"NONE", "RECEIVED", "PROCESSED", "UNMATCHED"}],
           Seen \subseteq Seen',
           listener' = [listener EXCEPT ![h] = listener'[h]], ListenerFits(Seen', listener'[h]),
           account' = [x \in Fields |-> account'[x]], Founded(Seen', account')
    PROVE  CountInv'
  <1>1. listener' = [g \in Listeners |-> listener'[g]]
    BY DEF CountInv
  <1>2. ASSUME NEW g \in Listeners PROVE ListenerFits(Seen', listener'[g])
    <2>1. CASE g = h  BY <2>1 DEF CountInv
    <2>2. CASE g # h
      <3>1. listener'[g] = listener[g]  BY <2>2 DEF CountInv
      <3> QED  BY <3>1, ListenerStays DEF CountInv
    <2> QED  BY <2>1, <2>2
  <1> QED  BY <1>1, <1>2 DEF CountInv

LEMMA CountInit == AgreementInit => CountInv
  BY DEF AgreementInit, CountInv, ListenerFits, Founded, Reported, Fields, Waiting

LEMMA CountNext == CountInv /\ [AgreementNext]_agreementVars => CountInv'
<1> SUFFICES ASSUME CountInv, [AgreementNext]_agreementVars PROVE CountInv'
  OBVIOUS
<1>0. CASE UNCHANGED agreementVars
  BY <1>0 DEF agreementVars, CountInv, Seen
<1> SUFFICES ASSUME NEW h \in Listeners,
                    \/ Arrive(h) \/ CreateRow(h) \/ Correlate(h)
                    \/ CloseAgreement(h) \/ BreachAgreement(h)
                    \/ ReadPayment(h) \/ SumPayments(h) \/ CommitPayment(h)
                    \/ ReadAccount(h) \/ StoreAgreementPaid(h) \/ StoreInstallmentPaid(h)
                    \/ EndEvent(h) \/ FailEvent(h)
             PROVE  CountInv'
  BY <1>0 DEF AgreementNext
<1> DEFINE old == listener[h]
           m == listener[h].message
<1>f. ListenerFits(Seen, old) /\ Founded(Seen, account)
  BY DEF CountInv
<1>w. ListenerFits(Seen', Waiting)
  BY DEF ListenerFits, Waiting
\* A step of the web-hook alone.
<1>l. ASSUME UNCHANGED <<account, events>>,
             listener' = [listener EXCEPT ![h] = listener'[h]],
             ListenerFits(Seen, listener'[h])
      PROVE  CountInv'
  <2>1. Seen' = Seen  BY <1>l DEF Seen
  <2> QED  BY <1>l, <2>1, OneStep DEF CountInv
\* A step of the web-hook and its row.
<1>e. ASSUME UNCHANGED account, old.at # "idle", NEW status \in {"RECEIVED", "PROCESSED", "UNMATCHED"},
             events' = [events EXCEPT ![m] = status],
             listener' = [listener EXCEPT ![h] = listener'[h]],
             ListenerFits(Seen', listener'[h])
      PROVE  CountInv'
  <2>1. m \in Messages  BY <1>e, <1>f DEF ListenerFits
  <2>2. events' \in [Messages -> {"NONE", "RECEIVED", "PROCESSED", "UNMATCHED"}]
    BY <1>e, <2>1 DEF CountInv
  <2>3. Seen \subseteq Seen'  BY <1>e, <2>1 DEF Seen, CountInv
  <2>4. Founded(Seen', account)  BY <1>f, <2>3, FoundedStays
  <2> QED  BY <1>e, <2>2, <2>3, <2>4, OneStep DEF CountInv
\* A step of the web-hook and the contract.
<1>a. ASSUME UNCHANGED events,
             listener' = [listener EXCEPT ![h] = listener'[h]],
             ListenerFits(Seen, listener'[h]),
             account' = [x \in Fields |-> account'[x]], Founded(Seen, account')
      PROVE  CountInv'
  <2>1. Seen' = Seen  BY <1>a DEF Seen
  <2> QED  BY <1>a, <2>1, OneStep DEF CountInv
\* A web-hook with a payload, whose next place needs no copy.
<1>p. ASSUME NEW at \in {"match", "work", "end"}, old.at # "idle",
             NEW seen, m \in seen, Seen \subseteq seen
      PROVE  ListenerFits(seen, [old EXCEPT !.at = at])
  BY <1>p, <1>f DEF ListenerFits
<1>1. CASE Arrive(h)
  <2>1. PICK x \in Messages : listener' = [listener EXCEPT ![h] = [at |-> "row", message |-> x]]
    BY <1>1 DEF Arrive
  <2>2. listener'[h] = [at |-> "row", message |-> x]  BY <2>1 DEF CountInv
  <2>3. ListenerFits(Seen, listener'[h])  BY <2>2 DEF ListenerFits
  <2> QED  BY <1>1, <2>1, <2>2, <2>3, <1>l DEF Arrive
<1>2. CASE CreateRow(h)
  <2>0. m \in Messages  BY <1>2, <1>f DEF CreateRow, ListenerFits
  <2>1. CASE events[m] = "NONE"
    <3>1. listener' = [listener EXCEPT ![h] = [old EXCEPT !.at = "match"]]
          /\ events' = [events EXCEPT ![m] = "RECEIVED"]
      BY <1>2, <2>1 DEF CreateRow
    <3>2. listener'[h] = [old EXCEPT !.at = "match"]  BY <3>1 DEF CountInv
    <3>3. m \in Seen' /\ Seen \subseteq Seen'  BY <3>1, <2>0 DEF Seen, CountInv
    <3>4. ListenerFits(Seen', listener'[h])  BY <3>2, <3>3, <1>2, <1>p DEF CreateRow
    <3> QED  BY <3>1, <3>2, <3>4, <1>2, <1>e DEF CreateRow
  <2>2. CASE events[m] # "NONE"
    <3>1. listener' = [listener EXCEPT ![h] = Waiting] /\ events' = events
      BY <1>2, <2>2 DEF CreateRow
    <3>2. listener'[h] = Waiting  BY <3>1 DEF CountInv
    <3>3. ListenerFits(Seen, listener'[h])  BY <3>2 DEF ListenerFits, Waiting
    <3> QED  BY <3>1, <3>2, <3>3, <1>2, <1>l DEF CreateRow
  <2> QED  BY <2>1, <2>2
<1>3. CASE Correlate(h)
  <2>0. m \in Seen  BY <1>3, <1>f DEF Correlate, ListenerFits
  <2>1. CASE m.named \/ account.reference = m.deal
    <3>1. listener' = [listener EXCEPT ![h] = [old EXCEPT !.at = "work"]] /\ events' = events
      BY <1>3, <2>1 DEF Correlate
    <3>2. listener'[h] = [old EXCEPT !.at = "work"]  BY <3>1 DEF CountInv
    <3>3. ListenerFits(Seen, listener'[h])  BY <3>2, <2>0, <1>3, <1>p DEF Correlate
    <3> QED  BY <3>1, <3>2, <3>3, <1>3, <1>l DEF Correlate
  <2>2. CASE ~(m.named \/ account.reference = m.deal)
    <3>1. listener' = [listener EXCEPT ![h] = Waiting]
          /\ events' = [events EXCEPT ![m] = "UNMATCHED"]
      BY <1>3, <2>2 DEF Correlate
    <3>2. listener'[h] = Waiting  BY <3>1 DEF CountInv
    <3>3. ListenerFits(Seen', listener'[h])  BY <3>2, <1>w
    <3> QED  BY <3>1, <3>2, <3>3, <1>3, <1>e DEF Correlate
  <2> QED  BY <2>1, <2>2
<1>4. CASE CloseAgreement(h)
  <2> DEFINE new == [account EXCEPT !.reference = m.deal, !.plan = m.deal,
                !.status = IF PartsOf[m.deal] > 1 THEN "INSTALLMENT" ELSE "IN_AGREEMENT"]
  <2>0. m \in Seen /\ m.kind = "Closed"  BY <1>4, <1>f DEF CloseAgreement, Doing, ListenerFits
  <2>1. listener' = [listener EXCEPT ![h] = [old EXCEPT !.at = "end"]] /\ account' = new
    BY <1>4 DEF CloseAgreement
  <2>2. listener'[h] = [old EXCEPT !.at = "end"]  BY <2>1 DEF CountInv
  <2>3. ListenerFits(Seen, listener'[h])  BY <2>0, <2>2, <1>4, <1>p DEF CloseAgreement, Doing
  <2>4. new = [x \in Fields |-> new[x]] /\ new.plan = m.deal /\ new.paid = account.paid
    BY DEF CountInv, Fields
  <2>5. Founded(Seen, new)  BY <2>0, <2>4, <1>f DEF Founded
  <2> QED  BY <2>1, <2>2, <2>3, <2>4, <2>5, <1>4, <1>a DEF CloseAgreement
<1>5. CASE BreachAgreement(h)
  <2> DEFINE new == [account EXCEPT !.reference = m.deal, !.status = "AGREEMENT_BREACHED"]
  <2>0. m \in Seen  BY <1>5, <1>f DEF BreachAgreement, Doing, ListenerFits
  <2>1. listener' = [listener EXCEPT ![h] = [old EXCEPT !.at = "end"]] /\ account' = new
    BY <1>5 DEF BreachAgreement
  <2>2. listener'[h] = [old EXCEPT !.at = "end"]  BY <2>1 DEF CountInv
  <2>3. ListenerFits(Seen, listener'[h])  BY <2>0, <2>2, <1>5, <1>p DEF BreachAgreement, Doing
  <2>4. new = [x \in Fields |-> new[x]] /\ new.plan = account.plan /\ new.paid = account.paid
    BY DEF CountInv, Fields
  <2>5. Founded(Seen, new)  BY <2>4, <1>f DEF Founded
  <2> QED  BY <2>1, <2>2, <2>3, <2>4, <2>5, <1>5, <1>a DEF BreachAgreement
<1>6. CASE ReadPayment(h)
  <2>0. m \in Seen  BY <1>6, <1>f DEF ReadPayment, Doing, ListenerFits
  <2>1. /\ listener'[h] = [at |-> "mark", message |-> m]
           \/ listener'[h] = [at |-> "sum", message |-> m, amount |-> AmountOf(m)]
        /\ listener' = [listener EXCEPT ![h] = listener'[h]]
    BY <1>6 DEF ReadPayment, CountInv
  <2>2. ListenerFits(Seen, listener'[h])  BY <2>0, <2>1 DEF ListenerFits, Seen
  <2> QED  BY <2>1, <2>2, <1>6, <1>l DEF ReadPayment
<1>7. CASE SumPayments(h)
  <2>0. m \in Seen  BY <1>7, <1>f DEF SumPayments, ListenerFits
  <2>1. /\ listener'[h] = [at |-> "commit", message |-> m, amount |-> old.amount,
                           total |-> Money(ledger) + old.amount]
        /\ listener' = [listener EXCEPT ![h] = listener'[h]]
    BY <1>7 DEF SumPayments, CountInv
  <2>2. ListenerFits(Seen, listener'[h])  BY <2>0, <2>1 DEF ListenerFits, Seen
  <2> QED  BY <2>1, <2>2, <1>7, <1>l DEF SumPayments
<1>8. CASE CommitPayment(h)
  <2>0. m \in Seen  BY <1>8, <1>f DEF CommitPayment, ListenerFits
  <2>1. CASE RowsOf(Reference(m)) = {}
    <3> DEFINE new == [account EXCEPT !.money = old.total]
    <3>1. /\ listener' = [listener EXCEPT ![h] = [at |-> "mark", message |-> m]]
          /\ account' = new /\ UNCHANGED events
      BY <1>8, <2>1 DEF CommitPayment
    <3>2. listener'[h] = [at |-> "mark", message |-> m]  BY <3>1 DEF CountInv
    <3>3. ListenerFits(Seen, listener'[h])  BY <2>0, <3>2 DEF ListenerFits, Seen
    <3>4. new = [x \in Fields |-> new[x]] /\ new.plan = account.plan /\ new.paid = account.paid
      BY DEF CountInv, Fields
    <3>5. Founded(Seen, new)  BY <3>4, <1>f DEF Founded
    <3> QED  BY <3>1, <3>2, <3>3, <3>4, <3>5, <1>a
  <2>2. CASE RowsOf(Reference(m)) # {}
    <3>1. listener' = [listener EXCEPT ![h] = Waiting] /\ UNCHANGED <<account, events>>
      BY <1>8, <2>2 DEF CommitPayment
    <3>2. listener'[h] = Waiting  BY <3>1 DEF CountInv
    <3>3. ListenerFits(Seen, listener'[h])  BY <3>2 DEF ListenerFits, Waiting
    <3> QED  BY <3>1, <3>2, <3>3, <1>l
  <2> QED  BY <2>1, <2>2
<1>9. CASE ReadAccount(h)
  <2>0. m \in Seen  BY <1>9, <1>f DEF ReadAccount, ListenerFits
  <2>1. /\ listener'[h] = [at |-> "store", message |-> m, seen |-> account]
        /\ listener' = [listener EXCEPT ![h] = listener'[h]]
    BY <1>9 DEF ReadAccount, CountInv
  <2>2. ListenerFits(Seen, listener'[h])  BY <2>0, <2>1, <1>f DEF ListenerFits, Seen
  <2> QED  BY <2>1, <2>2, <1>9, <1>l DEF ReadAccount
<1>10. CASE StoreAgreementPaid(h)
  <2> DEFINE copy == old.seen
             new == [account EXCEPT !.status = "PAID", !.reference = m.deal,
                !.money = IF copy.plan = NoDeal THEN copy.money ELSE PartsOf[copy.plan],
                !.paid = IF copy.plan = NoDeal THEN copy.paid ELSE PartsOf[copy.plan]]
  <2>0. m \in Seen /\ m.kind = "PaidAgreement" /\ Founded(Seen, copy)
    BY <1>10, <1>f DEF StoreAgreementPaid, Doing, ListenerFits
  <2>1. listener' = [listener EXCEPT ![h] = [old EXCEPT !.at = "end"]] /\ account' = new
    BY <1>10 DEF StoreAgreementPaid
  <2>2. listener'[h] = [old EXCEPT !.at = "end"]  BY <2>1 DEF CountInv
  <2>3. ListenerFits(Seen, listener'[h])  BY <2>0, <2>2, <1>10, <1>p DEF StoreAgreementPaid, Doing
  <2>4. /\ new = [x \in Fields |-> new[x]] /\ new.plan = account.plan
        /\ new.paid = IF copy.plan = NoDeal THEN copy.paid ELSE PartsOf[copy.plan]
    BY DEF CountInv, Fields
  <2>5. Numbered(Seen) => Reported(Seen, new.paid)
    <3>1. CASE copy.plan = NoDeal  BY <3>1, <2>0, <2>4 DEF Founded
    <3>2. CASE copy.plan # NoDeal
      <4>1. PICK n \in Seen : n.kind = "Closed" /\ n.deal = copy.plan
        BY <3>2, <2>0 DEF Founded
      <4>2. PartsOf[n.deal] = new.paid
        BY <3>2, <4>1, <2>4
      <4> QED  BY <2>0, <4>1, <4>2 DEF Reported
    <3> QED  BY <3>1, <3>2
  <2>6. Founded(Seen, new)  BY <2>4, <2>5, <1>f DEF Founded
  <2> QED  BY <2>1, <2>2, <2>3, <2>4, <2>6, <1>10, <1>a DEF StoreAgreementPaid
<1>11. CASE StoreInstallmentPaid(h)
  <2> DEFINE copy == old.seen
             count == Installments(copy, m.number)
             full == Parts(copy.plan) > 0 /\ count >= Parts(copy.plan)
             new == [account EXCEPT
                !.status = IF full THEN "PAID"
                           ELSE IF copy.status = "IN_AGREEMENT" THEN "IN_AGREEMENT"
                                                                ELSE "INSTALLMENT",
                !.paid = count, !.reference = m.deal]
  <2>0. m \in Seen /\ m.kind = "PaidInstallment" /\ Founded(Seen, copy)
    BY <1>11, <1>f DEF StoreInstallmentPaid, Doing, ListenerFits
  <2>1. listener' = [listener EXCEPT ![h] = [old EXCEPT !.at = "end"]] /\ account' = new
    BY <1>11 DEF StoreInstallmentPaid
  <2>2. listener'[h] = [old EXCEPT !.at = "end"]  BY <2>1 DEF CountInv
  <2>3. ListenerFits(Seen, listener'[h])  BY <2>0, <2>2, <1>11, <1>p DEF StoreInstallmentPaid, Doing
  <2>4. new = [x \in Fields |-> new[x]] /\ new.plan = account.plan /\ new.paid = count
    BY DEF CountInv, Fields
  <2>5. ASSUME Numbered(Seen) PROVE Reported(Seen, count)
    <3>1. count \in {m.number, copy.paid}  BY <2>0, <2>5 DEF Installments, Numbered
    <3>2. Reported(Seen, m.number)  BY <2>0 DEF Reported
    <3>3. Reported(Seen, copy.paid)  BY <2>0, <2>5 DEF Founded
    <3> QED  BY <3>1, <3>2, <3>3
  <2>6. Founded(Seen, new)  BY <2>4, <2>5, <1>f DEF Founded
  <2> QED  BY <2>1, <2>2, <2>3, <2>4, <2>6, <1>11, <1>a DEF StoreInstallmentPaid
<1>12. CASE EndEvent(h)
  <2>1. listener' = [listener EXCEPT ![h] = Waiting]
        /\ events' = [events EXCEPT ![m] = "PROCESSED"]
    BY <1>12 DEF EndEvent
  <2>2. listener'[h] = Waiting  BY <2>1 DEF CountInv
  <2>3. ListenerFits(Seen', listener'[h])  BY <2>2, <1>w
  <2> QED  BY <2>1, <2>2, <2>3, <1>12, <1>e DEF EndEvent
<1>13. CASE FailEvent(h)
  <2>1. listener' = [listener EXCEPT ![h] = Waiting] /\ UNCHANGED <<account, events>>
    BY <1>13 DEF FailEvent
  <2>2. listener'[h] = Waiting  BY <2>1 DEF CountInv
  <2>3. ListenerFits(Seen, listener'[h])  BY <2>2 DEF ListenerFits, Waiting
  <2> QED  BY <2>1, <2>2, <2>3, <1>l
<1> QED
  BY <1>1, <1>2, <1>3, <1>4, <1>5, <1>6, <1>7, <1>8, <1>9, <1>10, <1>11, <1>12, <1>13

-----------------------------------------------------------------------------
\* "Uses Serasa's installment number when supplied, avoiding double-counting
\* retries" (markInstallmentPaid): whatever events are repeated, raced or lost
\* half-way, the contract shows a count of paid installments that Serasa
\* reported, provided every payment seen has its number.
THEOREM CountsAreReported == AgreementSpec => []CountWasReported
<1>1. CountInv => CountWasReported
  BY DEF CountInv, Founded, Numbered, Reported, CountWasReported, Seen
<1> QED
  BY <1>1, CountInit, CountNext, PTL DEF AgreementSpec

\* recordSerasaPayment and processEvent book a payment at most once, however
\* many deliveries of it are served at once: of two that found no settlement
\* the unique reference refuses the second.
THEOREM PaymentsAreBookedOnce == AgreementSpec => []PaymentBookedOnce
<1>1. AgreementInit => PaymentBookedOnce
  BY DEF AgreementInit, PaymentBookedOnce
<1>2. ASSUME PaymentBookedOnce, [AgreementNext]_agreementVars PROVE PaymentBookedOnce'
  <2>1. CASE ledger' = ledger
    BY <1>2, <2>1 DEF PaymentBookedOnce
  <2>2. CASE ledger' # ledger
    <3>1. PICK h \in Listeners : CommitPayment(h)
      BY <1>2, <2>2 DEF AgreementNext, agreementVars, Arrive, CreateRow, Correlate,
         CloseAgreement, BreachAgreement, ReadPayment, SumPayments, ReadAccount,
         StoreAgreementPaid, StoreInstallmentPaid, EndEvent, FailEvent
    <3>2. /\ ledger' = ledger \cup {Booked(h)}
          /\ \A s \in ledger : s.reference # Booked(h).reference
      BY <2>2, <3>1 DEF CommitPayment, RowsOf, Booked
    <3> QED
      BY <1>2, <3>2 DEF PaymentBookedOnce
  <2> QED
    BY <2>1, <2>2
<1> QED
  BY <1>1, <1>2, PTL DEF AgreementSpec

-----------------------------------------------------------------------------
(* Types, and the money shown. *)

\* The amounts of a set of settlements, and the sums the fold of Money gives.
Amounts(rows) == [s \in rows |-> s.amount]
MoneySums(rows, f) ==
    f = [t \in SUBSET rows |-> IF t = {} THEN 0 ELSE Pick(t).amount + f[Rest(t)]]
Priced(rows) == IsFiniteSet(rows) /\ \A s \in rows : s.amount \in Nat

LEMMA MoneySumsAre ==
    ASSUME NEW rows, NEW f
    PROVE  MoneySums(rows, f) <=> Sums(rows, Amounts(rows), f)
<1>1. \A t \in SUBSET rows : t # {} => Amounts(rows)[Pick(t)] = Pick(t).amount
  BY RestType DEF Amounts
<1> QED
  BY <1>1 DEF MoneySums, Sums

LEMMA MoneyIs ==
    ASSUME NEW rows, IsFiniteSet(rows)
    PROVE  \E f : Sums(rows, Amounts(rows), f) /\ Money(rows) = f[rows]
<1>1. \E f : MoneySums(rows, f)
  BY SumExists, MoneySumsAre
<1>2. Money(rows) = (CHOOSE f : MoneySums(rows, f))[rows]
  BY DEF Money, MapThenSumSet, MapThenFoldSet, MoneySums, Pick, Rest
<1> QED
  BY <1>1, <1>2, MoneySumsAre

LEMMA MoneyIsNat == ASSUME NEW rows, Priced(rows) PROVE Money(rows) \in Nat
<1>1. PICK f : Sums(rows, Amounts(rows), f) /\ Money(rows) = f[rows]
  BY MoneyIs DEF Priced
<1>2. \A s \in rows : Amounts(rows)[s] \in Nat
  BY DEF Priced, Amounts
<1> QED
  BY <1>1, <1>2, SumAtLeast DEF Priced

\* A settlement more is its amount more.
LEMMA MoneyAdds ==
    ASSUME NEW rows, Priced(rows), NEW s, s \notin rows, s.amount \in Nat
    PROVE  Priced(rows \cup {s}) /\ Money(rows \cup {s}) = s.amount + Money(rows)
<1> DEFINE all == rows \cup {s}
           w == Amounts(all)
<1>1. IsFiniteSet(all) /\ Priced(all)
  BY FS_AddElement DEF Priced
<1>2. PICK f : Sums(all, w, f) /\ Money(all) = f[all]
  BY <1>1, MoneyIs
<1>3. PICK g : Sums(rows, Amounts(rows), g) /\ Money(rows) = g[rows]
  BY MoneyIs DEF Priced
<1>4. \A x \in all : w[x] = x.amount /\ w[x] \in Nat
  BY <1>1 DEF Amounts, Priced
<1>5. MoneySums(rows, g)
  BY <1>3, MoneySumsAre
<1>6. Sums(rows, w, g)
  <2>1. \A t \in SUBSET rows : t # {} => w[Pick(t)] = Pick(t).amount
    BY <1>4, RestType
  <2> HIDE DEF w
  <2> QED
    BY <1>5, <2>1 DEF MoneySums, Sums
<1>7. f[all] = w[s] + f[all \ {s}] /\ all \ {s} = rows
  <2>1. s \in all /\ all \ {s} = rows
    OBVIOUS
  <2> HIDE DEF all, w
  <2> QED
    BY <1>1, <1>2, <1>4, <2>1, SumTakes
<1>8. f[rows] = g[rows]
  <2>1. rows \in SUBSET all /\ rows \in SUBSET rows
    OBVIOUS
  <2> HIDE DEF all, w
  <2> QED
    BY <1>1, <1>2, <1>6, <2>1, SumUnique
<1> QED
  BY <1>1, <1>2, <1>3, <1>4, <1>7, <1>8

\* With no payment of a whole agreement reported, nothing but a commit writes
\* the money the contract shows.
ShownIsBooked ==
    (\A m \in Seen : m.kind # "PaidAgreement") => account.money <= Money(ledger)

\* What a web-hook at l carries besides its message.
Carries(l) ==
    /\ l.at \in {"sum", "commit"} => l.amount \in Nat
    /\ l.at = "commit" => l.total \in Nat /\ l.total <= Money(ledger) + l.amount
    /\ l.at = "store" => l.seen \in Account

AgreementInv ==
    /\ AgreementTypeOK /\ IsFiniteSet(ledger) /\ CountInv /\ ShownIsBooked
    /\ \A h \in Listeners : Carries(listener[h])

LEMMA AgreementStarts == AgreementInit => AgreementInv
<1> SUFFICES ASSUME AgreementInit PROVE AgreementInv
  OBVIOUS
<1>1. IsFiniteSet(ledger) /\ ledger = {}
  BY FS_EmptySet DEF AgreementInit
<1>2. Money(ledger) \in Nat
  BY <1>1, MoneyIsNat DEF Priced
<1>3. account \in Account
  BY DEF AgreementInit, Account
<1>4. AgreementTypeOK
  BY <1>1, <1>3, AgreementAssumption DEF AgreementInit, AgreementTypeOK
<1> QED
  BY <1>1, <1>2, <1>4, CountInit DEF AgreementInit, AgreementInv, ShownIsBooked, Carries, Waiting

\* The ledger only grows, by rows whose amounts are numbers.
LEMMA LedgerPriced ==
    ASSUME AgreementInv
    PROVE  Priced(ledger) /\ Money(ledger) \in Nat
  BY MoneyIsNat DEF AgreementInv, AgreementTypeOK, Priced

LEMMA AmountIsNat ==
    ASSUME account \in Account, NEW m PROVE AmountOf(m) \in Nat
<1>1. account.plan \in Deals \cup {NoDeal}
  BY DEF Account
<1>2. Parts(account.plan) \in Nat
  BY <1>1, AgreementAssumption DEF Parts
<1> QED
  BY <1>2 DEF AmountOf

\* A step of one web-hook that leaves the ledger alone.
LEMMA HookGoes ==
    ASSUME AgreementInv, CountInv', NEW h \in Listeners,
           UNCHANGED ledger, account' \in Account,
           account'.money = account.money \/ \E m \in Seen' : m.kind = "PaidAgreement",
           Seen \subseteq Seen',
           \A g \in Listeners \ {h} : listener'[g] = listener[g],
           arrivals' \in 0 .. MaxArrivals, crashes' \in 0 .. MaxCrashes,
           NEW l, l = listener'[h], Carries(l)
    PROVE  AgreementInv'
<1>1. AgreementTypeOK'
  BY DEF AgreementInv, AgreementTypeOK, CountInv
<1>2. \A g \in Listeners : Carries(listener'[g])
  BY DEF AgreementInv
<1>3. \A g \in Listeners : Carries(listener[g])'
  BY <1>2 DEF Carries
<1>4. ShownIsBooked'
  BY DEF AgreementInv, ShownIsBooked
<1> QED
  BY <1>1, <1>3, <1>4 DEF AgreementInv

LEMMA AgreementMoves == AgreementInv /\ [AgreementNext]_agreementVars => AgreementInv'
<1> SUFFICES ASSUME AgreementInv, [AgreementNext]_agreementVars PROVE AgreementInv'
  OBVIOUS
<1>c. CountInv'
  BY CountNext DEF AgreementInv
<1>0. CASE UNCHANGED agreementVars
  BY <1>0, <1>c DEF agreementVars, AgreementInv, AgreementTypeOK, ShownIsBooked, Carries, Seen
<1> SUFFICES ASSUME NEW h \in Listeners,
                    \/ Arrive(h) \/ CreateRow(h) \/ Correlate(h)
                    \/ CloseAgreement(h) \/ BreachAgreement(h)
                    \/ ReadPayment(h) \/ SumPayments(h) \/ CommitPayment(h)
                    \/ ReadAccount(h) \/ StoreAgreementPaid(h) \/ StoreInstallmentPaid(h)
                    \/ EndEvent(h) \/ FailEvent(h)
             PROVE  AgreementInv'
  BY <1>0 DEF AgreementNext
<1> DEFINE old == listener[h]
           m == listener[h].message
<1>f. ListenerFits(Seen, old) /\ Carries(old) /\ account \in Account
  BY DEF CountInv, AgreementInv, AgreementTypeOK
<1>b. /\ arrivals \in 0 .. MaxArrivals /\ crashes \in 0 .. MaxCrashes
      /\ listener = [g \in Listeners |-> listener[g]]
      /\ events \in [Messages -> {"NONE", "RECEIVED", "PROCESSED", "UNMATCHED"}]
  BY DEF AgreementInv, AgreementTypeOK, CountInv
\* A step that changes at most the rows of the web-hooks and the counters.
<1>s. ASSUME UNCHANGED <<ledger, account>>, Seen \subseteq Seen',
             NEW l, listener' = [listener EXCEPT ![h] = l], Carries(l),
             arrivals' \in 0 .. MaxArrivals, crashes' \in 0 .. MaxCrashes
      PROVE  AgreementInv'
  <2>1. l = listener'[h] /\ \A g \in Listeners \ {h} : listener'[g] = listener[g]
    BY <1>s, <1>b
  <2> QED
    BY <1>s, <1>c, <1>f, <2>1, HookGoes
<1>w. Carries(Waiting)
  BY DEF Carries, Waiting
<1>t. \A at \in {"match", "work", "end"} :
         old.at # "idle" => Carries([old EXCEPT !.at = at])
  BY <1>f DEF Carries, ListenerFits
<1>m. old.at # "idle" => m \in Messages
  BY <1>f DEF ListenerFits
<1>v. ASSUME NEW status \in {"RECEIVED", "PROCESSED", "UNMATCHED"}, m \in Messages,
             events' = [events EXCEPT ![m] = status]
      PROVE  Seen \subseteq Seen'
  BY <1>v, <1>b DEF Seen
<1>1. CASE Arrive(h)
  <2>1. PICK x \in Messages : listener' = [listener EXCEPT ![h] = [at |-> "row", message |-> x]]
    BY <1>1 DEF Arrive
  <2>2. Carries([at |-> "row", message |-> x])
    BY DEF Carries
  <2>3. arrivals' \in 0 .. MaxArrivals
    BY <1>1, <1>b, AgreementAssumption DEF Arrive
  <2> QED
    BY <1>1, <1>b, <1>s, <2>1, <2>2, <2>3 DEF Arrive, Seen
<1>2. CASE CreateRow(h)
  <2>0. old.at = "row"
    BY <1>2 DEF CreateRow
  <2>1. CASE events[m] = "NONE"
    BY <1>2, <1>b, <1>m, <1>s, <1>t, <1>v, <2>0, <2>1 DEF CreateRow
  <2>2. CASE events[m] # "NONE"
    BY <1>2, <1>b, <1>s, <1>w, <2>2 DEF CreateRow, Seen
  <2> QED
    BY <2>1, <2>2
<1>3. CASE Correlate(h)
  <2>0. old.at = "match"
    BY <1>3 DEF Correlate
  <2>1. CASE m.named \/ account.reference = m.deal
    BY <1>3, <1>b, <1>s, <1>t, <2>0, <2>1 DEF Correlate, Seen
  <2>2. CASE ~(m.named \/ account.reference = m.deal)
    BY <1>3, <1>b, <1>m, <1>s, <1>v, <1>w, <2>0, <2>2 DEF Correlate
  <2> QED
    BY <2>1, <2>2
\* A step that writes the contract, all but its money.
<1>a. ASSUME UNCHANGED <<ledger, events, arrivals, crashes>>, account' \in Account,
             account'.money = account.money \/ m.kind = "PaidAgreement",
             old.at \notin {"idle", "row"},
             listener' = [listener EXCEPT ![h].at = "end"]
      PROVE  AgreementInv'
  <2>1. /\ listener'[h] = [old EXCEPT !.at = "end"]
        /\ \A g \in Listeners \ {h} : listener'[g] = listener[g]
    BY <1>a, <1>b
  <2>2. Seen' = Seen /\ m \in Seen
    BY <1>a, <1>f DEF Seen, ListenerFits
  <2>3. Carries([old EXCEPT !.at = "end"])
    BY <1>a, <1>t
  <2> QED
    BY <1>a, <1>b, <1>c, <2>1, <2>2, <2>3, HookGoes
<1>4. CASE CloseAgreement(h)
  <2>1. m.deal \in Deals /\ old.at = "work"
    BY <1>4, <1>m, AgreementAssumption DEF CloseAgreement, Doing, Message
  <2>2. account' \in Account /\ account'.money = account.money
    BY <1>4, <1>f, <2>1 DEF CloseAgreement, Account
  <2> QED
    BY <1>4, <1>a, <2>1, <2>2 DEF CloseAgreement
<1>5. CASE BreachAgreement(h)
  <2>1. m.deal \in Deals /\ old.at = "work"
    BY <1>5, <1>m, AgreementAssumption DEF BreachAgreement, Doing, Message
  <2>2. account' \in Account /\ account'.money = account.money
    BY <1>5, <1>f, <2>1 DEF BreachAgreement, Account
  <2> QED
    BY <1>5, <1>a, <2>1, <2>2 DEF BreachAgreement
<1>6. CASE ReadPayment(h)
  <2>1. PICK l : /\ listener' = [listener EXCEPT ![h] = l]
                 /\ \/ l = [at |-> "mark", message |-> m]
                    \/ l = [at |-> "sum", message |-> m, amount |-> AmountOf(m)]
    BY <1>6 DEF ReadPayment
  <2>2. Carries(l)
    BY <1>f, <2>1, AmountIsNat DEF Carries
  <2> QED
    BY <1>6, <1>b, <1>s, <2>1, <2>2 DEF ReadPayment, Seen
<1>7. CASE SumPayments(h)
  <2>1. PICK l : /\ listener' = [listener EXCEPT ![h] = l]
                 /\ l = [at |-> "commit", message |-> m, amount |-> old.amount,
                         total |-> Money(ledger) + old.amount]
    BY <1>7 DEF SumPayments
  <2>2. old.amount \in Nat /\ Money(ledger) \in Nat
    BY <1>7, <1>f, LedgerPriced DEF SumPayments, Carries
  <2>3. Carries(l)
    BY <2>1, <2>2 DEF Carries
  <2> QED
    BY <1>7, <1>b, <1>s, <2>1, <2>3 DEF SumPayments, Seen
<1>8. CASE CommitPayment(h)
  <2>1. CASE RowsOf(Reference(m)) # {}
    BY <1>8, <1>b, <1>s, <1>w, <2>1 DEF CommitPayment, Seen
  <2>2. CASE RowsOf(Reference(m)) = {}
    <3> DEFINE s == Booked(h)
               l == [at |-> "mark", message |-> m]
    <3>1. /\ ledger' = ledger \cup {s} /\ account' = [account EXCEPT !.money = old.total]
          /\ listener' = [listener EXCEPT ![h] = l]
          /\ UNCHANGED <<events, arrivals, crashes>>
      BY <1>8, <2>2 DEF CommitPayment
    <3>2. old.at = "commit" /\ old.amount \in Nat /\ m \in Messages
      BY <1>8, <1>f, <1>m DEF CommitPayment, Carries
    <3>3. /\ s \in [reference : Deals \X Kinds \X Nat, message : Messages, amount : Nat]
          /\ s.amount = old.amount /\ s.reference = Reference(m)
      BY <3>2, AgreementAssumption DEF Booked, Reference, Message
    <3>4. s \notin ledger
      BY <2>2, <3>3 DEF RowsOf
    <3>5. /\ Money(ledger)' = old.amount + Money(ledger)
          /\ IsFiniteSet(ledger') /\ Money(ledger) \in Nat
      <4>1. Priced(ledger) /\ Money(ledger) \in Nat
        BY LedgerPriced
      <4> HIDE DEF s
      <4>2. Money(ledger \cup {s}) = old.amount + Money(ledger) /\ Priced(ledger \cup {s})
        BY <3>2, <3>3, <3>4, <4>1, MoneyAdds
      <4>3. Money(ledger)' = Money(ledger \cup {s})
        BY <3>1
      <4> QED
        BY <3>1, <4>1, <4>2, <4>3 DEF Priced
    <3>6. account' \in Account /\ account'.money = old.total
      BY <1>f, <3>1, <3>2 DEF Account, Carries
    <3>7. old.total \in Nat /\ old.total <= Money(ledger)'
      BY <1>f, <3>2, <3>5 DEF Carries
    <3>8. AgreementTypeOK'
      <4>1. ledger' \subseteq [reference : Deals \X Kinds \X Nat, message : Messages,
                               amount : Nat]
        BY <3>1, <3>3 DEF AgreementInv, AgreementTypeOK
      <4> QED
        BY <1>b, <3>1, <3>6, <4>1 DEF AgreementTypeOK
    <3>9. \A g \in Listeners : Carries(listener[g])'
      <4> SUFFICES ASSUME NEW g \in Listeners PROVE Carries(listener[g])'
        OBVIOUS
      <4>1. CASE g = h
        <5>1. listener'[g] = [at |-> "mark", message |-> m]
          BY <1>b, <3>1, <4>1
        <5> QED
          BY <5>1 DEF Carries
      <4>2. CASE g # h
        <5>1. listener'[g] = listener[g] /\ Carries(listener[g])
          BY <1>b, <3>1, <4>2 DEF AgreementInv
        <5> QED
          BY <3>2, <3>5, <5>1 DEF Carries
      <4> QED
        BY <4>1, <4>2
    <3>10. ShownIsBooked'
      BY <3>6, <3>7 DEF ShownIsBooked
    <3> QED
      BY <1>c, <3>5, <3>8, <3>9, <3>10 DEF AgreementInv
  <2> QED
    BY <2>1, <2>2
<1>9. CASE ReadAccount(h)
  <2>1. PICK l : /\ listener' = [listener EXCEPT ![h] = l]
                 /\ l = [at |-> "store", message |-> m, seen |-> account]
    BY <1>9 DEF ReadAccount
  <2>2. Carries(l)
    BY <1>f, <2>1 DEF Carries
  <2> QED
    BY <1>9, <1>b, <1>s, <2>1, <2>2 DEF ReadAccount, Seen
<1>10. CASE StoreAgreementPaid(h)
  <2>1. /\ m.deal \in Deals /\ m.kind = "PaidAgreement" /\ old.at = "store"
        /\ old.seen \in Account
    BY <1>10, <1>f, <1>m, AgreementAssumption DEF StoreAgreementPaid, Doing, Message, Carries
  <2>2. PICK money \in Nat, paid \in Nat :
          account' = [account EXCEPT !.status = "PAID", !.reference = m.deal,
                                     !.money = money, !.paid = paid]
    BY <1>10, <2>1, AgreementAssumption DEF StoreAgreementPaid, Account
  <2>3. account' \in Account
    BY <1>f, <2>1, <2>2 DEF Account
  <2> QED
    BY <1>10, <1>a, <2>1, <2>3 DEF StoreAgreementPaid
<1>11. CASE StoreInstallmentPaid(h)
  <2>1. /\ m.deal \in Deals /\ m.number \in Nat /\ old.at = "store" /\ old.seen \in Account
    BY <1>11, <1>f, <1>m, AgreementAssumption DEF StoreInstallmentPaid, Doing, Message, Carries
  <2>2. Installments(old.seen, m.number) \in Nat
    BY <2>1 DEF Installments, Account
  <2>3. PICK paid \in Nat, status \in {"PAID", "IN_AGREEMENT", "INSTALLMENT"} :
          account' = [account EXCEPT !.status = status, !.paid = paid, !.reference = m.deal]
    BY <1>11, <2>2 DEF StoreInstallmentPaid
  <2>4. account' \in Account /\ account'.money = account.money
    BY <1>f, <2>1, <2>3 DEF Account
  <2> QED
    BY <1>11, <1>a, <2>1, <2>4 DEF StoreInstallmentPaid
<1>12. CASE EndEvent(h)
  BY <1>12, <1>b, <1>m, <1>s, <1>v, <1>w DEF EndEvent
<1>13. CASE FailEvent(h)
  <2>1. crashes' \in 0 .. MaxCrashes
    BY <1>13, <1>b, AgreementAssumption DEF FailEvent
  <2> QED
    BY <1>13, <1>b, <1>s, <1>w, <2>1 DEF FailEvent, Seen
<1> QED
  BY <1>1, <1>2, <1>3, <1>4, <1>5, <1>6, <1>7, <1>8, <1>9, <1>10, <1>11, <1>12, <1>13

\* The types of the tables the agreements' web-hooks write: the events they
\* may fail at, race for or repeat leave no row that its columns cannot hold.
THEOREM AgreementsAreTyped == AgreementSpec => []AgreementTypeOK
<1>1. AgreementInv => AgreementTypeOK
  BY DEF AgreementInv
<1> QED
  BY <1>1, AgreementStarts, AgreementMoves, PTL DEF AgreementSpec

\* Until Serasa reports a whole agreement paid, the contract never shows more
\* money than the settlements booked add up to: a total summed up before
\* another payment was committed is written too low, never too high
\* (processEvent).
THEOREM MoneyShownIsBooked == AgreementSpec => []ShownIsBooked
<1>1. AgreementInv => ShownIsBooked
  BY DEF AgreementInv
<1> QED
  BY <1>1, AgreementStarts, AgreementMoves, PTL DEF AgreementSpec

-----------------------------------------------------------------------------
(***************************************************************************)
(* The payments Serasa reports are booked as PaymentLedger promises.       *)
(***************************************************************************)

PaymentKinds == {"PaidInstallment", "PaidAgreement"}
Told == {Reference(m) : m \in {x \in Seen : x.kind \in PaymentKinds}}
InTheBooks == {s.reference : s \in ledger}

SerasaLedger == INSTANCE PaymentLedger
                WITH Charges <- Deals \X PaymentKinds \X Nat,
                     received <- Told, recorded <- InTheBooks

\* What is about to be booked is a payment.
PayFits == \A h \in Listeners :
              listener[h].at \in {"sum", "commit"} => listener[h].message.kind \in PaymentKinds
LedgerInv == CountInv /\ PayFits

LEMMA PayMoves == LedgerInv /\ [AgreementNext]_agreementVars => LedgerInv'
<1> SUFFICES ASSUME LedgerInv, [AgreementNext]_agreementVars PROVE LedgerInv'
  OBVIOUS
<1>1. CountInv /\ CountInv'
  BY CountNext DEF LedgerInv
<1>2. ASSUME NEW g \in Listeners, listener'[g].at \in {"sum", "commit"}
      PROVE  listener'[g].message.kind \in PaymentKinds
  <2>0. listener = [h \in Listeners |-> listener[h]] /\ ListenerFits(Seen, listener[g])
    BY <1>1 DEF CountInv
  <2>1. CASE listener'[g] = listener[g]
    BY <1>2, <2>1 DEF LedgerInv, PayFits
  <2>2. CASE listener'[g] # listener[g]
    <3>1. PICK h \in Listeners :
             \/ Arrive(h) \/ CreateRow(h) \/ Correlate(h)
             \/ CloseAgreement(h) \/ BreachAgreement(h)
             \/ ReadPayment(h) \/ SumPayments(h) \/ CommitPayment(h)
             \/ ReadAccount(h) \/ StoreAgreementPaid(h) \/ StoreInstallmentPaid(h)
             \/ EndEvent(h) \/ FailEvent(h)
      BY <2>2 DEF AgreementNext, agreementVars
    <3>2. PICK l : l = listener'[h]
      OBVIOUS
    <3>3. listener' = [listener EXCEPT ![h] = l] /\ g = h
      BY <2>0, <2>2, <3>1, <3>2 DEF Arrive, CreateRow, Correlate, CloseAgreement,
         BreachAgreement, ReadPayment, SumPayments, CommitPayment, ReadAccount,
         StoreAgreementPaid, StoreInstallmentPaid, EndEvent, FailEvent
    <3>4. PICK o : o = listener[h] /\ ListenerFits(Seen, o)
      BY <2>0, <3>3
    <3>5. l.at \in {"sum", "commit"} /\ listener' = [listener EXCEPT ![h] = l]
      BY <1>2, <3>2, <3>3
    <3>6. o.at # "idle" => \A at \in {"match", "work", "end"} :
                             l # [o EXCEPT !.at = at]
      BY <3>4, <3>5 DEF ListenerFits
    <3>7. l # Waiting
      BY <3>5 DEF Waiting
    <3>8. ~(Arrive(h) \/ CreateRow(h) \/ Correlate(h))
      <4>1. ASSUME Arrive(h) PROVE FALSE
        <5>1. PICK x : listener' = [listener EXCEPT ![h] = [at |-> "row", message |-> x]]
          BY <4>1 DEF Arrive
        <5>2. l = [at |-> "row", message |-> x]
          BY <2>0, <3>2, <5>1
        <5> QED
          BY <3>5, <5>2
      <4>2. ~CreateRow(h)
        BY <2>0, <3>2, <3>4, <3>6, <3>7 DEF CreateRow
      <4>3. ~Correlate(h)
        BY <2>0, <3>2, <3>4, <3>6, <3>7 DEF Correlate
      <4> QED
        BY <4>1, <4>2, <4>3
    <3>9. ~(CloseAgreement(h) \/ BreachAgreement(h) \/ StoreAgreementPaid(h)
             \/ StoreInstallmentPaid(h))
      <4>1. \A at \in {"work", "store"} : o.at = at => listener' # [listener EXCEPT ![h].at = "end"]
        BY <2>0, <3>2, <3>4, <3>6
      <4> QED
        BY <3>4, <4>1 DEF CloseAgreement, BreachAgreement, StoreAgreementPaid,
           StoreInstallmentPaid, Doing
    <3>10. ~(CommitPayment(h) \/ ReadAccount(h) \/ EndEvent(h) \/ FailEvent(h))
      BY <2>0, <3>2, <3>5, <3>7 DEF CommitPayment, ReadAccount, EndEvent, FailEvent
    <3>11. ReadPayment(h) \/ SumPayments(h)
      BY <3>1, <3>8, <3>9, <3>10
    <3>12. CASE ReadPayment(h)
      BY <1>2, <2>0, <3>3, <3>12 DEF ReadPayment, Doing, PaymentKinds
    <3>13. CASE SumPayments(h)
      BY <1>2, <2>0, <3>3, <3>13 DEF SumPayments, LedgerInv, PayFits
    <3> QED
      BY <3>11, <3>12, <3>13
  <2> QED
    BY <2>1, <2>2
<1> QED
  BY <1>1, <1>2 DEF LedgerInv, PayFits

LEMMA PaymentsStep ==
    ASSUME LedgerInv, [AgreementNext]_agreementVars
    PROVE  [SerasaLedger!LedgerNext]_(SerasaLedger!ledgerVars)
<1> USE DEF SerasaLedger!LedgerNext, SerasaLedger!Receive, SerasaLedger!Record,
            SerasaLedger!ledgerVars
<1>1. ASSUME Seen' = Seen, ledger' = ledger
      PROVE  UNCHANGED SerasaLedger!ledgerVars
  BY <1>1 DEF Told, InTheBooks
<1>2. /\ events \in [Messages -> {"NONE", "RECEIVED", "PROCESSED", "UNMATCHED"}]
      /\ \A h \in Listeners : ListenerFits(Seen, listener[h])
  BY DEF LedgerInv, CountInv
<1>3. CASE UNCHANGED <<events, ledger>>
  BY <1>1, <1>3 DEF Seen
<1>4. CASE ~UNCHANGED <<events, ledger>>
  <2>1. PICK h \in Listeners : \/ CreateRow(h) \/ Correlate(h)
                               \/ CommitPayment(h) \/ EndEvent(h)
    BY <1>4 DEF AgreementNext, agreementVars, Arrive, CloseAgreement, BreachAgreement,
       ReadPayment, SumPayments, ReadAccount, StoreAgreementPaid, StoreInstallmentPaid,
       FailEvent
  <2>2. PICK m : m = listener[h].message
    OBVIOUS
  <2>3. m \in Messages /\ (listener[h].at # "row" => m \in Seen)
    BY <1>2, <2>1, <2>2 DEF CreateRow, Correlate, CommitPayment, EndEvent, ListenerFits
  <2>4. m.deal \in Deals /\ m.number \in Nat
    BY <2>3, AgreementAssumption DEF Message
  <2>5. CASE CreateRow(h)
    <3>1. events' = [events EXCEPT ![m] = "RECEIVED"] /\ ledger' = ledger
      BY <1>4, <2>2, <2>5 DEF CreateRow
    <3>2. Seen' = Seen \cup {m}
      BY <1>2, <2>3, <3>1 DEF Seen
    <3>3. Told' = IF m.kind \in PaymentKinds THEN Told \cup {Reference(m)} ELSE Told
      BY <3>2 DEF Told
    <3>4. InTheBooks' = InTheBooks
      BY <3>1 DEF InTheBooks
    <3>5. m.kind \in PaymentKinds => Reference(m) \in Deals \X PaymentKinds \X Nat
      BY <2>4 DEF Reference
    <3> QED
      BY <3>3, <3>4, <3>5
  <2>6. CASE Correlate(h) \/ EndEvent(h)
    <3>1. PICK status \in {"UNMATCHED", "PROCESSED"} :
             events' = [events EXCEPT ![m] = status] /\ ledger' = ledger
      BY <1>4, <2>2, <2>6 DEF Correlate, EndEvent
    <3>2. m \in Seen
      BY <2>3, <2>6 DEF Correlate, EndEvent
    <3>3. Seen' = Seen
      BY <1>2, <2>3, <3>1, <3>2 DEF Seen
    <3> QED
      BY <1>1, <3>1, <3>3
  <2>7. CASE CommitPayment(h)
    <3>1. /\ RowsOf(Reference(m)) = {} /\ ledger' = ledger \cup {Booked(h)}
          /\ events' = events /\ listener[h].at = "commit"
      BY <1>4, <2>2, <2>7 DEF CommitPayment
    <3>2. Booked(h).reference = Reference(m)
      BY <2>2 DEF Booked
    <3>3. m \in Seen /\ m.kind \in PaymentKinds
      BY <2>2, <2>3, <3>1 DEF LedgerInv, PayFits
    <3>4. Reference(m) \in Told /\ Reference(m) \in Deals \X PaymentKinds \X Nat
      BY <2>4, <3>3 DEF Told, Reference
    <3>5. Reference(m) \notin InTheBooks
      BY <3>1 DEF RowsOf, InTheBooks
    <3>6. InTheBooks' = InTheBooks \cup {Reference(m)}
      BY <3>1, <3>2 DEF InTheBooks
    <3>7. Told' = Told
      BY <3>1 DEF Told, Seen
    <3> QED
      BY <3>4, <3>5, <3>6, <3>7
  <2> QED
    BY <2>1, <2>5, <2>6, <2>7
<1> QED
  BY <1>3, <1>4

\* The payments of the agreements keep the promise the charges do, with no
\* version, job or gateway in common: what is booked is a payment Serasa has
\* reported, once for its agreement, event and number, however often its
\* payload is delivered, with whatever stamp, and wherever an event fails
\* (handleWebhook, recordSerasaPayment, processEvent).
THEOREM PaymentsKeepTheLedger == AgreementSpec => SerasaLedger!LedgerSpec
<1>1. AgreementInit => SerasaLedger!LedgerInit
  BY DEF AgreementInit, SerasaLedger!LedgerInit, Told, InTheBooks, Seen
<1>2. AgreementInit => LedgerInv
  BY CountInit DEF AgreementInit, LedgerInv, PayFits, Waiting
<1>3. LedgerInv /\ [AgreementNext]_agreementVars
        => [SerasaLedger!LedgerNext]_(SerasaLedger!ledgerVars)
  BY PaymentsStep
<1> QED
  BY <1>1, <1>2, <1>3, PayMoves, PTL DEF AgreementSpec, SerasaLedger!LedgerSpec

-----------------------------------------------------------------------------
(***************************************************************************)
(* The four together, as MCPortfolio plays them.                           *)
(***************************************************************************)

ImportScenes == {"apply", "manage", "upload"}
RemovalScenes == {"remove", "desk"}
\* In its scenes a module keeps its invariant; in the others the queues rest,
\* and the rows are written by the module whose scene it is.
SceneInv ==
    /\ ImportTypeOK /\ RemovalTypeOK /\ RulesInv /\ AgreementInv
    /\ scene \in ImportScenes => ImportTyped
    /\ scene \in RemovalScenes => RemovalTyped

LEMMA QueuesRest ==
    /\ noImports => /\ \A b \in Batches : batch[b].status \in BatchStatuses
                    /\ \A j \in Jobs : job[j].at = "none"
                    /\ managed \in 0 .. MaxManaged /\ troubles \in 0 .. MaxTroubles
    /\ RemovalQueues => /\ \A b \in Removals : removal[b].status \in RemovalStatuses
                        /\ \A j \in Strikes : strike[j].at = "none"
                        /\ struck \in [Removals -> SUBSET Rows]
                        /\ approvals \in 0 .. MaxApprovals /\ mishaps \in 0 .. MaxMishaps
<1>1. noImports => /\ \A b \in Batches : batch[b].status \in BatchStatuses
                   /\ \A j \in Jobs : job[j].at = "none"
                   /\ managed \in 0 .. MaxManaged /\ troubles \in 0 .. MaxTroubles
  BY ImportAssumption DEF noImports, ImportQueues, NoBatch, BatchStatuses, NoJob
<1>2. RemovalQueues => /\ \A b \in Removals : removal[b].status \in RemovalStatuses
                       /\ \A j \in Strikes : strike[j].at = "none"
                       /\ struck \in [Removals -> SUBSET Rows]
                       /\ approvals \in 0 .. MaxApprovals /\ mishaps \in 0 .. MaxMishaps
  BY DEF RemovalQueues, NoLetter, RemovalStatuses, NoStrike
<1> QED
  BY <1>1, <1>2

LEMMA SceneStarts == MCInit => SceneInv
<1> SUFFICES ASSUME MCInit PROVE SceneInv
  OBVIOUS
<1>1. RulesInv /\ AgreementInv
  BY RulesStart, AgreementStarts DEF MCInit, ImportStart, RemovalStart, noRules
<1>2. CASE ImportStart
  <2>1. ImportTyped /\ ImportTypeOK /\ RemovalQueues /\ scene \notin RemovalScenes
    BY <1>2, ImportTypedStarts, ImportsFit DEF ImportStart, noRemovals, RemovalScenes
  <2>2. RemovalTypeOK
    BY <2>1, QueuesRest DEF RemovalTypeOK, ImportTypeOK
  <2> QED
    BY <1>1, <2>1, <2>2 DEF SceneInv
<1>3. CASE RemovalStart
  <2>1. RemovalTyped /\ RemovalTypeOK /\ noImports /\ scene \notin ImportScenes
    BY <1>3, RemovalTypedStarts, RemovalsFit DEF RemovalStart, ImportScenes
  <2>2. ImportTypeOK
    BY <2>1, QueuesRest DEF RemovalTyped, BookTyped, ImportTypeOK
  <2> QED
    BY <1>1, <2>1, <2>2 DEF SceneInv
<1>4. CASE EmptyBook /\ noImports /\ noRemovals /\ scene \in {"race", "rules", "agreement"}
  <2>1. book \in [Rows -> ContractRow] /\ served \in 0 .. MaxClerical
    BY <1>4, NoContractTyped, BookAssumption DEF EmptyBook
  <2>2. ImportTypeOK /\ RemovalTypeOK
    BY <1>4, <2>1, QueuesRest DEF noRemovals, ImportTypeOK, RemovalTypeOK
  <2> QED
    BY <1>1, <1>4, <2>2 DEF SceneInv, ImportScenes, RemovalScenes
<1> QED
  BY <1>2, <1>3, <1>4 DEF MCInit

LEMMA SceneMoves ==
    SceneInv /\ [MCNext]_<<scene, importVars, rulesVars, removalOnly, agreementVars>>
      => SceneInv'
<1> SUFFICES ASSUME SceneInv,
                    [MCNext]_<<scene, importVars, rulesVars, removalOnly, agreementVars>>
             PROVE  SceneInv'
  OBVIOUS
<1>0. /\ ImportTypeOK /\ RemovalTypeOK /\ RulesInv /\ AgreementInv
      /\ scene \in ImportScenes => ImportTyped
      /\ scene \in RemovalScenes => RemovalTyped
      /\ UNCHANGED scene
  BY DEF SceneInv, MCNext
\* Rules and agreements are moved by their own modules only.
<1>1. RulesInv' /\ AgreementInv'
  <2>1. [RulesNext]_rulesVars /\ [AgreementNext]_agreementVars
    BY DEF MCNext
  <2> QED
    BY <1>0, <2>1, RulesMove, AgreementMoves
<1>2. CASE scene \in ImportScenes
  <2>1. [ImportNext]_importVars /\ UNCHANGED removalOnly
    BY <1>2 DEF MCNext, ImportScenes
  <2>2. ImportTyped' /\ ImportTypeOK'
    <3>1. ImportTyped'
      BY <1>0, <1>2, <2>1, ImportTypedMove
    <3> QED
      BY <3>1, ImportsFit, PTL
  <2>3. RemovalTypeOK'
    BY <1>0, <2>1, <2>2 DEF RemovalTypeOK, ImportTypeOK, removalOnly
  <2> QED
    BY <1>0, <1>1, <1>2, <2>2, <2>3 DEF SceneInv, ImportScenes, RemovalScenes
<1>3. CASE scene \in RemovalScenes
  <2>1. [RemovalNext]_removalVars /\ UNCHANGED <<batch, job, managed, troubles>>
    BY <1>3 DEF MCNext, RemovalScenes, importQueues, importOnly, importVars, removalVars
  <2>2. RemovalTyped' /\ RemovalTypeOK'
    <3>1. RemovalTyped'
      BY <1>0, <1>3, <2>1, RemovalTypedMove
    <3> QED
      BY <3>1, RemovalsFit, PTL
  <2>3. ImportTypeOK'
    BY <1>0, <2>1, <2>2 DEF RemovalTyped, BookTyped, ImportTypeOK
  <2> QED
    BY <1>0, <1>1, <1>3, <2>2, <2>3 DEF SceneInv, ImportScenes, RemovalScenes
<1>4. CASE scene \notin ImportScenes \cup RemovalScenes
  <2>1. UNCHANGED <<bookVars, batch, job, managed, troubles, removalOnly>>
    BY <1>4 DEF MCNext, ImportScenes, RemovalScenes, importQueues, importOnly, importVars
  <2>2. ImportTypeOK' /\ RemovalTypeOK'
    BY <1>0, <2>1 DEF ImportTypeOK, RemovalTypeOK, bookVars, removalOnly
  <2> QED
    BY <1>0, <1>1, <1>4, <2>2 DEF SceneInv
<1> QED
  BY <1>2, <1>3, <1>4

\* Whichever of the four is at work, the rows of contracts, batches, removals,
\* commercial rules and agreements hold what their columns may: no import,
\* removal, request or web-hook writes a status, a percentage, an amount or a
\* contract that its table does not have.
THEOREM PortfolioIsTyped == MCSpec => []PortfolioTypeOK
<1>1. SceneInv => PortfolioTypeOK
  BY DEF SceneInv, PortfolioTypeOK, RulesInv, AgreementInv
<1> QED
  BY <1>1, SceneStarts, SceneMoves, PTL DEF MCSpec

=============================================================================
