------------------------- MODULE PixIssuanceProofs -------------------------
(***************************************************************************)
(* Theorems about PixIssuance, for any number of requests, contracts, keys *)
(* and faults.  The invariants PixIssuance states are not inductive: they  *)
(* say nothing of a request halfway.  IndInv adds what a request has done, *)
(* by where it is, and what its row, its txid and its history say of it.   *)
(***************************************************************************)
EXTENDS PixIssuance, TLAPS

Untouched == {"idle", "lookup", "contract", "reuse", "issue"}
Noting == {"noteLook", "note", "agree"}
Live == {"ISSUED", "PAID", "EXPIRED"}

Absent(r) == ~Exists(r) /\ cob[r] = NoAmount /\ r \notin inflight

\* What the row of a request and the bank's charge under its txid say.
RowFits(r) ==
    /\ Exists(r) => /\ row[r].amount = req[r].amount
                    /\ row[r].amount \in Amounts
                    /\ row[r].key = RowKey(r)
    /\ cob[r] # NoAmount => cob[r] = req[r].amount
    /\ row[r].status \in Live => cob[r] # NoAmount
    /\ r \in inflight => req[r].amount \in Amounts

\* What a request has done, by where it is.
Stage(r) ==
    /\ req[r].pc \in Untouched => Absent(r) /\ ~req[r].reused
    /\ req[r].pc \in {"reuse", "issue", "create", "fail"} => req[r].amount \in Amounts
    /\ req[r].pc \in {"create", "fail"} => ~req[r].reused
    /\ req[r].pc = "lookup" => req[r].amount \in Amounts /\ req[r].kind \in {"charge", "document"}
    /\ req[r].pc = "contract" /\ req[r].kind = "charge" => req[r].amount \in Amounts
    /\ req[r].pc = "create" => cob[r] # NoAmount /\ ~Exists(r)
    /\ req[r].reused => req[r].pc \in Noting /\ Absent(r)
    /\ req[r].pc \in Noting =>
         /\ req[r].charge \in Requests
         /\ ContractOf[req[r].charge] = ContractOf[r]
         /\ row[req[r].charge].status \in Live
         /\ req[r].pc = "agree" => notes[req[r].charge] > 0
         /\ ~req[r].reused => req[r].charge = r

\* What a request could see when it started is still there.
PastFits(r) ==
    /\ At(r, "idle") => past.at[r].rows = {} /\ past.at[r].valid = {}
    /\ \A q \in past.at[r].rows : Exists(q)
    /\ \A q \in past.at[r].valid : row[q].status \in Live
    /\ past.at[r].deals <= past.deals[ContractOf[r]]

\* A request whose key was answered for never gets past the look-up.
Repeats(r) == /\ req[r].kind \in {"charge", "document"}
              /\ \E q \in past.at[r].rows : Answers(r, q)
StopsAtKey(r) ==
    Repeats(r) => /\ Absent(r)
                  /\ \/ req[r].pc \in {"lookup", "done"}
                     \/ req[r].pc = "contract" /\ req[r].kind = "document"

\* A request that makes a new charge has found none to reuse.
Issues(r) == req[r].kind # "charge" /\ (req[r].pc \in {"issue", "create", "fail"} \/ Exists(r))
NoneToReuse(r) ==
    Issues(r) =>
        \A q \in past.at[r].valid :
            ContractOf[q] = ContractOf[r] /\ Payable(q) => row[q].amount # req[r].amount

\* A request that may still register an agreement read a contract without one.
HasRead(r) == \/ req[r].pc \in {"reuse", "issue", "create", "noteLook", "note", "agree"}
              \/ req[r].pc = "lookup" /\ req[r].kind = "document"
Running(k) == contract[k].status = "IN_AGREEMENT" /\ contract[k].due # "none"
ReadWithout(r) ==
    HasRead(r) /\ ~req[r].binding /\ Running(ContractOf[r])
        => past.deals[ContractOf[r]] > past.at[r].deals

IndInv ==
    /\ TypeOK
    /\ \A r \in Requests : RowFits(r) /\ Stage(r)
    /\ AgreementIsBacked
    /\ BankChargeHasRow
    /\ \A r \in Requests : PastFits(r)
    /\ \A r \in Requests : StopsAtKey(r) /\ NoneToReuse(r) /\ ReadWithout(r)

-----------------------------------------------------------------------------
(* The initial states *)

\* Nothing has been asked of the bank and no agreement names a charge.
LEMMA InitInd == Init => IndInv
<1> SUFFICES ASSUME Init PROVE IndInv
  OBVIOUS
<1> USE RequestAssumption, BoundAssumption
<1>1. req \in [Requests -> Request]
  <2>1. (CHOOSE k \in Kinds : TRUE) \in Kinds
    OBVIOUS
  <2> QED
    BY <2>1 DEF Init, Request, Pc, Money
<1>2. /\ contract \in [Contracts -> Contract]
      /\ \A k \in Contracts : contract[k].ref \notin Requests
  <2>1. contract \in [Contracts -> NewContract]
    BY DEF Init
  <2>2. \A c \in NewContract : c \in Contract /\ c.ref \notin Requests
    BY DEF NewContract, Unagreed, AgreedAtSerasa, Contract, PaymentStatus, Money
  <2> QED
    BY <2>1, <2>2
<1>3. TypeOK
  <2>1. row \in [Requests -> Row]
    BY DEF Init, Row, NoRow, RowStatus, Money, Names
  <2>2. past = [deals |-> [k \in Contracts |-> 0],
                at |-> [r \in Requests |-> [rows |-> {}, valid |-> {}, deals |-> 0]]]
    BY DEF Init
  <2>3. past \in [deals : [Contracts -> Nat], at : [Requests -> Past]]
    BY <2>2 DEF Past
  <2>4. /\ lapsed \subseteq Requests /\ inflight \subseteq Requests
        /\ cob \in [Requests -> Money] /\ notes \in [Requests -> Nat]
        /\ faults \in 0..MaxFaults /\ reprices \in 0..MaxReprices
    BY DEF Init, Money
  <2> QED
    BY <1>1, <1>2, <2>1, <2>3, <2>4 DEF TypeOK
<1>4. \A r \in Requests : RowFits(r) /\ Stage(r) /\ HasRow(r) /\ PastFits(r)
  <2> TAKE r \in Requests
  <2>1. /\ row[r].status = "NONE" /\ cob[r] = NoAmount /\ r \notin inflight
        /\ req[r].pc = "idle" /\ ~req[r].reused
    BY DEF Init, NoRow
  <2>2. /\ past.at[r] = [rows |-> {}, valid |-> {}, deals |-> 0]
        /\ past.deals[ContractOf[r]] = 0
    BY DEF Init
  <2>3. PastFits(r)
    BY <2>2 DEF PastFits
  <2> QED
    BY <2>1, <2>3 DEF RowFits, Stage, HasRow, Absent, Exists, At, Untouched, Noting, Live
<1>5. \A r \in Requests : StopsAtKey(r) /\ NoneToReuse(r) /\ ReadWithout(r)
  BY DEF Init, NoRow, StopsAtKey, Repeats, NoneToReuse, Issues, ReadWithout,
         HasRead, Exists
<1>6. AgreementIsBacked
  BY <1>2 DEF AgreementIsBacked
<1> QED
  BY <1>3, <1>4, <1>5, <1>6 DEF IndInv, BankChargeHasRow

-----------------------------------------------------------------------------
(* What Go, Reply and Failing do to the request they move. *)

Moves(s) == /\ req' \in [Requests -> Request]
            /\ \A r \in Requests \ {s} : req'[r] = req[r]
            /\ req'[s].kind = req[s].kind

LEMMA GoFact ==
  ASSUME TypeOK, NEW s \in Requests, NEW pc \in Pc, Go(s, pc)
  PROVE  /\ Moves(s)
         /\ req'[s].pc = pc /\ req'[s].amount = req[s].amount
         /\ req'[s].binding = req[s].binding /\ req'[s].charge = req[s].charge
         /\ req'[s].reused = req[s].reused
  BY SMTT(30) DEF TypeOK, Go, Moves, Request

LEMMA ReplyFact ==
  ASSUME TypeOK, NEW s \in Requests,
         NEW a \in {"charge", "refused", "error", "crashed"}, Reply(s, a)
  PROVE  /\ Moves(s)
         /\ req'[s].pc = "done" /\ req'[s].answer = a /\ ~req'[s].reused
         /\ req'[s].amount = req[s].amount
<1> DEFINE new == [req[s] EXCEPT
             !.pc = "done", !.answer = a, !.charge = Nobody,
             !.binding = FALSE, !.reused = FALSE, !.failure = "FAILED"]
<1>0. req[s] \in Request /\ "done" \in Pc
  BY DEF TypeOK, Pc
<1>1. new \in Request /\ new.kind = req[s].kind /\ new.pc = "done" /\ new.answer = a
      /\ ~new.reused /\ new.amount = req[s].amount
  BY <1>0 DEF Request
<1>2. req' = [req EXCEPT ![s] = new]
  BY DEF Reply
<1> HIDE DEF new
<1> QED
  BY <1>1, <1>2 DEF TypeOK, Moves

LEMMA FailingFact ==
  ASSUME TypeOK, NEW s \in Requests, NEW f \in {"PENDING", "FAILED"}, Failing(s, f)
  PROVE  /\ Moves(s)
         /\ req'[s].pc = "fail" /\ req'[s].amount = req[s].amount
         /\ req'[s].reused = req[s].reused
<1> DEFINE new == [req[s] EXCEPT !.pc = "fail", !.failure = f]
<1>0. req[s] \in Request /\ "fail" \in Pc
  BY DEF TypeOK, Pc
<1>1. new \in Request /\ new.kind = req[s].kind /\ new.pc = "fail"
      /\ new.reused = req[s].reused /\ new.amount = req[s].amount
  BY <1>0 DEF Request
<1>2. req' = [req EXCEPT ![s] = new]
  BY DEF Failing
<1> HIDE DEF new
<1> QED
  BY <1>1, <1>2 DEF TypeOK, Moves

-----------------------------------------------------------------------------
(* Steps that only move a request: it is enough to look at that request.    *)

LEMMA ReqFrame ==
  ASSUME IndInv, NEW s \in Requests,
         UNCHANGED <<row, lapsed, cob, contract, notes, reprices, past>>,
         faults' \in 0..MaxFaults, faults' >= faults,
         inflight' = inflight \/ inflight' = inflight \cup {s},
         Moves(s), ~At(s, "idle"), ~At(s, "idle")',
         RowFits(s)', Stage(s)', HasRow(s)', StopsAtKey(s)', NoneToReuse(s)',
         ReadWithout(s)'
  PROVE  IndInv'
<1> USE RequestAssumption DEF IndInv, Moves
<1>1. TypeOK'
  BY DEF TypeOK
<1>2. ASSUME NEW r \in Requests, r # s
      PROVE  /\ RowFits(r)' /\ Stage(r)' /\ HasRow(r)'
             /\ StopsAtKey(r)' /\ NoneToReuse(r)' /\ ReadWithout(r)'
  <2>1. req'[r] = req[r] /\ (r \in inflight' <=> r \in inflight)
    BY <1>2
  <2>2. RowFits(r)' /\ Stage(r)'
    BY <2>1 DEF RowFits, Stage, Exists, RowKey, Absent
  <2>3. HasRow(r)'
    BY <2>1 DEF HasRow, BankChargeHasRow, At, Exists, RowKey, TypeOK
  <2>4. StopsAtKey(r)' /\ NoneToReuse(r)' /\ ReadWithout(r)'
    BY <2>1 DEF StopsAtKey, Repeats, Answers, Absent, Exists, NoneToReuse, Issues,
                Payable, ReadWithout, HasRead, Running
  <2> QED
    BY <2>2, <2>3, <2>4
<1>3. \A r \in Requests : PastFits(r)'
  BY DEF PastFits, At, Exists
<1>4. AgreementIsBacked'
  BY DEF AgreementIsBacked
<1>5. BankChargeHasRow'
  BY <1>2 DEF BankChargeHasRow
<1> QED
  BY <1>1, <1>2, <1>3, <1>4, <1>5

\* A charge with the key answers for the request, or nobody has it.
LEMMA LookupKeyInd ==
  ASSUME IndInv, NEW s \in Requests, LookupKey(s)
  PROVE  IndInv'
<1> USE RequestAssumption, BoundAssumption DEF IndInv
<1>1. /\ UNCHANGED <<row, lapsed, cob, contract, notes, reprices, past>>
      /\ UNCHANGED <<inflight, faults>>
  BY DEF LookupKey, OnlyReq, IssueUnchanged, bank, At, TypeOK
<1>2. Moves(s) /\ req[s].pc = "lookup" /\ req'[s].amount = req[s].amount /\ ~req'[s].reused
      /\ \/ /\ ByKey(s) = {} /\ req'[s].binding = req[s].binding
            /\ req'[s].pc = IF req[s].kind = "charge" THEN "contract" ELSE "reuse"
         \/ req'[s].pc = "done"
  <2>1. CASE ByKey(s) = {}
    <3>1. Go(s, IF req[s].kind = "charge" THEN "contract" ELSE "reuse")
      BY <2>1 DEF LookupKey
    <3> QED
      BY <2>1, <3>1, GoFact DEF Pc, LookupKey, At, Stage, Untouched
  <2>2. CASE ByKey(s) # {}
    BY <2>2, ReplyFact DEF LookupKey, At
  <2> QED
    BY <2>1, <2>2
<1>3. RowFits(s)'
  BY <1>1, <1>2 DEF Moves, RowFits, Stage, Absent, Exists, RowKey, Untouched
<1>4. Stage(s)'
  BY <1>1, <1>2 DEF Moves, Stage, Absent, Exists, Untouched, Noting
<1>5. HasRow(s)'
  BY <1>1, <1>2 DEF Moves, HasRow, Stage, Absent, Untouched, At
<1>6. StopsAtKey(s)'
  BY <1>1, <1>2 DEF Moves, StopsAtKey, Repeats, Answers, Absent, Exists, Stage, Untouched, ByKey, PastFits, TypeOK, Past
<1>7. NoneToReuse(s)'
  BY <1>1, <1>2 DEF Moves, NoneToReuse, Issues, Payable, Exists, Stage, Absent, Untouched
<1>8. ReadWithout(s)'
  BY <1>1, <1>2 DEF Moves, ReadWithout, HasRead, Running, Stage
<1>9. ~At(s, "idle") /\ ~At(s, "idle")'
  BY <1>2 DEF At
<1> QED
  BY <1>1, <1>2, <1>3, <1>4, <1>5, <1>6, <1>7, <1>8, <1>9, ReqFrame DEF TypeOK

\* Nothing has been done yet.
LEMMA RefuseInd ==
  ASSUME IndInv, NEW s \in Requests, Refuse(s)
  PROVE  IndInv'
<1> USE RequestAssumption, BoundAssumption DEF IndInv
<1>1. /\ UNCHANGED <<row, lapsed, cob, contract, notes, reprices, past>>
      /\ UNCHANGED <<inflight, faults>>
  BY DEF Refuse, OnlyReq, IssueUnchanged, bank, At, TypeOK
<1>2. Moves(s) /\ req[s].pc \in {"lookup", "contract", "reuse"} /\ req'[s].pc = "done"
      /\ req'[s].amount = req[s].amount /\ ~req'[s].reused
  BY ReplyFact DEF Refuse
<1>3. RowFits(s)'
  BY <1>1, <1>2 DEF Moves, RowFits, Stage, Absent, Exists, RowKey, Untouched
<1>4. Stage(s)'
  BY <1>1, <1>2 DEF Moves, Stage, Absent, Exists, Untouched, Noting
<1>5. HasRow(s)'
  BY <1>1, <1>2 DEF Moves, HasRow, Stage, Absent, Untouched, At
<1>6. StopsAtKey(s)'
  BY <1>1, <1>2 DEF Moves, StopsAtKey, Repeats, Answers, Absent, Exists, Stage, Untouched
<1>7. NoneToReuse(s)'
  BY <1>1, <1>2 DEF Moves, NoneToReuse, Issues, Payable, Exists, Stage, Absent, Untouched
<1>8. ReadWithout(s)'
  BY <1>1, <1>2 DEF Moves, ReadWithout, HasRead, Running
<1>9. ~At(s, "idle") /\ ~At(s, "idle")'
  BY <1>2 DEF At
<1> QED
  BY <1>1, <1>2, <1>3, <1>4, <1>5, <1>6, <1>7, <1>8, <1>9, ReqFrame DEF TypeOK

\* The interaction of the charge exists, or is created next.
LEMMA NoteLookupInd ==
  ASSUME IndInv, NEW s \in Requests, NoteLookup(s)
  PROVE  IndInv'
<1> USE RequestAssumption, BoundAssumption DEF IndInv
<1>1. /\ UNCHANGED <<row, lapsed, cob, contract, notes, reprices, past>>
      /\ UNCHANGED <<inflight, faults>>
  BY DEF NoteLookup, OnlyReq, IssueUnchanged, bank, At, TypeOK
<1>2. Moves(s) /\ req[s].pc = "noteLook" /\ req'[s].amount = req[s].amount
      /\ req'[s].pc = (IF notes[req[s].charge] > 0 THEN "agree" ELSE "note")
      /\ req'[s].binding = req[s].binding /\ req'[s].charge = req[s].charge
      /\ req'[s].reused = req[s].reused
  BY GoFact DEF NoteLookup, At, Pc
<1>3. RowFits(s)'
  BY <1>1, <1>2 DEF Moves, RowFits, Stage, Absent, Exists, RowKey, Untouched
<1>4. Stage(s)'
  BY <1>1, <1>2 DEF Moves, Stage, Absent, Exists, Untouched, Noting
<1>5. HasRow(s)'
  BY <1>1, <1>2 DEF Moves, HasRow, Stage, Absent, Untouched, At
<1>6. StopsAtKey(s)'
  BY <1>1, <1>2 DEF Moves, StopsAtKey, Repeats, Answers, Absent, Exists, Stage, Untouched
<1>7. NoneToReuse(s)'
  BY <1>1, <1>2 DEF Moves, NoneToReuse, Issues, Payable, Exists, Stage, Absent, Untouched
<1>8. ReadWithout(s)'
  BY <1>1, <1>2 DEF Moves, ReadWithout, HasRead, Running
<1>9. ~At(s, "idle") /\ ~At(s, "idle")'
  BY <1>2 DEF At
<1> QED
  BY <1>1, <1>2, <1>3, <1>4, <1>5, <1>6, <1>7, <1>8, <1>9, ReqFrame DEF TypeOK

\* Nothing reached the bank.
LEMMA BankRefusesInd ==
  ASSUME IndInv, NEW s \in Requests, BankRefuses(s)
  PROVE  IndInv'
<1> USE RequestAssumption, BoundAssumption DEF IndInv
<1>1. /\ UNCHANGED <<row, lapsed, cob, contract, notes, reprices, past>>
      /\ UNCHANGED <<inflight, faults>>
  BY DEF BankRefuses, OnlyReq, IssueUnchanged, bank, At, TypeOK
<1>2. Moves(s) /\ req[s].pc = "issue" /\ req'[s].pc = "fail"
      /\ req'[s].amount = req[s].amount /\ req'[s].reused = req[s].reused
  BY FailingFact DEF BankRefuses, At
<1>3. RowFits(s)'
  BY <1>1, <1>2 DEF Moves, RowFits, Stage, Absent, Exists, RowKey, Untouched
<1>4. Stage(s)'
  BY <1>1, <1>2 DEF Moves, Stage, Absent, Exists, Untouched, Noting
<1>5. HasRow(s)'
  BY <1>1, <1>2 DEF Moves, HasRow, Stage, Absent, Untouched, At
<1>6. StopsAtKey(s)'
  BY <1>1, <1>2 DEF Moves, StopsAtKey, Repeats, Answers, Absent, Exists, Stage, Untouched
<1>7. NoneToReuse(s)'
  BY <1>1, <1>2 DEF Moves, NoneToReuse, Issues, Payable, Exists, Stage, Absent, Untouched
<1>8. ReadWithout(s)'
  BY <1>1, <1>2 DEF Moves, ReadWithout, HasRead, Running
<1>9. ~At(s, "idle") /\ ~At(s, "idle")'
  BY <1>2 DEF At
<1> QED
  BY <1>1, <1>2, <1>3, <1>4, <1>5, <1>6, <1>7, <1>8, <1>9, ReqFrame DEF TypeOK

\* The request may still reach the bank, for the amount it asked.
LEMMA TimesOutInd ==
  ASSUME IndInv, NEW s \in Requests, TimesOut(s)
  PROVE  IndInv'
<1> USE RequestAssumption, BoundAssumption DEF IndInv
<1>1. /\ UNCHANGED <<row, lapsed, cob, contract, notes, reprices, past>>
      /\ UNCHANGED faults /\ inflight' = inflight \cup {s}
  BY DEF TimesOut, OnlyReq, IssueUnchanged, bank, At, TypeOK
<1>2. Moves(s) /\ req[s].pc = "issue" /\ req'[s].pc = "fail"
      /\ req'[s].amount = req[s].amount /\ req'[s].reused = req[s].reused
  BY FailingFact DEF TimesOut, At
<1>3. RowFits(s)'
  BY <1>1, <1>2 DEF Moves, RowFits, Stage, Absent, Exists, RowKey, Untouched
<1>4. Stage(s)'
  BY <1>1, <1>2 DEF Moves, Stage, Absent, Exists, Untouched, Noting
<1>5. HasRow(s)'
  BY <1>1, <1>2 DEF Moves, HasRow, Stage, Absent, Untouched, At
<1>6. StopsAtKey(s)'
  BY <1>1, <1>2 DEF Moves, StopsAtKey, Repeats, Answers, Absent, Exists, Stage, Untouched
<1>7. NoneToReuse(s)'
  BY <1>1, <1>2 DEF Moves, NoneToReuse, Issues, Payable, Exists, Stage, Absent, Untouched
<1>8. ReadWithout(s)'
  BY <1>1, <1>2 DEF Moves, ReadWithout, HasRead, Running
<1>9. ~At(s, "idle") /\ ~At(s, "idle")'
  BY <1>2 DEF At
<1> QED
  BY <1>1, <1>2, <1>3, <1>4, <1>5, <1>6, <1>7, <1>8, <1>9, ReqFrame DEF TypeOK

\* The request may still reach the bank, for the amount it asked.
LEMMA ConnectionBreaksInd ==
  ASSUME IndInv, NEW s \in Requests, ConnectionBreaks(s)
  PROVE  IndInv'
<1> USE RequestAssumption, BoundAssumption DEF IndInv
<1>1. /\ UNCHANGED <<row, lapsed, cob, contract, notes, reprices, past>>
      /\ UNCHANGED faults /\ inflight' = inflight \cup {s}
  BY DEF ConnectionBreaks, OnlyReq, IssueUnchanged, bank, At, TypeOK
<1>2. Moves(s) /\ req[s].pc = "issue" /\ req'[s].pc = "fail"
      /\ req'[s].amount = req[s].amount /\ req'[s].reused = req[s].reused
  BY FailingFact DEF ConnectionBreaks, At
<1>3. RowFits(s)'
  BY <1>1, <1>2 DEF Moves, RowFits, Stage, Absent, Exists, RowKey, Untouched
<1>4. Stage(s)'
  BY <1>1, <1>2 DEF Moves, Stage, Absent, Exists, Untouched, Noting
<1>5. HasRow(s)'
  BY <1>1, <1>2 DEF Moves, HasRow, Stage, Absent, Untouched, At
<1>6. StopsAtKey(s)'
  BY <1>1, <1>2 DEF Moves, StopsAtKey, Repeats, Answers, Absent, Exists, Stage, Untouched
<1>7. NoneToReuse(s)'
  BY <1>1, <1>2 DEF Moves, NoneToReuse, Issues, Payable, Exists, Stage, Absent, Untouched
<1>8. ReadWithout(s)'
  BY <1>1, <1>2 DEF Moves, ReadWithout, HasRead, Running
<1>9. ~At(s, "idle") /\ ~At(s, "idle")'
  BY <1>2 DEF At
<1> QED
  BY <1>1, <1>2, <1>3, <1>4, <1>5, <1>6, <1>7, <1>8, <1>9, ReqFrame DEF TypeOK

\* A call that follows the bank's answer ends in the error handler, others in an error.
LEMMA DatabaseFailsInd ==
  ASSUME IndInv, NEW s \in Requests, DatabaseFails(s)
  PROVE  IndInv'
<1> USE RequestAssumption, BoundAssumption DEF IndInv
<1>1. /\ UNCHANGED <<row, lapsed, cob, contract, notes, reprices, past>>
      /\ UNCHANGED inflight /\ faults' \in 1..MaxFaults /\ faults' >= faults
  BY DEF DatabaseFails, OnlyReq, IssueUnchanged, bank, At, TypeOK
<1>2. Moves(s) /\ req[s].pc \notin {"idle", "issue", "done"}
      /\ req'[s].amount = req[s].amount
      /\ \/ /\ req'[s].pc = "fail" /\ ~req'[s].reused /\ ~req[s].reused
            /\ req[s].pc \in {"create", "noteLook", "note", "agree"}
         \/ req'[s].pc = "done" /\ ~req'[s].reused /\ req'[s].answer = "error"
  <2>1. CASE req[s].pc \in {"create", "noteLook", "note", "agree"} /\ ~req[s].reused
    BY <2>1, FailingFact DEF DatabaseFails
  <2>2. CASE ~(req[s].pc \in {"create", "noteLook", "note", "agree"} /\ ~req[s].reused)
    BY <2>2, ReplyFact DEF DatabaseFails
  <2> QED
    BY <2>1, <2>2
<1>3. RowFits(s)'
  BY <1>1, <1>2 DEF Moves, RowFits, Stage, Absent, Exists, RowKey, Untouched
<1>4. Stage(s)'
  BY <1>1, <1>2 DEF Moves, Stage, Absent, Exists, Untouched, Noting, RowFits, Live
<1>5. HasRow(s)'
  BY <1>1, <1>2 DEF Moves, HasRow, Stage, Absent, Untouched, At
<1>6. StopsAtKey(s)'
  BY <1>1, <1>2 DEF Moves, StopsAtKey, Repeats, Answers, Absent, Exists, Stage, Untouched
<1>7. NoneToReuse(s)'
  BY <1>1, <1>2 DEF Moves, NoneToReuse, Issues, Payable, Exists, Stage, Absent, Untouched, Noting, Live
<1>8. ReadWithout(s)'
  BY <1>1, <1>2 DEF Moves, ReadWithout, HasRead, Running
<1>9. ~At(s, "idle") /\ ~At(s, "idle")'
  BY <1>2 DEF At
<1> QED
  BY <1>1, <1>2, <1>3, <1>4, <1>5, <1>6, <1>7, <1>8, <1>9, ReqFrame DEF TypeOK

\* Whatever the request has done stays, and what it was asking may be done.
LEMMA CrashInd ==
  ASSUME IndInv, NEW s \in Requests, Crash(s)
  PROVE  IndInv'
<1> USE RequestAssumption, BoundAssumption DEF IndInv
<1>1. /\ UNCHANGED <<row, lapsed, cob, contract, notes, reprices, past>>
      /\ faults' \in 1..MaxFaults /\ faults' >= faults
      /\ \/ inflight' = inflight
         \/ inflight' = inflight \cup {s} /\ req[s].pc = "issue"
  BY DEF Crash, OnlyReq, IssueUnchanged, bank, At, TypeOK
<1>2. Moves(s) /\ req[s].pc \notin {"idle", "done"} /\ req'[s].pc = "done"
      /\ req'[s].amount = req[s].amount /\ ~req'[s].reused
      /\ req'[s].answer = "crashed"
  BY ReplyFact DEF Crash
<1>3. RowFits(s)'
  BY <1>1, <1>2 DEF Moves, RowFits, Stage, Absent, Exists, RowKey, Untouched
<1>4. Stage(s)'
  BY <1>1, <1>2 DEF Moves, Stage, Absent, Exists, Untouched, Noting
<1>5. HasRow(s)'
  BY <1>1, <1>2 DEF Moves, HasRow, Stage, Absent, Untouched, At
<1>6. StopsAtKey(s)'
  BY <1>1, <1>2 DEF Moves, StopsAtKey, Repeats, Answers, Absent, Exists, Stage, Untouched
<1>7. NoneToReuse(s)'
  BY <1>1, <1>2 DEF Moves, NoneToReuse, Issues, Payable, Exists, Stage, Absent, Untouched
<1>8. ReadWithout(s)'
  BY <1>1, <1>2 DEF Moves, ReadWithout, HasRead, Running
<1>9. ~At(s, "idle") /\ ~At(s, "idle")'
  BY <1>2 DEF At
<1> QED
  BY <1>1, <1>2, <1>3, <1>4, <1>5, <1>6, <1>7, <1>8, <1>9, ReqFrame DEF TypeOK

\* The amount is fixed, and what the contract said is remembered.
LEMMA ReadContractInd ==
  ASSUME IndInv, NEW s \in Requests, ReadContract(s)
  PROVE  IndInv'
<1> USE RequestAssumption, BoundAssumption DEF IndInv
<1>1. /\ UNCHANGED <<row, lapsed, cob, contract, notes, reprices, past>>
      /\ UNCHANGED <<inflight, faults>>
  BY DEF ReadContract, OnlyReq, IssueUnchanged, bank, At, TypeOK
<1>2. Moves(s) /\ req[s].pc = "contract" /\ ~req'[s].reused
      /\ \/ /\ req'[s].amount \in Amounts
            /\ req'[s].binding = Binding(contract[ContractOf[s]])
            /\ req'[s].pc = CASE req[s].kind = "charge" -> "issue"
                               [] req[s].kind = "document" -> "lookup"
                               [] OTHER -> "reuse"
         \/ req'[s].pc = "done"
  <2> DEFINE c == contract[ContractOf[s]]
             amount == CASE req[s].kind = "charge" -> req[s].amount
                         [] req[s].kind = "agreement" -> c.agreed
                         [] OTHER -> c.price
             pc == CASE req[s].kind = "charge" -> "issue"
                     [] req[s].kind = "document" -> "lookup"
                     [] OTHER -> "reuse"
             new == [req[s] EXCEPT !.binding = Binding(c), !.amount = amount, !.pc = pc]
  <2>0. req[s] \in Request /\ c \in Contract /\ req[s].pc = "contract" /\ ~req[s].reused
    BY DEF TypeOK, ReadContract, At, Stage, Untouched
  <2>1. CASE Acceptable(req[s].kind, c)
    <3>1. amount \in Amounts /\ pc \in Pc /\ Binding(c) \in BOOLEAN
      BY <2>0, <2>1 DEF Acceptable, Stage, Contract, Money, Pc, Binding
    <3>2. pc = CASE req[s].kind = "charge" -> "issue"
                 [] req[s].kind = "document" -> "lookup"
                 [] OTHER -> "reuse"
      OBVIOUS
    <3>3. req' = [req EXCEPT ![s] = new]
      BY <2>1 DEF ReadContract
    <3> HIDE DEF amount, pc
    <3>4. /\ new \in Request /\ new.kind = req[s].kind /\ new.reused = req[s].reused
          /\ new.amount = amount /\ new.pc = pc /\ new.binding = Binding(c)
      BY <2>0, <3>1 DEF Request, Money
    <3> HIDE DEF new
    <3> QED
      BY <2>0, <3>1, <3>2, <3>3, <3>4 DEF TypeOK, Moves
  <2>2. CASE ~Acceptable(req[s].kind, c)
    BY <2>0, <2>2, ReplyFact DEF ReadContract
  <2> QED
    BY <2>1, <2>2
<1>3. RowFits(s)'
  BY <1>1, <1>2 DEF Moves, RowFits, Stage, Absent, Exists, RowKey, Untouched
<1>4. Stage(s)'
  BY <1>1, <1>2 DEF Moves, Stage, Absent, Exists, Untouched, Noting
<1>5. HasRow(s)'
  BY <1>1, <1>2 DEF Moves, HasRow, Stage, Absent, Untouched, At
<1>6. StopsAtKey(s)'
  BY <1>1, <1>2 DEF Moves, StopsAtKey, Repeats, Answers, Absent, Exists, Stage, Untouched, PastFits, TypeOK
<1>7. NoneToReuse(s)'
  BY <1>1, <1>2 DEF Moves, NoneToReuse, Issues, Payable, Exists, Stage, Absent, Untouched
<1>8. ReadWithout(s)'
  BY <1>1, <1>2 DEF Moves, ReadWithout, HasRead, Running, Binding
<1>9. ~At(s, "idle") /\ ~At(s, "idle")'
  BY <1>2 DEF At
<1> QED
  BY <1>1, <1>2, <1>3, <1>4, <1>5, <1>6, <1>7, <1>8, <1>9, ReqFrame DEF TypeOK

\* What is reused is payable; when there is nothing, every payable Pix differs.
LEMMA FindReusableInd ==
  ASSUME IndInv, NEW s \in Requests, FindReusable(s)
  PROVE  IndInv'
<1> USE RequestAssumption, BoundAssumption DEF IndInv
<1>1. /\ UNCHANGED <<row, lapsed, cob, contract, notes, reprices, past>>
      /\ UNCHANGED <<inflight, faults>>
  BY DEF FindReusable, OnlyReq, IssueUnchanged, bank, At, TypeOK
<1>2. Moves(s) /\ req[s].pc = "reuse" /\ req'[s].amount = req[s].amount
      /\ req'[s].binding = req[s].binding
      /\ \/ Reusable(s) = {} /\ req'[s].pc = "issue" /\ ~req'[s].reused
         \/ /\ req'[s].charge \in Reusable(s)
            /\ req'[s].pc = "noteLook" /\ req'[s].reused
  <2>1. CASE Reusable(s) = {}
    BY <2>1, GoFact DEF FindReusable, At, Pc, Stage, Untouched
  <2>2. CASE Reusable(s) # {}
    <3>1. PICK q \in Reusable(s) :
            req' = [req EXCEPT ![s] = [req[s] EXCEPT
                       !.pc = "noteLook", !.charge = q, !.reused = TRUE]]
      BY <2>2 DEF FindReusable
    <3> DEFINE new == [req[s] EXCEPT !.pc = "noteLook", !.charge = q, !.reused = TRUE]
    <3>2. req[s] \in Request /\ "noteLook" \in Pc /\ q \in Requests /\ req[s].pc = "reuse"
      BY DEF TypeOK, Pc, Reusable, FindReusable, At
    <3>3. /\ new \in Request /\ new.kind = req[s].kind /\ new.reused = TRUE
          /\ new.amount = req[s].amount /\ new.pc = "noteLook" /\ new.charge = q
          /\ new.binding = req[s].binding
      BY <3>2 DEF Request
    <3>4. req' = [req EXCEPT ![s] = new]
      BY <3>1
    <3> HIDE DEF new
    <3> QED
      BY <3>2, <3>3, <3>4 DEF TypeOK, Moves
  <2> QED
    BY <2>1, <2>2
<1>3. RowFits(s)'
  BY <1>1, <1>2 DEF Moves, RowFits, Stage, Absent, Exists, RowKey, Untouched
<1>4. Stage(s)'
  BY <1>1, <1>2 DEF Moves, Stage, Absent, Exists, Untouched, Noting, Reusable, Payable, Live
<1>5. HasRow(s)'
  BY <1>1, <1>2 DEF Moves, HasRow, Stage, Absent, Untouched, At
<1>6. StopsAtKey(s)'
  BY <1>1, <1>2 DEF Moves, StopsAtKey, Repeats, Answers, Absent, Exists, Stage, Untouched
<1>7. NoneToReuse(s)'
  BY <1>1, <1>2 DEF Moves, NoneToReuse, Issues, Payable, Exists, Stage, Absent, Untouched, Reusable, PastFits, TypeOK, Past
<1>8. ReadWithout(s)'
  BY <1>1, <1>2 DEF Moves, ReadWithout, HasRead, Running
<1>9. ~At(s, "idle") /\ ~At(s, "idle")'
  BY <1>2 DEF At
<1> QED
  BY <1>1, <1>2, <1>3, <1>4, <1>5, <1>6, <1>7, <1>8, <1>9, ReqFrame DEF TypeOK

-----------------------------------------------------------------------------
(* Steps of the rest of the system: rows only become more settled, and no   *)
(* agreement starts.                                                        *)

LEMMA EnvFrame ==
  ASSUME IndInv,
         UNCHANGED <<cob, inflight, notes, req, faults, past>>,
         reprices' \in 0..MaxReprices,
         lapsed \subseteq lapsed', lapsed' \subseteq Requests,
         row' \in [Requests -> Row],
         \A q \in Requests :
            /\ row'[q].amount = row[q].amount /\ row'[q].key = row[q].key
            /\ \/ row'[q].status = row[q].status
               \/ /\ row[q].status # "NONE" /\ row'[q].status \in Live
                  /\ cob[q] # NoAmount
                  /\ row'[q].status = "ISSUED" => row[q].status = "PENDING",
         contract' \in [Contracts -> Contract],
         \A k \in Contracts :
            /\ contract'[k].ref = contract[k].ref
            /\ contract'[k].agreed = contract[k].agreed
            /\ Running(k)' => Running(k)
  PROVE  IndInv'
<1> USE RequestAssumption DEF IndInv
<1>1. TypeOK'
  BY DEF TypeOK
<1>2. \A q \in Requests : /\ Exists(q)' <=> Exists(q)
                          /\ row[q].status \in Live => row'[q].status \in Live
                          /\ row[q].status \in Live /\ Payable(q)' => Payable(q)
  BY DEF Exists, Live, Payable
<1>3. ASSUME NEW r \in Requests
      PROVE  RowFits(r)' /\ Stage(r)'
  <2>1. RowFits(r)'
    BY DEF RowFits, Exists, RowKey, Live
  <2>2. Stage(r)'
    BY <1>2 DEF Stage, Absent
  <2> QED
    BY <2>1, <2>2
<1>4. AgreementIsBacked'
  BY DEF AgreementIsBacked, Live
<1>5. BankChargeHasRow'
  BY <1>2 DEF BankChargeHasRow, HasRow, RowKey, At
<1>6. \A r \in Requests : PastFits(r)'
  BY <1>2 DEF PastFits, At, TypeOK, Past
<1>7. ASSUME NEW r \in Requests
      PROVE  StopsAtKey(r)' /\ NoneToReuse(r)' /\ ReadWithout(r)'
  <2>1. past.at[r].rows \subseteq Requests /\ past.at[r].valid \subseteq Requests
    BY DEF TypeOK, Past
  <2>2. StopsAtKey(r)'
    <3>1. \A q \in past.at[r].rows : Answers(r, q)' => Answers(r, q)
      BY <2>1 DEF Answers
    <3>2. Repeats(r)' => Repeats(r)
      BY <3>1 DEF Repeats
    <3>3. Absent(r) => Absent(r)'
      BY <1>2 DEF Absent
    <3> QED
      BY <3>2, <3>3 DEF StopsAtKey
  <2>3. NoneToReuse(r)'
    BY <1>2, <2>1 DEF NoneToReuse, Issues, PastFits
  <2>4. ReadWithout(r)'
    BY DEF ReadWithout, HasRead
  <2> QED
    BY <2>2, <2>3, <2>4
<1> QED
  BY <1>1, <1>3, <1>4, <1>5, <1>6, <1>7

LEMMA LapseInd == ASSUME IndInv, NEW q \in Requests, Lapse(q) PROVE IndInv'
  BY EnvFrame DEF Lapse, bank, IndInv, TypeOK, Running

\* What the job and the webhook write about a charge the bank holds.
LEMMA JobInd ==
  ASSUME IndInv, NEW q \in Requests, JobConfirms(q) \/ JobExpires(q) \/ JobPays(q)
  PROVE  IndInv'
<1>1. PICK status \in Live :
        /\ row' = [row EXCEPT ![q].status = status]
        /\ row[q].status # "NONE" /\ cob[q] # NoAmount
        /\ status = "ISSUED" => row[q].status = "PENDING"
  BY DEF JobConfirms, JobExpires, JobPays, EnvRow, Live
<1>2. UNCHANGED <<lapsed, cob, inflight, contract, notes, req, faults, reprices, past>>
  BY DEF JobConfirms, JobExpires, JobPays, EnvRow, bank
<1>3. row' \in [Requests -> Row]
  BY <1>1 DEF IndInv, TypeOK, Row, RowStatus, Live
<1> QED
  BY <1>1, <1>2, <1>3, EnvFrame DEF IndInv, TypeOK, Row, Running

LEMMA WebhookPaysInd == ASSUME IndInv, NEW q \in Requests, WebhookPays(q) PROVE IndInv'
<1> USE RequestAssumption
<1>1. /\ row' = [row EXCEPT ![q].status = "PAID"]
      /\ row[q].status # "NONE" /\ cob[q] # NoAmount
      /\ contract' = [contract EXCEPT ![ContractOf[q]].status = "PAID"]
  BY DEF WebhookPays, EnvRow
<1>2. UNCHANGED <<lapsed, cob, inflight, notes, req, faults, reprices, past>>
  BY DEF WebhookPays, EnvRow, bank
<1>3. row' \in [Requests -> Row] /\ contract' \in [Contracts -> Contract]
  <2>1. row' \in [Requests -> Row]
    BY <1>1 DEF IndInv, TypeOK, Row, RowStatus
  <2>2. "PAID" \in PaymentStatus /\ contract \in [Contracts -> Contract]
    BY DEF PaymentStatus, IndInv, TypeOK
  <2>3. contract' \in [Contracts -> Contract]
    BY <1>1, <2>2 DEF Contract
  <2> QED
    BY <2>1, <2>3
<1>4. \A k \in Contracts : /\ contract'[k].ref = contract[k].ref
                           /\ contract'[k].agreed = contract[k].agreed
                           /\ Running(k)' => Running(k)
  BY <1>1 DEF IndInv, TypeOK, Contract, Running
<1>5. \A p \in Requests : /\ row'[p].amount = row[p].amount /\ row'[p].key = row[p].key
                          /\ p # q => row'[p].status = row[p].status
                          /\ row'[q].status = "PAID"
  BY <1>1 DEF IndInv, TypeOK, Row
<1> QED
  BY <1>1, <1>2, <1>3, <1>4, <1>5, EnvFrame DEF IndInv, TypeOK, Live

LEMMA RepriceInd ==
  ASSUME IndInv, NEW k \in Contracts, NEW price \in Amounts, Reprice(k, price)
  PROVE  IndInv'
<1>1. /\ contract' \in [Contracts -> Contract] /\ reprices' \in 0..MaxReprices
      /\ \A j \in Contracts : /\ contract'[j].ref = contract[j].ref
                              /\ contract'[j].agreed = contract[j].agreed
                              /\ Running(j)' => Running(j)
  BY BoundAssumption DEF Reprice, IndInv, TypeOK, Contract, Running
<1> QED
  BY <1>1, EnvFrame DEF Reprice, bank, IndInv, TypeOK

LEMMA DeadlinePassesInd == ASSUME IndInv, NEW k \in Contracts, DeadlinePasses(k) PROVE IndInv'
<1>1. /\ contract' \in [Contracts -> Contract]
      /\ \A j \in Contracts : /\ contract'[j].ref = contract[j].ref
                              /\ contract'[j].agreed = contract[j].agreed
                              /\ Running(j)' => Running(j)
  BY DEF DeadlinePasses, IndInv, TypeOK, Contract, Running
<1> QED
  BY <1>1, EnvFrame DEF DeadlinePasses, bank, IndInv, TypeOK

LEMMA MarkOverdueAsBreachedInd == ASSUME IndInv, MarkOverdueAsBreached PROVE IndInv'
<1>1. /\ contract' \in [Contracts -> Contract]
      /\ \A j \in Contracts : /\ contract'[j].ref = contract[j].ref
                              /\ contract'[j].agreed = contract[j].agreed
                              /\ Running(j)' => Running(j)
  BY DEF MarkOverdueAsBreached, IndInv, TypeOK, Contract, PaymentStatus, Running
<1> QED
  BY <1>1, EnvFrame DEF MarkOverdueAsBreached, bank, IndInv, TypeOK

-----------------------------------------------------------------------------
(* Steps that register a charge at the bank *)

\* The bank holds what the request asks for, under a txid it did not know.
LEMMA RegisterFrame ==
  ASSUME IndInv, NEW s \in Requests,
         UNCHANGED <<row, lapsed, contract, notes, faults, reprices, past>>,
         Register(s), req[s].amount \in Amounts, ~req[s].reused,
         inflight' \subseteq inflight,
         ~Absent(s) \/ req[s].pc = "issue",
         Moves(s), req'[s].amount = req[s].amount, ~At(s, "idle"),
         \/ req'[s] = req[s] /\ req[s].pc \notin Untouched
         \/ /\ req[s].pc = "issue" /\ req'[s].pc = "create" /\ ~req'[s].reused
            /\ req'[s].binding = req[s].binding
  PROVE  IndInv'
<1> USE RequestAssumption, BoundAssumption DEF IndInv
<1>1. /\ cob' \in [Requests -> Money] /\ cob'[s] = req[s].amount /\ cob'[s] # NoAmount
      /\ \A q \in Requests \ {s} : cob'[q] = cob[q]
  BY DEF Register, TypeOK, Money
<1>2. TypeOK'
  BY <1>1 DEF TypeOK, Moves
<1>3. ASSUME NEW r \in Requests
      PROVE  RowFits(r)' /\ Stage(r)'
  <2>1. RowFits(r)'
    BY <1>1 DEF RowFits, Exists, RowKey, Moves
  <2>2. CASE r # s
    <3>1. req'[r] = req[r] /\ (Absent(r) => Absent(r)') /\ Exists(r)' = Exists(r)
      BY <1>1, <2>2 DEF Absent, Exists, Moves
    <3>2. cob'[r] = cob[r]
      BY <1>1, <2>2
    <3> QED
      BY <2>1, <3>1, <3>2 DEF Stage
  <2>3. CASE r = s /\ req'[s] = req[s]
    <3>1. Exists(s)' = Exists(s)
      BY DEF Exists
    <3> QED
      BY <1>1, <2>1, <2>3, <3>1 DEF Stage, Untouched
  <2>4. CASE r = s /\ req'[s] # req[s]
    <3>1. req[s].pc = "issue" /\ req'[s].pc = "create" /\ ~req'[s].reused /\ ~Exists(s)'
      BY <2>4 DEF Stage, Absent, Exists, Untouched
    <3> QED
      BY <1>1, <2>1, <2>4, <3>1 DEF Stage, Untouched, Noting
  <2> QED
    BY <2>1, <2>2, <2>3, <2>4
<1>4. AgreementIsBacked'
  BY <1>1 DEF AgreementIsBacked, RowFits, Exists
<1>5. ASSUME NEW r \in Requests
      PROVE  HasRow(r)'
  <2>1. CASE r # s
    BY <1>1, <2>1 DEF BankChargeHasRow, HasRow, Exists, RowKey, At, Moves
  <2>2. CASE r = s /\ req'[s] = req[s]
    BY <1>1, <2>2 DEF BankChargeHasRow, HasRow, Exists, RowKey, At, Absent, Untouched
  <2>3. CASE r = s /\ req'[s].pc = "create"
    BY <2>3 DEF HasRow, At
  <2> QED
    BY <2>1, <2>2, <2>3
<1>6. \A r \in Requests : PastFits(r)'
  BY DEF PastFits, At, Exists, Moves, Untouched
<1>7. ASSUME NEW r \in Requests
      PROVE  StopsAtKey(r)' /\ NoneToReuse(r)' /\ ReadWithout(r)'
  <2>1. StopsAtKey(r)'
    BY <1>1 DEF StopsAtKey, Repeats, Answers, Absent, Exists, Moves
  <2>2. NoneToReuse(r)' /\ ReadWithout(r)'
    BY DEF NoneToReuse, Issues, Exists, Payable, ReadWithout, HasRead, Running, Moves
  <2> QED
    BY <2>1, <2>2
<1> QED
  BY <1>2, <1>3, <1>4, <1>5, <1>6, <1>7 DEF BankChargeHasRow

LEMMA BankAnswersInd == ASSUME IndInv, NEW s \in Requests, BankAnswers(s) PROVE IndInv'
<1>1. /\ Moves(s) /\ req[s].pc = "issue" /\ req'[s].pc = "create"
      /\ req'[s].amount = req[s].amount /\ req'[s].reused = req[s].reused
      /\ req'[s].binding = req[s].binding
  BY GoFact DEF BankAnswers, At, Pc, IndInv
<1>2. req[s].amount \in Amounts /\ ~req[s].reused
  BY <1>1 DEF IndInv, Stage, Untouched
<1> QED
  BY <1>1, <1>2, RegisterFrame DEF BankAnswers, IssueUnchanged, At

LEMMA BankRegistersInd == ASSUME IndInv, NEW s \in Requests, BankRegisters(s) PROVE IndInv'
<1>1. /\ s \in inflight /\ ~Absent(s)
      /\ req[s].pc \notin Untouched /\ ~req[s].reused /\ ~At(s, "idle")
  BY DEF BankRegisters, IndInv, Stage, Absent, Untouched, At
<1>2. Moves(s) /\ req' = req
  BY DEF BankRegisters, Moves, IndInv, TypeOK
<1>3. req[s].amount \in Amounts
  BY <1>1 DEF IndInv, RowFits
<1> QED
  BY <1>1, <1>2, <1>3, RegisterFrame DEF BankRegisters

-----------------------------------------------------------------------------
(* Steps that insert the row of a request *)

\* The row is new, under a key that nobody has.
LEMMA InsertFrame ==
  ASSUME IndInv, NEW s \in Requests, NEW status \in {"ISSUED", "PENDING", "FAILED"},
         UNCHANGED <<lapsed, cob, inflight, contract, notes, faults, reprices, past>>,
         ~KeyTaken(s), InsertRow(s, status), req[s].pc \in {"create", "fail"},
         Moves(s), req'[s].amount = req[s].amount, ~req'[s].reused,
         \/ /\ status = "ISSUED" /\ req[s].pc = "create"
            /\ req'[s].pc = "noteLook" /\ req'[s].charge = s
            /\ req'[s].binding = req[s].binding
         \/ status # "ISSUED" /\ req'[s].pc = "done"
  PROVE  IndInv'
<1> USE RequestAssumption, BoundAssumption DEF IndInv
<1>1. /\ ~Exists(s) /\ row'[s].status = status /\ row'[s].amount = req[s].amount
      /\ row'[s].key = RowKey(s) /\ req[s].amount \in Amounts
      /\ \A q \in Requests \ {s} : row'[q] = row[q]
      /\ row' \in [Requests -> Row]
  <2>1. ~Exists(s)
    BY DEF KeyTaken, RowFits
  <2>2. req[s].amount \in Amounts
    BY DEF Stage
  <2>3. [status |-> status, amount |-> req[s].amount, key |-> RowKey(s)] \in Row
    BY <2>2 DEF Row, RowStatus, Money, Names, RowKey
  <2> QED
    BY <2>1, <2>2, <2>3 DEF InsertRow, TypeOK
<1>2. TypeOK'
  BY <1>1 DEF TypeOK, Moves
<1>3. /\ \A q \in Requests : Exists(q) => q # s /\ Exists(q)' /\ row'[q] = row[q]
      /\ \A q \in Requests : row[q].status \in Live => Exists(q)
      /\ Exists(s)' /\ RowKey(s)' = RowKey(s)
  BY <1>1 DEF Exists, Live, RowKey, Moves
<1>4. ASSUME NEW r \in Requests
      PROVE  RowFits(r)'
  <2>1. CASE r = s
    BY <1>1, <1>3, <2>1 DEF RowFits, Live, Stage
  <2>2. CASE r # s
    BY <1>1, <2>2 DEF RowFits, Exists, RowKey, Moves
  <2> QED
    BY <2>1, <2>2
<1>5. ASSUME NEW r \in Requests
      PROVE  Stage(r)'
  <2>1. CASE r = s
    BY <1>1, <2>1 DEF Stage, Untouched, Noting, Live
  <2>2. CASE r # s
    <3>1. req'[r] = req[r] /\ Absent(r)' = Absent(r) /\ Exists(r)' = Exists(r)
      BY <1>1, <2>2 DEF Absent, Exists, Moves
    <3> QED
      BY <1>3, <3>1 DEF Stage
  <2> QED
    BY <2>1, <2>2
<1>6. AgreementIsBacked'
  BY <1>3 DEF AgreementIsBacked, Live
<1>7. ASSUME NEW r \in Requests
      PROVE  HasRow(r)'
  <2>1. CASE r = s
    BY <1>3, <2>1 DEF HasRow
  <2>2. CASE r # s
    BY <1>3, <2>2 DEF BankChargeHasRow, HasRow, RowKey, At, Moves
  <2> QED
    BY <2>1, <2>2
<1>8. \A r \in Requests : PastFits(r)'
  <2> TAKE r \in Requests
  <2>1. past.at[r].rows \subseteq Requests /\ past.at[r].valid \subseteq Requests
    BY DEF TypeOK, Past
  <2>2. At(r, "idle")' => At(r, "idle")
    BY DEF At, Moves
  <2> QED
    BY <1>3, <2>1, <2>2 DEF PastFits
<1>9. ASSUME NEW r \in Requests
      PROVE  StopsAtKey(r)' /\ NoneToReuse(r)' /\ ReadWithout(r)'
  <2>0. /\ past.at[r].rows \subseteq Requests /\ past.at[r].valid \subseteq Requests
        /\ req'[r].kind = req[r].kind
    BY DEF TypeOK, Past, Moves
  <2>1. Repeats(r)' => Repeats(r)
    BY <1>3, <2>0 DEF Repeats, Answers, PastFits
  <2>2. StopsAtKey(r)'
    <3>1. Repeats(r) => r # s
      BY DEF StopsAtKey
    <3> QED
      BY <1>1, <2>1, <3>1 DEF StopsAtKey, Absent, Exists, Moves
  <2>3. NoneToReuse(r)'
    <3>1. Issues(r)' => Issues(r)
      BY <1>1, <2>0 DEF Issues, Exists, Moves
    <3>2. \A q \in past.at[r].valid : row'[q] = row[q] /\ (Payable(q)' => Payable(q))
      BY <1>3, <2>0 DEF PastFits, Payable
    <3>3. req'[r].amount = req[r].amount
      BY DEF Moves
    <3> QED
      BY <3>1, <3>2, <3>3 DEF NoneToReuse
  <2>4. ReadWithout(r)'
    BY DEF ReadWithout, HasRead, Running, Moves
  <2> QED
    BY <2>2, <2>3, <2>4
<1> QED
  BY <1>2, <1>4, <1>5, <1>6, <1>7, <1>8, <1>9 DEF BankChargeHasRow

\* The bank has answered: the row is ISSUED, unless the key has been taken.
LEMMA CreateIssuedInd == ASSUME IndInv, NEW s \in Requests, CreateIssued(s) PROVE IndInv'
<1> USE RequestAssumption, BoundAssumption DEF IndInv
<1>1. /\ req[s].pc = "create" /\ ~req[s].reused
      /\ UNCHANGED <<lapsed, cob, inflight, contract, notes, faults, reprices, past>>
  BY DEF CreateIssued, OnlyRow, bank, At, Stage
<1>2. CASE KeyTaken(s)
  <2>1. UNCHANGED row /\ Moves(s) /\ req'[s].pc = "fail" /\ ~req'[s].reused
        /\ req'[s].amount = req[s].amount
    BY <1>1, <1>2, FailingFact DEF CreateIssued
  <2>2. RowFits(s)' /\ Stage(s)'
    BY <1>1, <2>1 DEF Moves, RowFits, Stage, Absent, Exists, RowKey, Untouched, Noting
  <2>3. HasRow(s)' /\ StopsAtKey(s)' /\ ReadWithout(s)' /\ ~At(s, "idle") /\ ~At(s, "idle")'
    BY <1>1, <2>1 DEF Moves, HasRow, At, StopsAtKey, Repeats, Answers, ReadWithout, HasRead
  <2>4. NoneToReuse(s)'
    BY <1>1, <2>1 DEF Moves, NoneToReuse, Issues, Payable, Exists
  <2> QED
    BY <1>1, <2>1, <2>2, <2>3, <2>4, ReqFrame DEF TypeOK
<1>3. CASE ~KeyTaken(s)
  <2> DEFINE new == [req[s] EXCEPT !.pc = "noteLook", !.charge = s]
  <2>1. req[s] \in Request /\ "noteLook" \in Pc
    BY DEF TypeOK, Pc
  <2>2. /\ new \in Request /\ new.kind = req[s].kind /\ new.pc = "noteLook"
        /\ new.charge = s /\ new.binding = req[s].binding
        /\ new.reused = req[s].reused /\ new.amount = req[s].amount
    BY <2>1 DEF Request
  <2>3. req' = [req EXCEPT ![s] = new] /\ InsertRow(s, "ISSUED")
    BY <1>3 DEF CreateIssued
  <2> HIDE DEF new
  <2>4. Moves(s) /\ req'[s] = new
    BY <2>2, <2>3 DEF TypeOK, Moves
  <2> QED
    BY <1>1, <1>3, <2>2, <2>3, <2>4, InsertFrame
<1> QED
  BY <1>2, <1>3

\* The failure is recorded under the key, unless the key has been taken.
LEMMA HandleAdapterErrorInd ==
  ASSUME IndInv, NEW s \in Requests, HandleAdapterError(s) PROVE IndInv'
<1> USE RequestAssumption, BoundAssumption DEF IndInv
<1>1. /\ req[s].pc = "fail" /\ ~req[s].reused
      /\ UNCHANGED <<lapsed, cob, inflight, contract, notes, faults, reprices, past>>
  BY DEF HandleAdapterError, OnlyRow, bank, At, Stage
<1>2. CASE KeyTaken(s)
  <2>1. UNCHANGED row /\ Moves(s) /\ req'[s].pc = "done" /\ ~req'[s].reused
        /\ req'[s].amount = req[s].amount
    BY <1>1, <1>2, ReplyFact DEF HandleAdapterError
  <2>2. RowFits(s)' /\ Stage(s)'
    BY <1>1, <2>1 DEF Moves, RowFits, Stage, Absent, Exists, RowKey, Untouched, Noting
  <2>3. HasRow(s)'
    BY <1>1, <1>2, <2>1 DEF Moves, HasRow, KeyTaken, RowKey, Exists
  <2>4. StopsAtKey(s)' /\ ReadWithout(s)' /\ ~At(s, "idle") /\ ~At(s, "idle")'
    BY <1>1, <2>1 DEF Moves, At, StopsAtKey, Repeats, Answers, ReadWithout, HasRead
  <2>5. NoneToReuse(s)'
    BY <1>1, <2>1 DEF Moves, NoneToReuse, Issues, Payable, Exists
  <2> QED
    BY <1>1, <2>1, <2>2, <2>3, <2>4, <2>5, ReqFrame DEF TypeOK
<1>3. CASE ~KeyTaken(s)
  <2>1. /\ InsertRow(s, req[s].failure) /\ req[s].failure \in {"PENDING", "FAILED"}
        /\ Moves(s) /\ req'[s].pc = "done" /\ ~req'[s].reused
        /\ req'[s].amount = req[s].amount
    BY <1>1, <1>3, ReplyFact DEF HandleAdapterError, TypeOK, Request
  <2> QED
    BY <1>1, <1>3, <2>1, InsertFrame
<1> QED
  BY <1>2, <1>3

-----------------------------------------------------------------------------
(* The steps that write the history and the agreement, and the first one *)

\* The interaction of the charge is in the history now.
LEMMA NoteCreateInd == ASSUME IndInv, NEW s \in Requests, NoteCreate(s) PROVE IndInv'
<1> USE RequestAssumption, BoundAssumption DEF IndInv
<1>1. /\ Moves(s) /\ req[s].pc = "note" /\ req'[s].pc = "agree"
      /\ req'[s].amount = req[s].amount /\ req'[s].binding = req[s].binding
      /\ req'[s].charge = req[s].charge /\ req'[s].reused = req[s].reused
  BY GoFact DEF NoteCreate, At, Pc
<1>2. UNCHANGED <<row, lapsed, cob, inflight, contract, faults, reprices, past>>
  BY DEF NoteCreate, bank
<1>3. req[s].charge \in Requests
  BY <1>1 DEF Stage, Noting
<1>4. /\ notes' \in [Requests -> Nat] /\ notes'[req[s].charge] > 0
      /\ \A q \in Requests : notes[q] > 0 => notes'[q] > 0
  BY <1>3 DEF NoteCreate, TypeOK
<1>5. TypeOK'
  BY <1>1, <1>2, <1>4 DEF TypeOK, Moves
<1>6. ASSUME NEW r \in Requests
      PROVE  RowFits(r)' /\ Stage(r)' /\ HasRow(r)' /\ PastFits(r)'
  <2>1. RowFits(r)'
    BY <1>1, <1>2 DEF RowFits, Exists, RowKey, Moves
  <2>2. Stage(r)'
    <3>1. Absent(r)' = Absent(r) /\ Exists(r)' = Exists(r)
      BY <1>2 DEF Absent, Exists
    <3>2. CASE r = s
      BY <1>1, <1>2, <1>4, <3>1, <3>2 DEF Stage, Untouched, Noting
    <3>3. CASE r # s
      BY <1>1, <1>2, <1>4, <3>1, <3>3 DEF Stage, Moves
    <3> QED
      BY <3>2, <3>3
  <2>3. HasRow(r)'
    BY <1>1, <1>2 DEF BankChargeHasRow, HasRow, Exists, RowKey, At, Moves
  <2>4. PastFits(r)'
    BY <1>1, <1>2 DEF PastFits, At, Exists, Moves
  <2> QED
    BY <2>1, <2>2, <2>3, <2>4
<1>7. AgreementIsBacked'
  BY <1>2, <1>4 DEF AgreementIsBacked
<1>8. ASSUME NEW r \in Requests
      PROVE  StopsAtKey(r)' /\ NoneToReuse(r)' /\ ReadWithout(r)'
  <2>1. StopsAtKey(r)'
    BY <1>1, <1>2 DEF StopsAtKey, Repeats, Answers, Absent, Exists, Moves
  <2>2. NoneToReuse(r)'
    BY <1>1, <1>2 DEF NoneToReuse, Issues, Exists, Payable, Moves
  <2>3. ReadWithout(r)'
    BY <1>1, <1>2 DEF ReadWithout, HasRead, Running, Moves
  <2> QED
    BY <2>1, <2>2, <2>3
<1> QED
  BY <1>5, <1>6, <1>7, <1>8 DEF BankChargeHasRow

\* The agreement is the charge the request holds, or what it was.
LEMMA RegisterAgreementInd ==
  ASSUME IndInv, NEW s \in Requests, RegisterAgreement(s) PROVE IndInv'
<1> USE RequestAssumption, BoundAssumption DEF IndInv
<1> DEFINE k == ContractOf[s]
           q == req[s].charge
<1>1. /\ Moves(s) /\ req[s].pc = "agree" /\ req'[s].pc = "done"
      /\ req'[s].amount = req[s].amount /\ ~req'[s].reused
      /\ UNCHANGED <<row, lapsed, cob, inflight, notes, faults, reprices>>
  BY ReplyFact DEF RegisterAgreement, At, bank
<1>2. /\ q \in Requests /\ ContractOf[q] = k /\ row[q].status \in Live
      /\ notes[q] > 0 /\ (~req[s].reused => q = s)
  BY <1>1 DEF Stage, Noting
<1>3. Exists(q) /\ row[q].amount \in Amounts /\ cob[q] = row[q].amount
  BY <1>2 DEF RowFits, Exists, Live
<1>4. \/ UNCHANGED <<contract, past>>
      \/ /\ contract' = [contract EXCEPT ![k] = Terms(s, contract[k])]
         /\ past' = [past EXCEPT !.deals[k] = past.deals[k] + 1]
  BY DEF RegisterAgreement
<1>5. /\ contract' \in [Contracts -> Contract]
      /\ past' \in [deals : [Contracts -> Nat], at : [Requests -> Past]]
      /\ past'.at = past.at
      /\ \A j \in Contracts :
           \/ contract'[j] = contract[j] /\ past'.deals[j] = past.deals[j]
           \/ /\ j = k /\ past'.deals[j] = past.deals[j] + 1
              /\ contract'[j].ref = q /\ contract'[j].agreed = row[q].amount
  <2>1. CASE UNCHANGED <<contract, past>>
    BY <2>1 DEF TypeOK
  <2>2. CASE /\ contract' = [contract EXCEPT ![k] = Terms(s, contract[k])]
             /\ past' = [past EXCEPT !.deals[k] = past.deals[k] + 1]
    <3>1. /\ Terms(s, contract[k]) \in Contract
          /\ Terms(s, contract[k]).ref = q /\ Terms(s, contract[k]).agreed = row[q].amount
      <4>1. /\ contract[k] \in Contract /\ "IN_AGREEMENT" \in PaymentStatus
            /\ row[q].amount \in Money
        BY <1>3 DEF TypeOK, PaymentStatus, Money
      <4>2. Terms(s, contract[k]) =
              [contract[k] EXCEPT !.status = "IN_AGREEMENT", !.ref = q,
                                  !.agreed = row[q].amount, !.due = "ahead"]
        BY DEF Terms
      <4> HIDE DEF q
      <4> QED
        BY <1>2, <4>1, <4>2 DEF Contract
    <3>2. /\ past' \in [deals : [Contracts -> Nat], at : [Requests -> Past]]
          /\ past'.at = past.at
          /\ past'.deals = [past.deals EXCEPT ![k] = past.deals[k] + 1]
      BY <2>2 DEF TypeOK
    <3>3. past.deals \in [Contracts -> Nat] /\ contract \in [Contracts -> Contract]
      BY DEF TypeOK
    <3> HIDE DEF q
    <3> QED
      BY <2>2, <3>1, <3>2, <3>3
  <2> QED
    BY <1>4, <2>1, <2>2
<1>6. \A j \in Contracts : past.deals[j] \in Nat /\ past'.deals[j] >= past.deals[j]
  BY <1>5 DEF TypeOK
<1>7. TypeOK'
  BY <1>1, <1>5 DEF TypeOK, Moves
<1>8. ASSUME NEW r \in Requests
      PROVE  RowFits(r)' /\ Stage(r)' /\ HasRow(r)' /\ PastFits(r)'
  <2>1. RowFits(r)'
    BY <1>1 DEF RowFits, Exists, RowKey, Moves
  <2>2. Stage(r)'
    <3>1. Absent(r)' = Absent(r) /\ Exists(r)' = Exists(r)
      BY <1>1 DEF Absent, Exists
    <3>2. CASE r = s
      BY <1>1, <3>1, <3>2 DEF RowFits, Stage, Untouched, Noting
    <3>3. CASE r # s
      BY <1>1, <3>1, <3>3 DEF Stage, Moves
    <3> QED
      BY <3>2, <3>3
  <2>3. HasRow(r)'
    <3>1. CASE r = s
      BY <1>1, <1>2, <1>3, <3>1 DEF HasRow, Exists, Stage, Absent
    <3>2. CASE r # s
      BY <1>1, <3>2 DEF BankChargeHasRow, HasRow, Exists, RowKey, At, Moves
    <3> QED
      BY <3>1, <3>2
  <2>4. PastFits(r)'
    <3>1. past.at[r].deals \in Nat
      BY DEF TypeOK, Past
    <3> QED
      BY <1>1, <1>5, <1>6, <3>1 DEF PastFits, At, Exists, Moves
  <2> QED
    BY <2>1, <2>2, <2>3, <2>4
<1>9. AgreementIsBacked'
  BY <1>1, <1>2, <1>3, <1>5 DEF AgreementIsBacked, Live
<1>10. ASSUME NEW r \in Requests
       PROVE  StopsAtKey(r)' /\ NoneToReuse(r)' /\ ReadWithout(r)'
  <2>1. StopsAtKey(r)'
    BY <1>1, <1>5 DEF StopsAtKey, Repeats, Answers, Absent, Exists, Moves
  <2>2. NoneToReuse(r)'
    BY <1>1, <1>5 DEF NoneToReuse, Issues, Exists, Payable, Moves
  <2>3. ReadWithout(r)'
    <3>1. past.at[r].deals \in Nat /\ past.deals[ContractOf[r]] \in Nat
      BY DEF TypeOK, Past
    <3> QED
      BY <1>1, <1>5, <3>1 DEF ReadWithout, HasRead, Running, PastFits, Moves
  <2> QED
    BY <2>1, <2>2, <2>3
<1> QED
  BY <1>7, <1>8, <1>9, <1>10 DEF BankChargeHasRow

\* A request starts with nothing done, and notes what it could have seen.
LEMMA StartInd ==
  ASSUME IndInv, NEW s \in Requests, NEW kind \in Kinds, NEW amount \in Money,
         Start(s, kind, amount)
  PROVE  IndInv'
<1> USE RequestAssumption, BoundAssumption DEF IndInv
<1> DEFINE pc == IF kind = "charge" THEN "lookup" ELSE "contract"
           new == [req[s] EXCEPT !.pc = pc, !.kind = kind, !.amount = amount]
           seen == [rows |-> {q \in Requests : Exists(q)},
                    valid |-> {q \in Requests : Payable(q)},
                    deals |-> past.deals[ContractOf[s]]]
<1>1. /\ req[s].pc = "idle" /\ Absent(s) /\ ~req[s].reused
      /\ UNCHANGED <<row, lapsed, cob, inflight, contract, notes, faults, reprices>>
      /\ kind = "charge" => amount \in Amounts
  BY DEF Start, At, bank, Stage, Untouched, Money
<1>2. /\ req' \in [Requests -> Request] /\ req'[s] = new
      /\ \A r \in Requests \ {s} : req'[r] = req[r]
      /\ new.kind = kind /\ new.amount = amount /\ new.pc = pc /\ ~new.reused
  <2>1. req[s] \in Request /\ pc \in Pc
    BY DEF TypeOK, Pc
  <2>2. req' = [req EXCEPT ![s] = new]
    BY DEF Start
  <2> HIDE DEF pc
  <2>3. /\ new \in Request /\ new.kind = kind /\ new.amount = amount
        /\ new.pc = pc /\ ~new.reused
    BY <1>1, <2>1 DEF Request
  <2> HIDE DEF new
  <2> QED
    BY <2>2, <2>3 DEF TypeOK
<1>3. /\ past' \in [deals : [Contracts -> Nat], at : [Requests -> Past]]
      /\ past'.deals = past.deals /\ past'.at[s] = seen
      /\ \A r \in Requests \ {s} : past'.at[r] = past.at[r]
  <2>1. past' = [past EXCEPT !.at[s] = seen] /\ seen \in Past
    BY DEF Start, TypeOK, Past
  <2> HIDE DEF seen
  <2> QED
    BY <2>1 DEF TypeOK
<1> HIDE DEF new
<1>4. TypeOK'
  BY <1>1, <1>2, <1>3 DEF TypeOK
<1>5. ASSUME NEW r \in Requests
      PROVE  RowFits(r)' /\ Stage(r)' /\ HasRow(r)' /\ PastFits(r)'
  <2>1. Absent(r)' = Absent(r) /\ Exists(r)' = Exists(r)
    BY <1>1 DEF Absent, Exists
  <2>2. RowFits(r)'
    <3>1. CASE r = s
      BY <1>1, <2>1, <3>1 DEF RowFits, Absent, Exists, Live
    <3>2. CASE r # s
      BY <1>1, <1>2, <2>1, <3>2 DEF RowFits, RowKey
    <3> QED
      BY <3>1, <3>2
  <2>3. Stage(r)'
    <3>1. CASE r = s
      BY <1>1, <1>2, <2>1, <3>1 DEF Stage, Untouched, Noting
    <3>2. CASE r # s
      BY <1>1, <1>2, <2>1, <3>2 DEF Stage
    <3> QED
      BY <3>1, <3>2
  <2>4. HasRow(r)'
    <3>1. CASE r = s
      BY <1>2, <3>1 DEF HasRow, At
    <3>2. CASE r # s
      <4>1. \A q \in Requests : Exists(q) <=> Exists(q)'
        BY <1>1 DEF Exists
      <4> QED
        BY <1>1, <1>2, <3>2, <4>1 DEF BankChargeHasRow, HasRow, RowKey, At
    <3> QED
      BY <3>1, <3>2
  <2>5. PastFits(r)'
    <3>1. CASE r = s
      BY <1>1, <1>2, <1>3, <3>1 DEF PastFits, At, Exists, Payable, Live, TypeOK
    <3>2. CASE r # s
      BY <1>1, <1>2, <1>3, <3>2 DEF PastFits, At, Exists
    <3> QED
      BY <3>1, <3>2
  <2> QED
    BY <2>2, <2>3, <2>4, <2>5
<1>6. AgreementIsBacked'
  BY <1>1 DEF AgreementIsBacked
<1>7. ASSUME NEW r \in Requests
      PROVE  StopsAtKey(r)' /\ NoneToReuse(r)' /\ ReadWithout(r)'
  <2>1. CASE r = s
    BY <1>1, <1>2, <2>1 DEF StopsAtKey, Repeats, NoneToReuse, Issues, Absent, Exists,
                            ReadWithout, HasRead
  <2>2. CASE r # s
    BY <1>1, <1>2, <1>3, <2>2 DEF StopsAtKey, Repeats, Answers, NoneToReuse, Issues,
                            Absent, Exists, Payable, ReadWithout, HasRead, Running
  <2> QED
    BY <2>1, <2>2
<1> QED
  BY <1>4, <1>5, <1>6, <1>7 DEF BankChargeHasRow

-----------------------------------------------------------------------------
(* The theorems *)

\* Every step of the system, and a stutter, keeps the inductive invariant.
LEMMA NextInd == IndInv /\ [Next]_vars => IndInv'
<1> SUFFICES ASSUME IndInv, [Next]_vars PROVE IndInv'
  OBVIOUS
<1>1. ASSUME NEW r \in Requests, RequestStep(r) PROVE IndInv'
  BY <1>1, LookupKeyInd, ReadContractInd, RefuseInd, FindReusableInd, BankAnswersInd,
     BankRefusesInd, TimesOutInd, ConnectionBreaksInd, CreateIssuedInd, NoteLookupInd,
     NoteCreateInd, RegisterAgreementInd, HandleAdapterErrorInd DEF RequestStep
<1>2. ASSUME NEW r \in Requests, NEW kind \in Kinds, NEW amount \in Money,
             Start(r, kind, amount)
      PROVE  IndInv'
  BY <1>2, StartInd
<1>3. ASSUME NEW r \in Requests, DatabaseFails(r) \/ Crash(r) PROVE IndInv'
  BY <1>3, DatabaseFailsInd, CrashInd
<1>4. ASSUME NEW q \in Requests,
             \/ BankRegisters(q) \/ Lapse(q) \/ JobConfirms(q) \/ JobExpires(q)
             \/ JobPays(q) \/ WebhookPays(q)
      PROVE  IndInv'
  BY <1>4, BankRegistersInd, LapseInd, JobInd, WebhookPaysInd
<1>5. ASSUME NEW k \in Contracts, DeadlinePasses(k) PROVE IndInv'
  BY <1>5, DeadlinePassesInd
<1>6. ASSUME NEW k \in Contracts, NEW price \in Amounts, Reprice(k, price) PROVE IndInv'
  BY <1>6, RepriceInd
<1>7. ASSUME MarkOverdueAsBreached PROVE IndInv'
  BY <1>7, MarkOverdueAsBreachedInd
<1>8. ASSUME UNCHANGED vars PROVE IndInv'
  <2>1. UNCHANGED <<row, lapsed, cob, inflight, contract, notes, req, faults, reprices, past>>
    BY <1>8 DEF vars, bank
  <2> QED
    BY <2>1, EnvFrame DEF IndInv, TypeOK, Running
<1> QED
  BY <1>1, <1>2, <1>3, <1>4, <1>5, <1>6, <1>7, <1>8 DEF Next

\* The inductive invariant holds in every state a request can lead to.
THEOREM Invariance == Spec => []IndInv
  BY InitInd, NextInd, PTL DEF Spec

\* The database, the bank and the requests keep to their types: no request
\* inserts a status the enum of PaymentCharge does not have.
THEOREM TypeCorrect == Spec => []TypeOK
<1>1. IndInv => TypeOK
  BY DEF IndInv
<1> QED
  BY <1>1, Invariance, PTL

\* Whatever the bank may hold under a txid has a row, but for the losses that
\* createCharge and handleAdapterError cannot prevent.
THEOREM EveryChargeHasRow == Spec => []BankChargeHasRow
<1>1. IndInv => BankChargeHasRow
  BY DEF IndInv
<1> QED
  BY <1>1, Invariance, PTL

\* A caller who repeats a request under a key that has a row makes no second
\* charge at the bank, however the first request ended.
THEOREM RepeatsAreSafe == Spec => []RepeatIsSafe
<1>1. IndInv => RepeatIsSafe
  BY DEF IndInv, RepeatIsSafe, StopsAtKey, Repeats, Absent
<1> QED
  BY <1>1, Invariance, PTL

\* findExistingValidPix keeps a Pix from being doubled at the same amount by a
\* request that starts when it can be paid.
THEOREM NoDoublePix == Spec => []OnePayablePixPerPrice
<1>1. IndInv => OnePayablePixPerPrice
  <2> SUFFICES ASSUME IndInv, NEW r \in Requests, req[r].kind # "charge", Payable(r),
                      NEW q \in past.at[r].valid,
                      ContractOf[q] = ContractOf[r], Payable(q)
               PROVE  row[q].amount # row[r].amount
    BY DEF OnePayablePixPerPrice
  <2>1. Exists(r)
    BY DEF Payable, Exists
  <2>2. row[r].amount = req[r].amount
    BY <2>1 DEF IndInv, RowFits
  <2> QED
    BY <2>1, <2>2 DEF IndInv, NoneToReuse, Issues
<1> QED
  BY <1>1, Invariance, PTL

\* The agreement registerAgreementFromIssuedCharge leaves on a contract is a
\* charge of that contract, held by the bank for the amount agreed.
THEOREM AgreementsAreBacked == Spec => []AgreementIsBacked
<1>1. IndInv => AgreementIsBacked
  BY DEF IndInv
<1> QED
  BY <1>1, Invariance, PTL

\* registerAgreementFromIssuedCharge never moves the deadline of an agreement
\* that was running when its request started.
THEOREM DeadlinesAreKept == Spec => DeadlineIsKept
<1>1. ASSUME IndInv, [Next]_vars, NEW r \in Requests, At(r, "agree"),
             past'.deals[ContractOf[r]] # past.deals[ContractOf[r]],
             contract[ContractOf[r]].status = "IN_AGREEMENT",
             contract[ContractOf[r]].due # "none"
      PROVE  past.deals[ContractOf[r]] > past.at[r].deals \/ UNCHANGED req[r]
  <2>1. ASSUME RegisterAgreement(r)
        PROVE  past.deals[ContractOf[r]] > past.at[r].deals
    BY <1>1, <2>1 DEF RegisterAgreement, IndInv, ReadWithout, HasRead, Running, At
  <2>2. ASSUME NEW s \in Requests, s # r, RegisterAgreement(s) PROVE UNCHANGED req[r]
    BY <2>2, <1>1, ReplyFact DEF RegisterAgreement, Moves, IndInv
  <2>3. ASSUME NEW s \in Requests, NEW kind \in Kinds, NEW amount \in Money,
               Start(s, kind, amount)
        PROVE  past'.deals = past.deals
    BY <1>1, <2>3 DEF Start, IndInv, TypeOK
  <2>4. \/ UNCHANGED past \/ \E s \in Requests : RegisterAgreement(s)
        \/ \E s \in Requests, kind \in Kinds, amount \in Money : Start(s, kind, amount)
    BY <1>1 DEF Next, RequestStep, vars, LookupKey, ReadContract, Refuse, FindReusable,
       BankAnswers, BankRefuses, TimesOut, ConnectionBreaks, CreateIssued, NoteLookup,
       NoteCreate, HandleAdapterError, DatabaseFails, Crash, BankRegisters, Lapse,
       JobConfirms, JobExpires, JobPays, WebhookPays, Reprice, DeadlinePasses,
       MarkOverdueAsBreached, OnlyReq, OnlyRow, IssueUnchanged, EnvRow
  <2> QED
    BY <1>1, <2>1, <2>2, <2>3, <2>4
<1> DEFINE Kept == \A r \in Requests :
             LET k == ContractOf[r] IN
             At(r, "agree") /\ past'.deals[k] # past.deals[k]
                            /\ contract[k].status = "IN_AGREEMENT"
                            /\ contract[k].due # "none"
             => past.deals[k] > past.at[r].deals \/ UNCHANGED req[r]
<1>2. IndInv /\ [Next]_vars => [Kept]_vars
  BY <1>1
<1>3. DeadlineIsKept <=> [][Kept]_vars
  BY DEF DeadlineIsKept
<1> QED
  BY <1>2, <1>3, Invariance, PTL DEF Spec

=============================================================================
