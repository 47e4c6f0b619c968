----------------------------- MODULE MCAnswers ------------------------------
(***************************************************************************)
(* What must be answered in the end: a removal Serasa has accepted, and a  *)
(* file that was uploaded.  SerasaOperations and ImportBatches play one    *)
(* after the other; nothing of the module that rests is enabled under its  *)
(* fairness.                                                               *)
(***************************************************************************)
EXTENDS SerasaOperations, ImportBatches, TLC

CONSTANTS o1, o2, i1, i2, d1, t1

VARIABLE scene

\* o1 removes the contract that o2 includes.
MCActionOf == [o \in Ops |-> IF o = o1 THEN "REMOVE" ELSE "CREATE_OR_UPDATE"]
MCOpOf == [i \in Items |-> IF i = i1 THEN o1 ELSE o2]
MCContractOf == [i \in Items |-> CHOOSE c \in Contracts : TRUE]

line == [debt |-> d1, terms |-> t1, sound |-> TRUE]
\* One debt and a line that is rejected.
MCFiles == {<<line, [line EXCEPT !.sound = FALSE]>>}

MCInit ==
    /\ Init /\ ImportInit /\ served = MaxClerical /\ managed = 0 /\ troubles = 0
    /\ scene \in {"removal", "import"}
    /\ scene = "removal" => \A b \in Batches : batch[b] = NoBatch
    /\ scene = "import" => \A c \in Contracts : ~contract[c].known

MCNext == /\ UNCHANGED scene
          /\ \/ scene = "removal" /\ Next /\ UNCHANGED importVars
             \/ scene = "import" /\ ImportNext /\ UNCHANGED vars

MCSpec == MCInit /\ [][MCNext]_<<vars, importVars, scene>> /\ Fairness /\ ImportFairness

=============================================================================
