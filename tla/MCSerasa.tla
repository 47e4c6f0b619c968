------------------------------ MODULE MCSerasa ------------------------------
(***************************************************************************)
(* Two scenes of SerasaOperations: the removal of one debt by one worker   *)
(* with its webhooks, and the inclusion of two contracts, of which one may *)
(* be replayed, by two workers before any webhook.                         *)
(***************************************************************************)
EXTENDS SerasaOperations, TLC

CONSTANTS o1, o2, o3, i1, i2, i3, i4, c1, c2

VARIABLE scene

MCActionOf == [o \in Ops |-> IF o = o1 THEN "REMOVE" ELSE "CREATE_OR_UPDATE"]
MCOpOf == [i \in Items |-> CASE i = i1 -> o1 [] i = i4 -> o3 [] OTHER -> o2]
MCContractOf == [i \in Items |-> IF i = i3 THEN c2 ELSE c1]
MCSymmetry == Permutations(Workers) \cup Permutations(Hooks)

MCInit == /\ scene \in {"deliveries", "batches"} /\ Init
          /\ contract[c1].known <=> scene = "deliveries"
          /\ ~contract[c2].known

\* Which operations are asked for, and how many processes are at work.
MCNext ==
    /\ Next /\ UNCHANGED scene
    /\ \/ /\ scene = "deliveries"
          /\ \A o \in Ops \ {o1} : form'[o] = IdleForm
          /\ Cardinality({w \in Workers : worker'[w].pc # "idle"}) <= 1
       \/ /\ scene = "batches"
          /\ form'[o1] = IdleForm
          /\ \A h \in Hooks : hook'[h].pc = "idle"

MCSpec == MCInit /\ [][MCNext]_<<vars, scene>>

=============================================================================
