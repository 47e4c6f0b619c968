----------------------------- MODULE MCPixBank -----------------------------
(***************************************************************************)
(* PixIssuance beside BankClient, through which its requests reach the     *)
(* bank.  Each models what the other takes from it as free, so they share  *)
(* nothing: a behaviour plays the one while the other rests.               *)
(***************************************************************************)
EXTENDS MCPixIssuance, BankClient

CONSTANTS x1, x2, s0

VARIABLE scene

\* One process, whose token requests meet.
MCServerOf == [x \in Exchanges |-> s0]
MCOwnerOf == [g \in Gateways |-> s0]
MCBankSymmetry == MCSymmetry \cup Permutations({x1, x2})

noBank == BankInit /\ \A g \in Gateways : gateway[g] = NoGateway
          /\ changes = MaxChanges /\ restarts = MaxRestarts

noIssuing == Init /\ contract = [k \in Contracts |-> CHOOSE c \in NewContract : TRUE]

\* A gateway is changed, or a process stops, but not both.
MCInit ==
    \/ scene = "issuing" /\ Init /\ noBank
    \/ /\ scene = "bank" /\ noIssuing /\ BankInit
       /\ \/ changes = 0 /\ restarts = MaxRestarts
          \/ changes = MaxChanges /\ restarts = 0

MCNext ==
    /\ UNCHANGED scene
    /\ \/ scene = "issuing" /\ Next /\ UNCHANGED bankVars
       \/ scene = "bank" /\ BankNext /\ UNCHANGED vars

MCSpec == MCInit /\ [][MCNext]_<<scene, vars, bankVars>>

=============================================================================
