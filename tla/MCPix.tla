------------------------------- MODULE MCPix --------------------------------
(***************************************************************************)
(* Two scenes of PixSettlement: one process of every kind on one charge,   *)
(* while the issuance of the other one has failed, and two deliveries for  *)
(* the two charges while job and resynchronisation rest.                   *)
(***************************************************************************)
EXTENDS MCPixSettlement

FailedRow == [status |-> "FAILED", version |-> 1]

\* Only the row of the failed charge differs from PixSettlement's Init.
RacesInit ==
    \E first \in Open :
      /\ charge = [c \in Charges |->
             IF c = 1 THEN [status |-> first, version |-> 1] ELSE FailedRow]
      /\ cob \in [Charges -> {"NONE", "ATIVA"}]
      /\ \A c \in Charges \ {1} : cob[c] = "NONE"
      /\ first = "ISSUED" => cob[1] = "ATIVA"
      /\ overdue = {} /\ settlements = {} /\ events = {} /\ removals = {}
      /\ interactions = [k \in Key |-> 0]
      /\ contract = [k \in Contracts |-> [paid |-> FALSE, counted |-> {}]]
      /\ wh = [w \in Webhooks |-> IdleWebhook]
      /\ job = [j \in Cycles |-> IdleCycle]
      /\ sync = [s \in Syncs |-> IdleSync]
      /\ faults = 0

\* The bank, the clock and the operator leave the failed charge alone.
Races ==
    /\ \A c \in Charges \ {1} : cob'[c] = cob[c] /\ c \notin overdue'
    /\ \A s \in Syncs : sync'[s].charge \in {NoCharge, 1}
    /\ Cardinality({w \in Webhooks : wh'[w].pc # "idle"}) <= 1

Deliveries == UNCHANGED <<job, sync>>

MCInit == RacesInit \/ Init

\* The scene of a behaviour is told by the row of the second charge, which no
\* process leaves FAILED or makes so.
SceneSteps == IF charge[2].status = "FAILED" THEN Races ELSE Deliveries

MCSpec == MCInit /\ [][Next]_vars
=============================================================================
