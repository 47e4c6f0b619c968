---------------------------- MODULE MCPortfolio ----------------------------
(***************************************************************************)
(* Small instances of the modules about contracts.  They share the book of *)
(* contracts (ImportBatches, CreditorRemoval) or nothing at all            *)
(* (CommercialRules, AgreementEvents), so each behaviour plays one scene:  *)
(* the start says which budgets are left, and what the scene does not use  *)
(* rests.                                                                  *)
(***************************************************************************)
EXTENDS ImportBatches, CommercialRules, CreditorRemoval, AgreementEvents, TLC

CONSTANTS d1, d2, w1, t1, t2, b1, b2, n1, n2, g1, g2, x1, x2

VARIABLE scene

rowOf(d, t) == [debt |-> d, terms |-> t, sound |-> TRUE]
\* Two debts; one debt twice, with other values; a debt and a bad line.
MCFiles == {<<rowOf(d1, t1), rowOf(d2, t1)>>, <<rowOf(d1, t2), rowOf(d1, t1)>>,
            <<rowOf(d1, t2), [rowOf(d2, t1) EXCEPT !.sound = FALSE]>>}

span(lo, hi) == [lo |-> lo, hi |-> hi]
\* No bands, one for every age, one for each of two ages, one that leaves an
\* age out.
MCLayouts == {{}, {span(0, 1)}, {span(0, 0), span(1, 1)}, {span(0, 0)}}

MCNameOf == [d \in Debts |-> IF d = d1 THEN n1 ELSE n2]
\* A list that repeats a name.
MCLetters == {<<n1, n2, n1>>}

MCPartsOf == [d \in Deals |-> 2]
payload(kind, deal, number, stamp) ==
    [kind |-> kind, deal |-> deal, number |-> number,
     named |-> kind # "PaidInstallment", stamp |-> stamp]
\* An agreement that is breached and made anew, one payment without a date.
MCMessages == {payload("Closed", g1, 0, 0), payload("Breached", g1, 0, 0),
               payload("PaidInstallment", g1, 1, 0), payload("PaidInstallment", g1, 2, 0),
               payload("PaidInstallment", g1, 2, 1), payload("PaidAgreement", g1, 0, 0),
               payload("Closed", g2, 0, 0), payload("PaidInstallment", g2, 1, 0)}

\* The processes of every kind are x1 and x2.
MCSymmetry == Permutations(Rows) \cup Permutations({x1, x2})

importQueues == <<batch, importOnly>>
noImports == /\ ImportQueues /\ managed = 0 /\ troubles = 0
             /\ \A b \in Batches : batch[b] = NoBatch
noRemovals == RemovalQueues /\ approvals = 0 /\ mishaps = 0
noRules == RulesInit /\ edits = 0 /\ ceiling = {} /\ flat = [w \in Portfolios |-> 0]

\* Two files applied at once; a file confirmed and cancelled while clerks
\* work; a file from its upload on, with one fault.
ImportStart ==
    /\ ImportInit /\ noRemovals /\ noRules /\ AgreementInit
    /\ \/ /\ scene = "apply" /\ served = MaxClerical /\ managed = 0 /\ troubles = MaxTroubles
          /\ batch[b1] # NoBatch /\ batch[b2] # NoBatch /\ batch[b1].wallet # batch[b2].wallet
       \/ /\ scene = "manage" /\ served = MaxClerical - 1 /\ managed = MaxManaged - 1
          /\ troubles = MaxTroubles /\ batch[b1] # NoBatch /\ batch[b2] = NoBatch
       \/ /\ scene = "upload" /\ served = MaxClerical /\ managed = 0 /\ troubles = 0
          /\ batch[b1] = NoBatch /\ batch[b2] = NoBatch

\* A removal with a fault and two approvals; one with a clerk at work.
RemovalStart ==
    /\ RemovalInit /\ \A r \in Rows : book[r].wallet = w1 /\ book[r].terms = t1
    /\ noImports /\ noRules /\ AgreementInit
    /\ \/ scene = "remove" /\ served = MaxClerical /\ approvals = 0 /\ mishaps = 0
       \/ scene = "desk" /\ served = MaxClerical - 1 /\ approvals = MaxApprovals - 1
                         /\ mishaps = MaxMishaps

EmptyBook == /\ book = [r \in Rows |-> NoContract]
             /\ clerk = [c \in Clerks |-> Idle] /\ served = MaxClerical

MCInit ==
    \/ ImportStart
    \/ RemovalStart
    \/ /\ RulesInit
       /\ \/ scene = "race" /\ edits = 0 /\ {Span(b) : b \in ceiling} = {span(0, 1)}
          \/ scene = "rules" /\ edits = MaxEdits - 1
       /\ EmptyBook /\ noImports /\ noRemovals /\ AgreementInit
    \/ /\ scene = "agreement" /\ AgreementInit
       /\ EmptyBook /\ noImports /\ noRemovals /\ noRules

MCNext ==
    /\ UNCHANGED scene
    /\ \/ /\ scene \in {"apply", "manage", "upload"} /\ ImportNext
          /\ batch'[b2] # NoBatch => batch[b2] # NoBatch
          /\ UNCHANGED <<rulesVars, removalOnly, agreementVars>>
       \/ /\ scene \in {"remove", "desk"} /\ RemovalNext
          /\ UNCHANGED <<importQueues, rulesVars, agreementVars>>
       \/ /\ scene \in {"race", "rules"} /\ RulesNext
          /\ UNCHANGED <<bookVars, importQueues, removalOnly, agreementVars>>
       \/ /\ scene = "agreement" /\ AgreementNext
          /\ UNCHANGED <<bookVars, importQueues, removalOnly, rulesVars>>

MCSpec == MCInit /\ [][MCNext]_<<scene, importVars, rulesVars, removalOnly, agreementVars>>

\* The rows of all four hold what their columns may.
PortfolioTypeOK == ImportTypeOK /\ RulesTypeOK /\ RemovalTypeOK /\ AgreementTypeOK

=============================================================================
