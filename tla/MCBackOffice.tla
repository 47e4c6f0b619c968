---------------------------- MODULE MCBackOffice ----------------------------
(***************************************************************************)
(* Small instances of Accounts, Outreach and DebtorAccess, which share     *)
(* nothing here: each behaviour plays one scene, and what the scene does   *)
(* not use rests.                                                          *)
(***************************************************************************)
EXTENDS Accounts, Outreach, DebtorAccess, TLC

CONSTANTS k1, k2, k3, u1, s2, x1, x2, h1, h2, p1, p2, c1, c2, m1, m2, m3, m4

\* One rule is for calls, and the messages are due in the second minute.
ASSUME InstanceAssumption == k2 \in CommRules /\ LastMinute > 1

VARIABLE scene

MCChannelOf == [r \in CommRules |-> IF r = k1 THEN "SMS" ELSE IF r = k2 THEN "CALL" ELSE "EMAIL"]
\* The calls are due in the first minute, the messages in the second one.
MCDueAt == [r \in CommRules |-> IF r = k2 THEN {1} ELSE {2}]

MCByDueDate == <<c1, c2>>
MCHolderOf == [c \in {c1, c2} |-> IF c = c1 THEN p1 ELSE p2]
MCLinkTo == [l \in Links |-> c1]
MCSaysOf == [m \in Messages |->
    CASE m = m1 -> [says |-> "document", whose |-> p1]
      [] m = m2 -> [says |-> "document", whose |-> p2]
      [] m = m3 -> [says |-> "pix", number |-> 1]
      [] m = m4 -> [says |-> "contest", number |-> 0]
      [] OTHER  -> [says |-> "menu"]]

\* The processes of every kind are x1 and x2, but h1 and h2 serve the web-hooks
\* of Outreach; both pairs change places together.
swap == x1 :> x2 @@ x2 :> x1 @@ h1 :> h2 @@ h2 :> h1
MCSymmetry == Permutations(Invites) \cup {swap}

noAccounts == /\ AccountsInit /\ begun = MaxRequests
              /\ \A u \in Users : user[u].exists <=> u = u1
              /\ \A s \in Sessions : session[s].user = NoOne

\* The debtors' contracts and conversation start with no debt ended and no
\* telephone on file, and with one for the pages, which do not touch it.
AccessFrom(phone) == AccessInit /\ \A c \in Owed : debt[c].phone = phone

MCInit ==
    \/ /\ noAccounts /\ OutreachInit
       /\ \/ scene = "chat" /\ AccessFrom("NONE")
          \/ scene = "pages" /\ AccessFrom("CREDITOR")
    \/ /\ AccessFrom("CREDITOR")
       /\ scene = "accounts" /\ AccountsInit /\ begun = 0 /\ OutreachInit
       /\ user[u1].role = "ADMIN" /\ session[s2].user = NoOne
       /\ \A u \in Users \ {u1} : user[u] = Absent \/ user[u].portal
    \/ /\ AccessFrom("CREDITOR") /\ noAccounts
       /\ \/ scene \in {"calls due", "clock"} /\ OutreachInit
          \/ scene \in {"messages due", "campaign"} /\ OutreachFrom(2, {})
          \/ scene = "called" /\ OutreachFrom(2, {<<k2, 1>>})

Clear == \E d \in Debtors : Cleared(d)

\* Which part of Outreach plays in which scene.
OutreachScene ==
    \/ /\ scene = "calls due"
       /\ UpsertAgent \/ Clear \/ \E p \in Pods : PodStep(p) \/ SendStep(p)
    \/ scene = "clock" /\ (Minute \/ \E p \in Pods : PodTick(p))
    \/ scene = "messages due" /\ (Clear \/ \E p \in Pods : PodStep(p) \/ SendStep(p))
    \/ scene = "called" /\ (Clear \/ \E h \in VoiceHooks : RingStep(h) \/ SendStep(h))
    \/ scene = "campaign" /\ (Clear \/ \E j \in Campaigns : CampaignStep(j) \/ SendStep(j))

AccessScene ==
    \/ /\ scene = "chat"
       /\ \/ \E x \in Turns : TurnStep(x)
          \/ \E c \in Owed : Ended(c) \/ PhoneSupplied(c)
    \/ /\ scene = "pages"
       /\ \/ \E v \in Visits : VisitStep(v)
          \/ \E c \in Owed : Ended(c)
          \/ \E l \in Links : LinkNoticed(l) \/ LinkExpires(l)
          \/ \E p \in Holders : MinutePasses("lookup", p) \/ MinutePasses("pix", p)

MCNext ==
    /\ UNCHANGED scene
    /\ \/ scene = "accounts" /\ AccountsNext /\ UNCHANGED <<outreachVars, accessVars>>
       \/ OutreachScene /\ UNCHANGED <<accountsVars, accessVars>>
       \/ AccessScene /\ UNCHANGED <<accountsVars, outreachVars>>

MCSpec == MCInit /\ [][MCNext]_<<scene, accountsVars, outreachVars, accessVars>>

\* The rows of all three hold what their columns may.
BackOfficeTypeOK == AccountsTypeOK /\ OutreachTypeOK /\ AccessTypeOK

=============================================================================
