------------------------------ MODULE Outreach ------------------------------
(***************************************************************************)
(* Messages to debtors: the rules a wallet keeps for them, run by a timer  *)
(* in every API process (communication-rules.job), the filtered campaigns  *)
(* run by a queue, and the provider's web-hooks, among them the request of *)
(* a debtor on a call for a payment link (liguelead.service).  All of them *)
(* send through sendSms and sendCalls, whose steps are the Send actions    *)
(* below: the contracts are looked at, every one gets a link and a request *)
(* of its own, and only when all requests were answered one transaction    *)
(* records the dispatch.  Receipts of web-hooks, which nothing reads, and  *)
(* the wording of messages are left out.                                   *)
(***************************************************************************)
EXTENDS Integers, FiniteSets, FiniteSetsExt

CONSTANTS Debtors,       \* contracts of one wallet, one debtor each
          WithPhone,     \* those that hold a telephone and an e-mail address
          CommRules,     \* communication rules
          ChannelOf,     \* the channel of each
          DueAt,         \* the minutes at which each is due
          LastMinute,    \* the clock stops there
          Pods,          \* API processes
          BatchSize,     \* contracts in one batch of a rule
          Campaigns,     \* filtered SMS jobs
          PageSize,      \* contracts on one page of a campaign
          CampaignTries, \* attempts of a campaign's job
          VoiceHooks,    \* web-hooks served at a time
          MaxRings,      \* web-hooks served in all
          MaxBreaks      \* failing calls and dead processes, in all

Channels == {"SMS", "CALL", "EMAIL"}
RunKeys == CommRules \X (1 .. LastMinute)
Calls == {k \in RunKeys : ChannelOf[k[1]] = "CALL"} \X Debtors

ASSUME OutreachAssumption ==
    /\ WithPhone \subseteq Debtors /\ IsFiniteSet(Debtors)
    /\ IsFiniteSet(Pods) /\ IsFiniteSet(Campaigns) /\ IsFiniteSet(VoiceHooks)
    \* A dispatch tells who sends it, and what asked for it.
    /\ Pods \cap Campaigns = {} /\ Pods \cap VoiceHooks = {} /\ Campaigns \cap VoiceHooks = {}
    /\ RunKeys \cap Calls = {} /\ Campaigns \cap (RunKeys \cup Calls) = {}
    /\ ChannelOf \in [CommRules -> Channels]
    /\ DueAt \in [CommRules -> SUBSET (1 .. LastMinute)]
    /\ LastMinute \in Nat \ {0} /\ BatchSize \in Nat \ {0} /\ PageSize \in Nat \ {0}
    /\ CampaignTries \in Nat \ {0} /\ MaxRings \in Nat /\ MaxBreaks \in Nat

VARIABLES minute,     \* the clock, in Sao Paulo
          owing,      \* contracts that are active and not paid
          agent,      \* is the wallet's voice agent active
          runRow,     \* table CommunicationRuleRun
          pod,        \* the timer of each process
          campaign,   \* the jobs of filtered campaigns
          ring,       \* the web-hooks in progress
          rings,      \* how many were begun
          send,       \* the call of sendSms or sendCalls each of them makes
          items,      \* dispatch items recorded, by what asked for them
          callStatus, \* the status of a call's item
          callTalk,   \* the status of its interaction
          links,      \* payment links that work, per contract
          seenKeys,   \* table LigueLeadWebhookEvent
          breaks,     \* how much went wrong
          handed,     \* ghost: how often a run handed a contract to the provider
          dropped     \* ghost: calls whose web-hook died on the way

outreachVars == <<minute, owing, agent, runRow, pod, campaign, ring, rings, send, items,
                  callStatus, callTalk, links, seenKeys, breaks, handed, dropped>>

world == <<minute, owing, agent>>
ruleVars == <<runRow, pod, handed>>
ringVars == <<ring, rings, dropped>>
recordVars == <<items, callStatus, callTalk>>

NoRun == [status |-> "NONE"]
PodIdle == [at |-> "idle"]
NoRing == [at |-> "idle"]
NoSend == [at |-> "none"]
Causes == RunKeys \cup Calls \cup Campaigns
Senders == Pods \cup Campaigns \cup VoiceHooks

Break == breaks < MaxBreaks /\ breaks' = breaks + 1
\* The dispatches of a channel are SMS unless it is a run of a rule for calls.
IsCall(cause) == cause \in RunKeys /\ ChannelOf[cause[1]] = "CALL"

-----------------------------------------------------------------------------
(* The world.                                                              *)

Minute ==
    /\ minute < LastMinute /\ minute' = minute + 1
    /\ UNCHANGED <<owing, agent, ruleVars, ringVars, recordVars, campaign, send, links,
                   seenKeys, breaks>>

\* A contract is paid, cancelled or suspended.
Cleared(d) ==
    /\ d \in owing /\ owing' = owing \ {d}
    /\ UNCHANGED <<minute, agent, ruleVars, ringVars, recordVars, campaign, send,
                   links, seenKeys, breaks>>

UpsertAgent ==
    /\ agent' \in BOOLEAN \ {agent}
    /\ UNCHANGED <<minute, owing, ruleVars, ringVars, recordVars, campaign, send,
                   links, seenKeys, breaks>>

-----------------------------------------------------------------------------
(* sendSms and sendCalls.                                                  *)

Call(x, cause, batch) ==
    send' = [send EXCEPT ![x] = [at |-> "check", cause |-> cause, batch |-> batch]]
Answered(x) == send[x].at \in {"ok", "failed"}

\* eligibleContracts: one contract that is no longer eligible fails them
\* all.  An SMS gives every contract a link first.
SendCheck(x) ==
    LET s == send[x]
        sound == s.batch \subseteq owing \cap WithPhone /\ (IsCall(s.cause) => agent)
    IN  /\ s.at = "check"
        /\ send' = [send EXCEPT ![x].at = IF sound THEN "post" ELSE "failed"]
        /\ links' = [d \in Debtors |->
              links[d] + IF sound /\ ~IsCall(s.cause) /\ d \in s.batch THEN 1 ELSE 0]
        /\ UNCHANGED <<world, ruleVars, ringVars, recordVars, campaign, seenKeys, breaks>>

\* The requests of a batch, each tried up to three times: those that fail
\* delete their link, and one of them fails the batch, although the
\* provider took the others.  The calls of a batch are one request.
SendPost(x) ==
    LET s == send[x]
    IN  /\ s.at = "post"
        /\ \E lost \in SUBSET s.batch :
              /\ IF lost = {} THEN UNCHANGED breaks ELSE Break
              /\ send' = [send EXCEPT ![x].at = IF lost = {} THEN "record" ELSE "failed"]
              /\ links' = [d \in Debtors |->
                    links[d] - IF d \in lost /\ ~IsCall(s.cause) THEN 1 ELSE 0]
        /\ UNCHANGED <<world, ruleVars, ringVars, recordVars, campaign, seenKeys>>

\* createDispatchWithInteractions: the dispatch, its items and the
\* interactions, in one transaction.
SendRecord(x) ==
    LET s == send[x]
        dialled(k) == IsCall(s.cause) /\ k[1] = s.cause /\ k[2] \in s.batch
    IN  /\ s.at = "record"
        /\ send' = [send EXCEPT ![x].at = "ok"]
        /\ items' = [items EXCEPT ![s.cause] =
              [d \in Debtors |-> items[s.cause][d] + IF d \in s.batch THEN 1 ELSE 0]]
        /\ callStatus' = [k \in Calls |-> IF dialled(k) THEN "PENDING" ELSE callStatus[k]]
        /\ callTalk' = [k \in Calls |-> IF dialled(k) THEN "QUEUED" ELSE callTalk[k]]
        /\ UNCHANGED <<world, ruleVars, ringVars, campaign, links, seenKeys, breaks>>

SendBreaks(x) ==
    /\ send[x].at = "record" /\ Break
    /\ send' = [send EXCEPT ![x].at = "failed"]
    /\ UNCHANGED <<world, ruleVars, ringVars, recordVars, campaign, links, seenKeys>>

-----------------------------------------------------------------------------
(* communication-rules.job.                                                *)

\* runDueRules: once a minute, unless the last one still runs.
PodTick(p) ==
    LET due == {r \in CommRules : minute \in DueAt[r]}
    IN  /\ pod[p] = PodIdle /\ due # {}
        /\ pod' = [pod EXCEPT ![p] = [at |-> "rules", minute |-> minute, left |-> due]]
        /\ UNCHANGED <<world, runRow, handed, ringVars, recordVars, campaign, send,
                       links, seenKeys, breaks>>

Taken(p, r) == [at |-> "select", minute |-> pod[p].minute, left |-> pod[p].left \ {r},
                rule |-> r]
Run(p) == <<pod[p].rule, pod[p].minute>>
Onward(left, m) == IF left = {} THEN PodIdle ELSE [at |-> "rules", minute |-> m, left |-> left]

\* Seeded fault: the run's row is not unique.
RunCreateAnyway(p) ==
    /\ pod[p].at = "rules"
    /\ \E r \in pod[p].left :
          /\ runRow' = [runRow EXCEPT ![<<r, pod[p].minute>>] = [status |-> "RUNNING"]]
          /\ pod' = [pod EXCEPT ![p] = Taken(p, r)]
    /\ UNCHANGED <<world, handed, ringVars, recordVars, campaign, send, links,
                   seenKeys, breaks>>

\* runRule: the row of the run is created, or another process has it.
RunCreate(p) ==
    /\ pod[p].at = "rules"
    /\ \E r \in pod[p].left :
          LET k == <<r, pod[p].minute>>
          IN  IF runRow[k] = NoRun
              THEN /\ runRow' = [runRow EXCEPT ![k] = [status |-> "RUNNING"]]
                   /\ pod' = [pod EXCEPT ![p] = Taken(p, r)]
              ELSE /\ pod' = [pod EXCEPT ![p] = Onward(pod[p].left \ {r}, pod[p].minute)]
                   /\ UNCHANGED runRow
    /\ UNCHANGED <<world, handed, ringVars, recordVars, campaign, send, links,
                   seenKeys, breaks>>

\* The contracts of the rule; those without a telephone or an address have
\* failed already.
RunSelect(p) ==
    /\ pod[p].at = "select"
    /\ pod' = [pod EXCEPT ![p] =
          [at |-> "batch", minute |-> pod[p].minute, left |-> pod[p].left,
           rule |-> pod[p].rule, matched |-> Cardinality(owing),
           rest |-> owing \cap WithPhone, batch |-> {}, sent |-> 0,
           failed |-> Cardinality(owing \ WithPhone)]]
    /\ UNCHANGED <<world, runRow, handed, ringVars, recordVars, campaign, send, links,
                   seenKeys, breaks>>

Slices(set, n) == kSubset(IF Cardinality(set) < n THEN Cardinality(set) ELSE n, set)

\* The next batch goes to sendSms or sendCalls ...
RunBatch(p) ==
    /\ pod[p].at = "batch" /\ pod[p].rest # {} /\ ChannelOf[pod[p].rule] # "EMAIL"
    /\ \E b \in Slices(pod[p].rest, BatchSize) :
          /\ Call(p, Run(p), b)
          /\ pod' = [pod EXCEPT ![p].at = "wait", ![p].batch = b, ![p].rest = @ \ b]
          /\ handed' = [handed EXCEPT ![Run(p)] =
                [d \in Debtors |-> handed[Run(p)][d] + IF d \in b THEN 1 ELSE 0]]
    /\ UNCHANGED <<world, runRow, ringVars, recordVars, campaign, links, seenKeys,
                   breaks>>

\* Seeded fault: a batch counts as sent before it is known to be.
BatchAnsweredEarly(p) ==
    /\ pod[p].at = "wait" /\ Answered(p)
    /\ pod' = [pod EXCEPT ![p].at = "batch", ![p].batch = {},
                          ![p].sent = @ + Cardinality(pod[p].batch)]
    /\ send' = [send EXCEPT ![p] = NoSend]
    /\ UNCHANGED <<world, runRow, handed, ringVars, recordVars, campaign, links,
                   seenKeys, breaks>>

\* ... and counts as sent or as failed, as a whole.
BatchAnswered(p) ==
    LET n == Cardinality(pod[p].batch)
    IN  /\ pod[p].at = "wait" /\ Answered(p)
        /\ pod' = [pod EXCEPT ![p].at = "batch", ![p].batch = {},
                      ![p].sent = @ + IF send[p].at = "ok" THEN n ELSE 0,
                      ![p].failed = @ + IF send[p].at = "ok" THEN 0 ELSE n]
        /\ send' = [send EXCEPT ![p] = NoSend]
        /\ UNCHANGED <<world, runRow, handed, ringVars, recordVars, campaign, links,
                       seenKeys, breaks>>

\* An e-mail is sent, or fails, on its own.
RunMail(p) ==
    /\ pod[p].at = "batch" /\ pod[p].rest # {} /\ ChannelOf[pod[p].rule] = "EMAIL"
    /\ \E d \in pod[p].rest :
          /\ handed' = [handed EXCEPT ![Run(p)][d] = @ + 1]
          /\ \/ /\ pod' = [pod EXCEPT ![p].rest = @ \ {d}, ![p].sent = @ + 1]
                /\ items' = [items EXCEPT ![Run(p)][d] = @ + 1]
                /\ UNCHANGED breaks
             \/ /\ Break
                /\ pod' = [pod EXCEPT ![p].rest = @ \ {d}, ![p].failed = @ + 1]
                /\ UNCHANGED items
    /\ UNCHANGED <<world, runRow, ringVars, callStatus, callTalk, campaign, send,
                   links, seenKeys>>

RunStatus(sent, failed) ==
    IF failed = 0 THEN "COMPLETED" ELSE IF sent > 0 THEN "COMPLETED_WITH_ERRORS" ELSE "FAILED"

RunClose(p) ==
    /\ pod[p].at = "batch" /\ pod[p].rest = {}
    /\ runRow' = [runRow EXCEPT ![Run(p)] =
          [status |-> RunStatus(pod[p].sent, pod[p].failed), matched |-> pod[p].matched,
           sent |-> pod[p].sent, failed |-> pod[p].failed]]
    /\ pod' = [pod EXCEPT ![p] = Onward(pod[p].left, pod[p].minute)]
    /\ UNCHANGED <<world, handed, ringVars, recordVars, campaign, send, links,
                   seenKeys, breaks>>

\* The query or the last update fails: the run is FAILED, without counts.
RunFails(p) ==
    /\ \/ pod[p].at = "select"
       \/ pod[p].at = "batch" /\ pod[p].rest = {}
    /\ Break
    /\ runRow' = [runRow EXCEPT ![Run(p)] = [status |-> "FAILED"]]
    /\ pod' = [pod EXCEPT ![p] = Onward(pod[p].left, pod[p].minute)]
    /\ UNCHANGED <<world, handed, ringVars, recordVars, campaign, send, links, seenKeys>>

\* The process dies and is started again: its run stays RUNNING.
PodDies(p) ==
    /\ pod[p] # PodIdle /\ Break
    /\ pod' = [pod EXCEPT ![p] = PodIdle]
    /\ send' = [send EXCEPT ![p] = NoSend]
    /\ UNCHANGED <<world, runRow, handed, ringVars, recordVars, campaign, links,
                   seenKeys>>

-----------------------------------------------------------------------------
(* Filtered campaigns: enqueueFilteredSms and sendFilteredSms.             *)

CampaignQueue(j) ==
    /\ campaign[j].at = "none"
    /\ campaign' = [campaign EXCEPT ![j] = [at |-> "page", tries |-> 0, done |-> {}]]
    /\ UNCHANGED <<world, ruleVars, ringVars, recordVars, send, links, seenKeys, breaks>>

\* A page of contracts, those not eligible left out; none left is the end.
CampaignPage(j) ==
    /\ campaign[j].at = "page"
    /\ \E page \in Slices(Debtors \ campaign[j].done, PageSize) :
          LET sendable == page \cap owing \cap WithPhone
          IN  /\ campaign' = [campaign EXCEPT
                    ![j].at = IF page = {} THEN "done"
                              ELSE IF sendable = {} THEN "page" ELSE "wait",
                    ![j].done = @ \cup page]
              /\ IF sendable = {} THEN UNCHANGED send ELSE Call(j, j, sendable)
    /\ UNCHANGED <<world, ruleVars, ringVars, recordVars, links, seenKeys, breaks>>

\* A page that failed fails the job, and another attempt begins with the
\* first page.
CampaignAnswered(j) ==
    /\ campaign[j].at = "wait" /\ Answered(j)
    /\ campaign' = [campaign EXCEPT ![j] =
          IF send[j].at = "ok" THEN [at |-> "page", tries |-> @.tries, done |-> @.done]
          ELSE IF @.tries + 1 >= CampaignTries THEN [at |-> "done", tries |-> @.tries, done |-> {}]
          ELSE [at |-> "page", tries |-> @.tries + 1, done |-> {}]]
    /\ send' = [send EXCEPT ![j] = NoSend]
    /\ UNCHANGED <<world, ruleVars, ringVars, recordVars, links, seenKeys, breaks>>

-----------------------------------------------------------------------------
(* sendPaymentLinkFromVoiceAction.                                         *)

VoiceKey(k) == <<k, "link">>

\* The call is found by its campaign and telephone.
VoiceFind(h) ==
    /\ ring[h] = NoRing /\ rings < MaxRings /\ rings' = rings + 1
    /\ \E k \in Calls :
          /\ callStatus[k] # "NONE"
          /\ ring' = [ring EXCEPT ![h] = [at |-> "ask", of |-> k]]
    /\ UNCHANGED <<world, ruleVars, dropped, recordVars, campaign, send, links,
                   seenKeys, breaks>>

\* The event's row is created, and the link goes to sendSms; or the row is
\* there, and the request is a duplicate.
VoiceEvent(h) ==
    LET k == ring[h].of
    IN  /\ ring[h].at = "ask"
        /\ IF VoiceKey(k) \in seenKeys
           THEN ring' = [ring EXCEPT ![h] = NoRing] /\ UNCHANGED <<seenKeys, send>>
           ELSE /\ seenKeys' = seenKeys \cup {VoiceKey(k)}
                /\ ring' = [ring EXCEPT ![h].at = "wait"]
                /\ Call(h, k, {k[2]})
        /\ UNCHANGED <<world, ruleVars, rings, dropped, recordVars, campaign, links,
                       breaks>>

\* Seeded fault: the row stays when the message failed.
VoiceAnsweredKept(h) ==
    /\ ring[h].at = "wait" /\ Answered(h)
    /\ ring' = [ring EXCEPT ![h] = NoRing]
    /\ send' = [send EXCEPT ![h] = NoSend]
    /\ UNCHANGED <<world, ruleVars, rings, dropped, recordVars, campaign, links,
                   seenKeys, breaks>>

\* When the message failed the row is deleted, so that the provider's next
\* attempt may send it.
VoiceAnswered(h) ==
    /\ ring[h].at = "wait" /\ Answered(h)
    /\ seenKeys' = IF send[h].at = "ok" THEN seenKeys ELSE seenKeys \ {VoiceKey(ring[h].of)}
    /\ ring' = [ring EXCEPT ![h] = NoRing]
    /\ send' = [send EXCEPT ![h] = NoSend]
    /\ UNCHANGED <<world, ruleVars, rings, dropped, recordVars, campaign, links, breaks>>

-----------------------------------------------------------------------------
(* processWebhook: the provider reports the status of a call.              *)

Reports == {"sent", "answer", "busy"}
ItemOf(report) == IF report = "sent" THEN "IN_PROGRESS"
                  ELSE IF report = "answer" THEN "COMPLETED" ELSE "FAILED"
TalkOf(report) == IF report = "sent" THEN "SENT"
                  ELSE IF report = "answer" THEN "ANSWERED" ELSE "NO_ANSWER"

\* The item is found, and the event's row created; a duplicate ends here.
ReportFind(h) ==
    /\ ring[h] = NoRing /\ rings < MaxRings /\ rings' = rings + 1
    /\ \E k \in Calls, report \in Reports :
          /\ callStatus[k] # "NONE" /\ <<k, report>> \notin seenKeys
          /\ seenKeys' = seenKeys \cup {<<k, report>>}
          /\ ring' = [ring EXCEPT ![h] = [at |-> "item", of |-> k, report |-> report]]
    /\ UNCHANGED <<world, ruleVars, dropped, recordVars, campaign, send, links, breaks>>

\* The item takes the status, whatever it had; then the interaction does.
ReportItem(h) ==
    /\ ring[h].at = "item"
    /\ callStatus' = [callStatus EXCEPT ![ring[h].of] = ItemOf(ring[h].report)]
    /\ ring' = [ring EXCEPT ![h].at = "talk"]
    /\ UNCHANGED <<world, ruleVars, rings, dropped, items, callTalk, campaign, send,
                   links, seenKeys, breaks>>

ReportTalk(h) ==
    /\ ring[h].at = "talk"
    /\ callTalk' = [callTalk EXCEPT ![ring[h].of] = TalkOf(ring[h].report)]
    /\ ring' = [ring EXCEPT ![h] = NoRing]
    /\ UNCHANGED <<world, ruleVars, rings, dropped, items, callStatus, campaign, send,
                   links, seenKeys, breaks>>

\* The process of a web-hook dies, or the database fails it.
RingDies(h) ==
    /\ ring[h] # NoRing /\ Break
    /\ dropped' = dropped \cup {ring[h].of}
    /\ ring' = [ring EXCEPT ![h] = NoRing]
    /\ send' = [send EXCEPT ![h] = NoSend]
    /\ UNCHANGED <<world, ruleVars, rings, recordVars, campaign, links,
                   seenKeys>>

-----------------------------------------------------------------------------
\* At minute m the given runs of rules for calls were completed, and nothing
\* else was sent.
OutreachFrom(m, ran) ==
    LET reached == Debtors \cap WithPhone
        dialled(k) == k[1] \in ran /\ k[2] \in reached
    IN  /\ minute = m /\ owing = Debtors /\ agent = TRUE
        /\ runRow = [k \in RunKeys |-> IF k \notin ran THEN NoRun
              ELSE [status |-> RunStatus(Cardinality(reached), Cardinality(Debtors \ reached)),
                    matched |-> Cardinality(Debtors), sent |-> Cardinality(reached),
                    failed |-> Cardinality(Debtors \ reached)]]
        /\ handed = [k \in RunKeys |-> [d \in Debtors |->
                        IF k \in ran /\ d \in reached THEN 1 ELSE 0]]
        /\ items = [k \in Causes |-> [d \in Debtors |->
                        IF k \in ran /\ d \in reached THEN 1 ELSE 0]]
        /\ callStatus = [k \in Calls |-> IF dialled(k) THEN "PENDING" ELSE "NONE"]
        /\ callTalk = [k \in Calls |-> IF dialled(k) THEN "QUEUED" ELSE "NONE"]
        /\ pod = [p \in Pods |-> PodIdle]
        /\ campaign = [j \in Campaigns |-> [at |-> "none"]]
        /\ ring = [h \in VoiceHooks |-> NoRing] /\ rings = 0
        /\ send = [x \in Senders |-> NoSend]
        /\ links = [d \in Debtors |-> 0]
        /\ seenKeys = {} /\ breaks = 0 /\ dropped = {}

\* Nothing was sent yet.
OutreachInit == OutreachFrom(1, {})

SendStep(x) == SendCheck(x) \/ SendPost(x) \/ SendRecord(x) \/ SendBreaks(x)
PodStep(p) == \/ PodTick(p) \/ RunCreate(p) \/ RunSelect(p) \/ RunBatch(p)
              \/ BatchAnswered(p) \/ RunMail(p) \/ RunClose(p) \/ RunFails(p) \/ PodDies(p)
CampaignStep(j) == CampaignQueue(j) \/ CampaignPage(j) \/ CampaignAnswered(j)
RingStep(h) == \/ VoiceFind(h) \/ VoiceEvent(h) \/ VoiceAnswered(h)
               \/ ReportFind(h) \/ ReportItem(h) \/ ReportTalk(h) \/ RingDies(h)

OutreachNext ==
    \/ Minute \/ UpsertAgent \/ \E d \in Debtors : Cleared(d)
    \/ \E x \in Senders : SendStep(x)
    \/ \E p \in Pods : PodStep(p)
    \/ \E j \in Campaigns : CampaignStep(j)
    \/ \E h \in VoiceHooks : RingStep(h)

OutreachSpec == OutreachInit /\ [][OutreachNext]_outreachVars

-----------------------------------------------------------------------------
(* Properties.                                                             *)

\* The rows hold what their columns may.
OutreachTypeOK ==
    /\ minute \in 1 .. LastMinute /\ owing \subseteq Debtors /\ agent \in BOOLEAN
    /\ \A k \in RunKeys : runRow[k].status \in
          {"NONE", "RUNNING", "COMPLETED", "COMPLETED_WITH_ERRORS", "FAILED"}
    /\ items \in [Causes -> [Debtors -> Nat]] /\ links \in [Debtors -> Nat]
    /\ callStatus \in [Calls -> {"NONE", "PENDING", "IN_PROGRESS", "COMPLETED", "FAILED"}]
    /\ callTalk \in [Calls -> {"NONE", "QUEUED", "SENT", "ANSWERED", "NO_ANSWER"}]
    /\ breaks \in 0 .. MaxBreaks /\ rings \in 0 .. MaxRings

\* A rule hands a contract to the provider at most once for one due minute,
\* whichever processes fire at it and whichever of them die: the row of the
\* run comes first and is unique.
RuleRunsOnce == \A k \in RunKeys, d \in Debtors : handed[k][d] <= 1

\* The counts of a finished run tell what it recorded: sent is the number of
\* contracts its dispatches hold, and with the failed ones they are all that
\* matched, through batches that fail whole and contracts paid meanwhile.
SentIsRecorded ==
    \A k \in RunKeys : "sent" \in DOMAIN runRow[k] =>
       /\ runRow[k].sent = Cardinality({d \in Debtors : items[k][d] > 0})
       /\ runRow[k].sent + runRow[k].failed = runRow[k].matched

\* A request for a payment link, however often the provider delivers it,
\* records one message; and once it is acknowledged and nobody works on it,
\* that message is recorded, unless a web-hook died on it.  A failed attempt
\* leaves the next one free to send.
VoiceLinkOnce ==
    \A k \in Calls :
       LET busy == \E h \in VoiceHooks : ring[h].at = "wait" /\ ring[h].of = k
       IN  /\ items[k][k[2]] <= 1
           /\ (VoiceKey(k) \in seenKeys /\ ~busy /\ k \notin dropped) => items[k][k[2]] = 1

=============================================================================
