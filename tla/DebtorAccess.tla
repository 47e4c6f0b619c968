---------------------------- MODULE DebtorAccess ----------------------------
(***************************************************************************)
(* What a debtor does without an account: a conversation with the WhatsApp *)
(* bot (whatsapp-bot.service), and the public pages that show debts and    *)
(* hand out a Pix by document or by the link of a message                  *)
(* (public-debt.service), behind a counter of requests per address and     *)
(* document (public-debt-rate-limit.service).  The bot keeps one row per   *)
(* conversation: a state, the document looked up last and the debts found  *)
(* for it.  Chatwoot may deliver a message again and messages side by      *)
(* side.  The Serasa removal a contestation asks for is in                 *)
(* SerasaOperations, what issuing a Pix takes in PixIssuance.              *)
(***************************************************************************)
EXTENDS Integers, Sequences, SequencesExt, FiniteSets, Selection

CONSTANTS Holders,      \* documents of debtors
          NoHolder,
          ByDueDate,    \* the contracts, in the order of their due dates
          HolderOf,     \* the document on each contract
          Messages,     \* messages of one conversation
          SaysOf,       \* what each says
          Turns,        \* deliveries of messages served at a time
          MaxTurns,     \* deliveries served in all
          Links,        \* links sent in messages
          LinkTo,       \* the contract each is for
          Visits,       \* requests of the public pages served at a time
          MaxVisits,    \* requests served in all
          MaxAsks,      \* requests an address makes for a document in a minute
          MaxUpsets     \* failing calls and dead processes, in all

Owed == ToSet(ByDueDate)
\* What a message may say; the number of a debt is 0 when none is given.
Sayings == [says: {"menu", "other"}] \cup [says: {"document"}, whose: Holders]
           \cup [says: {"pix", "contest"}, number: 0 .. Len(ByDueDate)]

ASSUME AccessAssumption ==
    /\ NoHolder \notin Holders
    /\ ByDueDate \in Seq(Owed) /\ HolderOf \in [Owed -> Holders]
    /\ SaysOf \in [Messages -> Sayings]
    /\ LinkTo \in [Links -> Owed]
    /\ MaxTurns \in Nat /\ MaxVisits \in Nat /\ MaxAsks \in Nat /\ MaxUpsets \in Nat

VARIABLES debt,       \* is a contract active, is it paid, whose is its telephone
          chat,       \* table WhatsAppBotConversation
          heard,      \* table WhatsAppBotMessage
          turn,       \* the deliveries in progress
          link,       \* table PublicDebtAccessLink, and the interactions of it
          visit,      \* the requests of public pages in progress
          tally,      \* the counters in Redis: requests, and do they run out
          taken,      \* turns and visits begun
          upsets,     \* how much went wrong
          acted       \* ghost: what was done to a contract, and on whose word

accessVars == <<debt, chat, heard, turn, link, visit, tally, taken, upsets, acted>>
NoTurn == [at |-> "idle"]
NoVisit == [at |-> "idle"]
Upset == upsets < MaxUpsets /\ upsets' = upsets + 1

\* The filter of lookup, generatePix and activeAccessLink.
Owing(c) == debt[c].active /\ ~debt[c].paid

-----------------------------------------------------------------------------
(* What happens to contracts elsewhere.                                    *)

Ended(c) ==
    /\ Owing(c)
    /\ \/ debt' = [debt EXCEPT ![c].active = FALSE]
       \/ debt' = [debt EXCEPT ![c].paid = TRUE]
    /\ UNCHANGED <<chat, heard, turn, link, visit, tally, taken, upsets, acted>>

PhoneSupplied(c) ==
    /\ debt[c].phone # "CREDITOR"
    /\ debt' = [debt EXCEPT ![c].phone = "CREDITOR"]
    /\ UNCHANGED <<chat, heard, turn, link, visit, tally, taken, upsets, acted>>

-----------------------------------------------------------------------------
(* receive: one delivery of a message.                                     *)

\* A message that was recorded is a duplicate.  A phone number, or the
\* contact of the web widget, is the key of the conversation.
Receive(x, m) ==
    /\ turn[x] = NoTurn /\ taken.turns < MaxTurns
    /\ m \notin heard
    /\ turn' = [turn EXCEPT ![x] = [at |-> "open", message |-> m]]
    /\ taken' = [taken EXCEPT !.turns = @ + 1]
    /\ UNCHANGED <<debt, chat, heard, link, visit, tally, upsets, acted>>

\* The row as it is now is the one the whole reply works with.
ReadChat(x) ==
    /\ turn[x].at = "open"
    /\ turn' = [turn EXCEPT ![x] =
          [at |-> "reply", message |-> turn[x].message, seen |-> chat]]
    /\ UNCHANGED <<debt, chat, heard, link, visit, tally, taken, upsets, acted>>

Said(x) == SaysOf[turn[x].message]
Replying(x, what) == turn[x].at = "reply" /\ Said(x).says = what
\* A state of AWAITING_ACTION is one with a document, and a list.
Acting(x) == turn[x].seen.state = "AWAITING_ACTION" /\ turn[x].seen.document # NoHolder
Option(x) == IF Said(x).number <= Len(turn[x].seen.list) THEN Said(x).number ELSE 0
Selected(x) == turn[x].seen.list[IF Option(x) = 0 THEN 1 ELSE Option(x)]
ThenSend(x) == turn' = [turn EXCEPT ![x] = [at |-> "send", message |-> turn[x].message]]

\* Seeded fault: the state the schema keeps for names.
ReplyMenuToName(x) ==
    /\ Replying(x, "menu")
    /\ chat' = [chat EXCEPT !.state = "AWAITING_NAME", !.document = NoHolder]
    /\ ThenSend(x)
    /\ UNCHANGED <<debt, heard, link, visit, tally, taken, upsets, acted>>

\* contracts: undefined leaves the list as it is.
ReplyMenu(x) ==
    /\ Replying(x, "menu")
    /\ chat' = [chat EXCEPT !.state = "AWAITING_CPF", !.document = NoHolder]
    /\ ThenSend(x)
    /\ UNCHANGED <<debt, heard, link, visit, tally, taken, upsets, acted>>

\* Seeded fault: the document is missing in the filter.
FoundForAny(p) == SelectSeq(ByDueDate, Owing)

\* The filter of lookup, in the order of the due dates.
Found(p) == Chosen(ByDueDate, {i \in DOMAIN ByDueDate :
                                  HolderOf[ByDueDate[i]] = p /\ Owing(ByDueDate[i])})

LookupRead(x) ==
    /\ Replying(x, "document")
    /\ turn' = [turn EXCEPT ![x] =
          [at |-> "found", message |-> turn[x].message, list |-> Found(Said(x).whose)]]
    /\ UNCHANGED <<debt, chat, heard, link, visit, tally, taken, upsets, acted>>

LookupWrite(x) ==
    /\ turn[x].at = "found"
    /\ chat' = [document |-> Said(x).whose, list |-> turn[x].list,
                state |-> IF turn[x].list = << >> THEN "AWAITING_CPF" ELSE "AWAITING_ACTION"]
    /\ ThenSend(x)
    /\ UNCHANGED <<debt, heard, link, visit, tally, taken, upsets, acted>>

\* Everything that is only answered: menus, details, the check of a payment,
\* a Pix for none of several debts.
ReplyAside(x) ==
    /\ turn[x].at = "reply"
    /\ \/ Said(x).says = "other"
       \/ Said(x).says \in {"pix", "contest"} /\ ~Acting(x)
       \/ Said(x).says = "pix" /\ Acting(x) /\ Option(x) = 0 /\ Len(turn[x].seen.list) > 1
    /\ ThenSend(x)
    /\ UNCHANGED <<debt, chat, heard, link, visit, tally, taken, upsets, acted>>

\* cancelForContest: a contract that is cancelled already makes the whole
\* delivery fail, and so does an account without an active user (TurnFails).
ContestRead(x) ==
    /\ Replying(x, "contest") /\ Acting(x)
    /\ turn' = [turn EXCEPT ![x] =
          IF debt[Selected(x)].active
          THEN [at |-> "contest", message |-> turn[x].message, contract |-> Selected(x),
                word |-> turn[x].seen.document]
          ELSE NoTurn]
    /\ UNCHANGED <<debt, chat, heard, link, visit, tally, taken, upsets, acted>>

ContestWrite(x) ==
    LET t == turn[x]
    IN  /\ t.at = "contest"
        /\ debt' = [debt EXCEPT ![t.contract].active = FALSE]
        /\ acted' = acted \cup {[did |-> "contest", contract |-> t.contract, word |-> t.word]}
        /\ ThenSend(x)
        /\ UNCHANGED <<chat, heard, link, visit, tally, taken, upsets>>

-----------------------------------------------------------------------------
(* A Pix asked for in the conversation.                                    *)

\* The telephone is read first ...
PixPhone(x) ==
    /\ Replying(x, "pix") /\ Acting(x)
    /\ Option(x) > 0 \/ Len(turn[x].seen.list) = 1
    /\ turn' = [turn EXCEPT ![x] =
          [at |-> "pix", message |-> turn[x].message, contract |-> Selected(x),
           word |-> turn[x].seen.document, phone |-> debt[Selected(x)].phone]]
    /\ UNCHANGED <<debt, chat, heard, link, visit, tally, taken, upsets, acted>>

\* ... then generatePix looks for the contract, and answers none with an
\* apology, ...
PixFind(x) ==
    LET t == turn[x]
    IN  /\ t.at = "pix"
        /\ IF Owing(t.contract) /\ HolderOf[t.contract] = t.word
           THEN turn' = [turn EXCEPT ![x].at = "issue"]
           ELSE ThenSend(x)
        /\ UNCHANGED <<debt, chat, heard, link, visit, tally, taken, upsets, acted>>

\* ... createPixForContract refuses only what is paid, or fails, ...
Issued(c, w) == acted' = acted \cup {[did |-> "pix", contract |-> c, word |-> w]}

PixIssue(x) ==
    LET t == turn[x]
    IN  /\ t.at = "issue"
        /\ \/ /\ ~debt[t.contract].paid
              /\ turn' = [turn EXCEPT ![x].at = "capture"]
              /\ Issued(t.contract, t.word)
              /\ UNCHANGED upsets
           \/ /\ debt[t.contract].paid /\ ThenSend(x) /\ UNCHANGED <<acted, upsets>>
           \/ Upset /\ ThenSend(x) /\ UNCHANGED acted
        /\ UNCHANGED <<debt, chat, heard, link, visit, tally, taken>>

\* ... and the number of the conversation is kept when there was none, and
\* still is none.
Capture(x) ==
    LET t == turn[x]
    IN  /\ t.at = "capture"
        /\ debt' = IF t.phone = "NONE" /\ debt[t.contract].phone = "NONE"
                   THEN [debt EXCEPT ![t.contract].phone = "CHAT"] ELSE debt
        /\ ThenSend(x)
        /\ UNCHANGED <<chat, heard, link, visit, tally, taken, upsets, acted>>

-----------------------------------------------------------------------------
(* The end of a delivery.                                                  *)

\* The answers go out, and the message is recorded, which only the first of
\* two deliveries can.
Record(x) ==
    /\ turn[x].at = "send"
    /\ heard' = heard \cup {turn[x].message}
    /\ turn' = [turn EXCEPT ![x] = NoTurn]
    /\ UNCHANGED <<debt, chat, link, visit, tally, taken, upsets, acted>>

\* Chatwoot refuses an answer, another call throws, or the process dies: the
\* message is not recorded, and what was done stays.
TurnFails(x) ==
    /\ turn[x] # NoTurn /\ Upset
    /\ turn' = [turn EXCEPT ![x] = NoTurn]
    /\ UNCHANGED <<debt, chat, heard, link, visit, tally, taken, acted>>

-----------------------------------------------------------------------------
(* The public pages.                                                       *)

Begin(v, next) ==
    /\ visit[v] = NoVisit /\ taken.visits < MaxVisits
    /\ visit' = [visit EXCEPT ![v] = next]
    /\ taken' = [taken EXCEPT !.visits = @ + 1]

\* consume: INCR, ... (a lookup names no contract.)
Knock(v, action, p, c) ==
    /\ Begin(v, IF tally[<<action, p>>].count = 0
                THEN [at |-> "expire", action |-> action, word |-> p, contract |-> c]
                ELSE IF tally[<<action, p>>].count < MaxAsks
                THEN [at |-> action, word |-> p, contract |-> c]
                ELSE NoVisit)
    /\ tally' = [tally EXCEPT ![<<action, p>>].count = @ + 1]
    /\ UNCHANGED <<debt, chat, heard, turn, link, upsets, acted>>

\* ... and after the first of them EXPIRE.
SetExpiry(v) ==
    LET w == visit[v]
    IN  /\ w.at = "expire"
        /\ tally' = [tally EXCEPT ![<<w.action, w.word>>].expires = tally[<<w.action, w.word>>].count > 0]
        /\ visit' = [visit EXCEPT ![v] = [at |-> w.action, word |-> w.word, contract |-> w.contract]]
        /\ UNCHANGED <<debt, chat, heard, turn, link, taken, upsets, acted>>

MinutePasses(action, p) ==
    /\ tally[<<action, p>>].expires
    /\ tally' = [tally EXCEPT ![<<action, p>>] = [count |-> 0, expires |-> FALSE]]
    /\ UNCHANGED <<debt, chat, heard, turn, link, visit, taken, upsets, acted>>

\* lookup: the debts of the document are shown.
ShowDebts(v) ==
    /\ visit[v].at = "lookup"
    /\ visit' = [visit EXCEPT ![v] = NoVisit]
    /\ UNCHANGED <<debt, chat, heard, turn, link, tally, taken, upsets, acted>>

\* generatePix: the page names a contract and a document.
FindForPix(v) ==
    LET w == visit[v]
    IN  /\ w.at = "pix"
        /\ visit' = [visit EXCEPT ![v] =
              IF Owing(w.contract) /\ HolderOf[w.contract] = w.word
              THEN [at |-> "issue", contract |-> w.contract, word |-> w.word] ELSE NoVisit]
        /\ UNCHANGED <<debt, chat, heard, turn, link, tally, taken, upsets, acted>>

IssueForPage(v) ==
    LET w == visit[v]
    IN  /\ w.at = "issue"
        /\ visit' = [visit EXCEPT ![v] = NoVisit]
        /\ IF debt[w.contract].paid THEN UNCHANGED acted ELSE Issued(w.contract, w.word)
        /\ UNCHANGED <<debt, chat, heard, turn, link, tally, taken, upsets>>

\* activeAccessLink; the link stands for the document of its contract.
ActiveLink(l) == link[l].live /\ Owing(LinkTo[l])

LinkPix(v, l) ==
    /\ ActiveLink(l)
    /\ Begin(v, [at |-> "issue", contract |-> LinkTo[l], word |-> HolderOf[LinkTo[l]]])
    /\ UNCHANGED <<debt, chat, heard, turn, link, tally, upsets, acted>>

\* openAccessLink: the link and its interaction, as they were found, ...
OpenLink(v, l) ==
    /\ ActiveLink(l)
    /\ Begin(v, [at |-> "opened", link |-> l, noticed |-> link[l].noticed])
    /\ UNCHANGED <<debt, chat, heard, turn, link, tally, upsets, acted>>

\* ... are marked once.
MarkOpened(v) ==
    LET w == visit[v]
    IN  /\ w.at = "opened"
        /\ link' = IF link[w.link].opened THEN link
                   ELSE [link EXCEPT ![w.link].opened = TRUE,
                                     ![w.link].read = w.noticed]
        /\ visit' = [visit EXCEPT ![v] = NoVisit]
        /\ UNCHANGED <<debt, chat, heard, turn, tally, taken, upsets, acted>>

\* The dispatch of the message is recorded, and the link learns of it.
LinkNoticed(l) ==
    /\ ~link[l].noticed
    /\ link' = [link EXCEPT ![l].noticed = TRUE]
    /\ UNCHANGED <<debt, chat, heard, turn, visit, tally, taken, upsets, acted>>

\* Its seven days are over.
LinkExpires(l) ==
    /\ link[l].live
    /\ link' = [link EXCEPT ![l].live = FALSE]
    /\ UNCHANGED <<debt, chat, heard, turn, visit, tally, taken, upsets, acted>>

VisitFails(v) ==
    /\ visit[v] # NoVisit /\ Upset
    /\ visit' = [visit EXCEPT ![v] = NoVisit]
    /\ UNCHANGED <<debt, chat, heard, turn, link, tally, taken, acted>>

-----------------------------------------------------------------------------
AccessInit ==
    /\ debt \in [Owed -> [active: {TRUE}, paid: {FALSE}, phone: {"NONE", "CREDITOR"}]]
    /\ chat = [state |-> "AWAITING_CPF", document |-> NoHolder, list |-> << >>]
    /\ heard = {}
    /\ turn = [x \in Turns |-> NoTurn]
    /\ link = [l \in Links |-> [live |-> TRUE, noticed |-> FALSE, opened |-> FALSE, read |-> FALSE]]
    /\ visit = [v \in Visits |-> NoVisit]
    /\ tally = [k \in {"lookup", "pix"} \X Holders |-> [count |-> 0, expires |-> FALSE]]
    /\ taken = [turns |-> 0, visits |-> 0]
    /\ upsets = 0 /\ acted = {}

TurnStep(x) ==
    \/ \E m \in Messages : Receive(x, m)
    \/ ReadChat(x) \/ ReplyMenu(x) \/ LookupRead(x) \/ LookupWrite(x) \/ ReplyAside(x)
    \/ ContestRead(x) \/ ContestWrite(x)
    \/ PixPhone(x) \/ PixFind(x) \/ PixIssue(x) \/ Capture(x)
    \/ Record(x) \/ TurnFails(x)

VisitStep(v) ==
    \/ \E p \in Holders : \/ Knock(v, "lookup", p, NoHolder)
                         \/ \E c \in Owed : Knock(v, "pix", p, c)
    \/ SetExpiry(v) \/ ShowDebts(v) \/ FindForPix(v) \/ IssueForPage(v)
    \/ \E l \in Links : LinkPix(v, l) \/ OpenLink(v, l)
    \/ MarkOpened(v) \/ VisitFails(v)

AccessNext ==
    \/ \E x \in Turns : TurnStep(x)
    \/ \E v \in Visits : VisitStep(v)
    \/ \E c \in Owed : Ended(c) \/ PhoneSupplied(c)
    \/ \E l \in Links : LinkNoticed(l) \/ LinkExpires(l)
    \/ \E p \in Holders : MinutePasses("lookup", p) \/ MinutePasses("pix", p)

AccessSpec == AccessInit /\ [][AccessNext]_accessVars

-----------------------------------------------------------------------------
\* The rows hold what their columns may.
AccessTypeOK ==
    /\ debt \in [Owed -> [active: BOOLEAN, paid: BOOLEAN, phone: {"NONE", "CREDITOR", "CHAT"}]]
    /\ chat.state \in {"AWAITING_CPF", "AWAITING_ACTION"}
    /\ chat.document \in Holders \cup {NoHolder}
    /\ ToSet(chat.list) \subseteq Owed
    /\ heard \subseteq Messages
    /\ link \in [Links -> [live: BOOLEAN, noticed: BOOLEAN, opened: BOOLEAN, read: BOOLEAN]]
    /\ tally \in [{"lookup", "pix"} \X Holders -> [count: Nat, expires: BOOLEAN]]
    /\ taken \in [turns: 0 .. MaxTurns, visits: 0 .. MaxVisits] /\ upsets \in 0 .. MaxUpsets

\* A contract is contested, and a Pix handed out, only on the word of a
\* document that is the contract's: the document of the conversation as it
\* was when the message was read, of the page, or of the link.  The bot picks
\* the contract by its place in a list kept on the row, which other messages
\* replace or leave behind, and contests it without looking at the document.
ActsForTheHolder == \A a \in acted : HolderOf[a.contract] = a.word

=============================================================================
