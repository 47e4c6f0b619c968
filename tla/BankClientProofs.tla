-------------------------- MODULE BankClientProofs --------------------------
(***************************************************************************)
(* Theorems about BankClient, for any gateways, clients, processes and     *)
(* exchanges, and any number of retries, changes and restarts.             *)
(***************************************************************************)
EXTENDS BankClient, TLAPS

-----------------------------------------------------------------------------
(* The inductive invariant.                                                *)

Key(x) == KeyFor(exch[x].config)

\* What the caller is told, and what the bank has done by then.
Told(x) ==
    /\ exch[x].at # "done" => carried[x] = 0 /\ exch[x].outcome = "NONE"
    /\ exch[x].outcome = "SUCCESS" => carried[x] = 1
    /\ exch[x].outcome = "RATE_LIMITED" => carried[x] = 0
    /\ carried[x] <= 1

\* An exchange that sleeps has an attempt left.
MayRetry(x) == exch[x].at = "backoff" => exch[x].attempt <= MaxRetries

\* A token on the wire was fresh when it was sent, and is one of its own.
Carries(x) ==
    exch[x].at = "wire" =>
       /\ exch[x].token # NoToken
       /\ exch[x].fresh
       /\ token[exch[x].token].key = Key(x)
       /\ token[exch[x].token].age \in {"fresh", "expiring"}

\* Who asks is the one in flight; who joined waits for one who asks for the same.
Shares(x) ==
    /\ exch[x].at = "asking" => InFlightFor(x) = x
    /\ exch[x].at = "joined" =>
         LET y == exch[x].asker IN
         /\ y \in Exchanges /\ exch[y].at = "asking"
         /\ ServerOf[y] = ServerOf[x] /\ Key(y) = Key(x)

\* The attempts of x that may still be granted a token.
ToCome(x) ==
    {n \in Attempts : \/ n > exch[x].attempt
                      \/ n = exch[x].attempt /\ exch[x].at \notin {"wire", "backoff", "done"}}
NotYet(x) == \A n \in ToCome(x) : token[<<x, n>>].age = "none"

FlightFits == \A s \in Servers, k \in CacheKeys :
    flight[s][k] # NoExchange =>
       LET x == flight[s][k] IN exch[x].at = "asking" /\ ServerOf[x] = s /\ Key(x) = k

CacheFits == \A s \in Servers, k \in CacheKeys :
    cached[s][k] # NoToken =>
       token[cached[s][k]].key = k /\ token[cached[s][k]].age # "none"

BankInv ==
    /\ BankTypeOK /\ FlightFits /\ CacheFits
    /\ \A x \in Exchanges : Told(x) /\ MayRetry(x) /\ Carries(x) /\ Shares(x) /\ NotYet(x)

-----------------------------------------------------------------------------
(* Rows, keys and tokens.                                                  *)

LEMMA ConfigsFit == /\ NoConfig \in Config
                    /\ \A c \in Config : KeyFor(c) \in CacheKeys
<1>1. PICK o \in Clients : TRUE
  BY BankAssumption
<1>2. [env |-> Deployed, client |-> o, keyed |-> TRUE] \in Config
  BY BankAssumption DEF Config
<1> QED
  BY <1>2 DEF NoConfig, KeyFor, CacheKeys, Config

LEMMA NoTokenIsNone == \A t \in TokenNames : t # NoToken
  BY DEF TokenNames, NoToken

LEMMA BankStarts == BankInit => BankInv
<1> SUFFICES ASSUME BankInit PROVE BankInv
  OBVIOUS
<1>1. gateway \in [Gateways -> GatewayRow]
  <2>1. NoGateway \in GatewayRow
    BY ConfigsFit DEF NoGateway, GatewayRow
  <2> QED
    BY <2>1 DEF BankInit, GatewayRow
<1>2. Unasked \in Exchange
  BY ConfigsFit, BankAssumption DEF Unasked, Exchange, Places, Attempts
<1>3. NotIssued \in Token
  BY ConfigsFit DEF NotIssued, Token, TokenAges
<1>4. BankTypeOK
  BY <1>1, <1>2, <1>3, BankAssumption DEF BankInit, BankTypeOK
<1>5. FlightFits /\ CacheFits
  BY BankAssumption DEF BankInit, FlightFits, CacheFits
<1>6. ASSUME NEW x \in Exchanges
      PROVE  Told(x) /\ MayRetry(x) /\ Carries(x) /\ Shares(x) /\ NotYet(x)
  BY DEF BankInit, Unasked, Told, MayRetry, Carries, Shares, NotYet, ToCome, TokenNames,
         NotIssued
<1> QED
  BY <1>4, <1>5, <1>6 DEF BankInv

-----------------------------------------------------------------------------
(* Steps that move one exchange, which neither asks nor begins to ask.     *)

Fits(x) == Told(x) /\ MayRetry(x) /\ Carries(x) /\ Shares(x) /\ NotYet(x)

LEMMA OneMoves ==
    ASSUME BankInv, NEW x \in Exchanges, NEW e \in Exchange,
           exch' = [exch EXCEPT ![x] = e],
           exch[x].at # "asking", e.at # "asking",
           UNCHANGED <<gateway, cached, flight, token, changes, restarts>>,
           carried' \in [Exchanges -> Nat],
           \A y \in Exchanges \ {x} : carried'[y] = carried[y],
           Fits(x)'
    PROVE  BankInv'
<1>1. BankTypeOK'
  BY DEF BankInv, BankTypeOK
<1>2. FlightFits'
  BY DEF BankInv, FlightFits, BankTypeOK, Key
<1>3. CacheFits'
  BY DEF BankInv, CacheFits
<1>4. ASSUME NEW y \in Exchanges, y # x PROVE Fits(y)'
  <2>1. exch'[y] = exch[y] /\ carried'[y] = carried[y]
    BY <1>4 DEF BankInv, BankTypeOK
  <2>2. Told(y)' /\ MayRetry(y)' /\ Carries(y)' /\ NotYet(y)'
    BY <2>1 DEF BankInv, Told, MayRetry, Carries, NotYet, ToCome, Key
  <2>3. Shares(y)'
    BY <2>1 DEF BankInv, BankTypeOK, Shares, InFlightFor, Key
  <2> QED
    BY <2>2, <2>3 DEF Fits
<1> QED
  BY <1>1, <1>2, <1>3, <1>4 DEF BankInv, Fits

LEMMA EngageStep ==
    ASSUME BankInv, NEW x \in Exchanges, NEW g \in Gateways, NEW at \in {"ready", "registering"},
           Engage(x, g, at)
    PROVE  BankInv'
<1> DEFINE e == [exch[x] EXCEPT !.at = at, !.gateway = g, !.config = gateway[g].config]
<1>1. e \in Exchange /\ e.at = at /\ exch[x].at = "idle"
  BY ZenonT(60) DEF Engage, BankInv, BankTypeOK, Exchange, Places, GatewayRow
<1>2. exch' = [exch EXCEPT ![x] = e]
  BY DEF Engage, BankInv, BankTypeOK, Exchange
<1>3. Fits(x)'
  BY <1>1, <1>2 DEF Engage, OnlyExchange, BankInv, BankTypeOK, Fits, Told, MayRetry, Carries,
                    Shares, NotYet, ToCome, Exchange
<1> HIDE DEF e
<1> QED
  BY <1>1, <1>2, <1>3, OneMoves DEF Engage, OnlyExchange, BankInv, BankTypeOK

LEMMA ReadStep ==
    ASSUME BankInv, NEW x \in Exchanges, RegisterRead(x)
    PROVE  BankInv'
<1> DEFINE c == gateway[exch[x].gateway].config
           e == [exch[x] EXCEPT !.at = IF c.keyed THEN "ready" ELSE "done", !.config = c]
<1>1. e \in Exchange /\ e.at \in {"ready", "done"} /\ exch[x].at = "registering"
  BY ZenonT(60) DEF RegisterRead, BankInv, BankTypeOK, Exchange, Places, GatewayRow
<1>2. exch' = [exch EXCEPT ![x] = e]
  BY DEF RegisterRead, BankInv, BankTypeOK, Exchange
<1>3. e.attempt = exch[x].attempt /\ e.outcome = exch[x].outcome
  BY DEF BankInv, BankTypeOK, Exchange
<1> HIDE DEF e
<1>4. exch'[x] = e
  BY <1>2 DEF BankInv, BankTypeOK
<1>5. Told(x)' /\ MayRetry(x)' /\ Carries(x)' /\ Shares(x)'
  BY <1>1, <1>3, <1>4 DEF RegisterRead, OnlyExchange, BankInv, Told, MayRetry, Carries, Shares
<1>6. NotYet(x)'
  BY <1>1, <1>3, <1>4 DEF RegisterRead, OnlyExchange, BankInv, NotYet, ToCome
<1> QED
  BY <1>1, <1>2, <1>5, <1>6, OneMoves DEF Fits, RegisterRead, OnlyExchange, BankInv, BankTypeOK

\* What is cached for an exchange is a token of its client and environment.
LEMMA CachedIsOwn ==
    ASSUME BankInv, NEW x \in Exchanges, CachedFor(x) # NoToken
    PROVE  CachedFor(x) \in TokenNames /\ token[CachedFor(x)].key = Key(x)
  BY BankAssumption, ConfigsFit DEF BankInv, BankTypeOK, CacheFits, CachedFor, Key, Exchange

LEMMA CachedStep ==
    ASSUME BankInv, NEW x \in Exchanges, UseCached(x)
    PROVE  BankInv'
<1> DEFINE t == CachedFor(x)
           e == Sent(exch[x], t, token[t].age = "fresh")
<1>1. t \in TokenNames /\ t # NoToken /\ token[t].key = Key(x) /\ token[t].age = "fresh"
  BY CachedIsOwn DEF UseCached, HasUsable, Usable
<1> HIDE DEF t
<1>2. /\ e \in Exchange /\ e.at = "wire" /\ exch[x].at = "ready"
      /\ e.token = t /\ e.fresh /\ e.config = exch[x].config /\ e.outcome = exch[x].outcome
      /\ e.attempt = exch[x].attempt
  BY <1>1, ZenonT(60) DEF UseCached, BankInv, BankTypeOK, Exchange, Places, Sent
<1>3. exch' = [exch EXCEPT ![x] = e]
  BY DEF UseCached, t
<1> HIDE DEF e
<1>4. exch'[x] = e
  BY <1>3 DEF BankInv, BankTypeOK
<1>5. Told(x)' /\ MayRetry(x)' /\ Carries(x)' /\ Shares(x)'
  BY <1>1, <1>2, <1>4 DEF UseCached, OnlyExchange, BankInv, Told, MayRetry, Carries, Shares, Key
<1>6. NotYet(x)'
  BY <1>2, <1>4 DEF UseCached, OnlyExchange, BankInv, NotYet, ToCome
<1> QED
  BY <1>2, <1>3, <1>5, <1>6, OneMoves DEF UseCached, OnlyExchange, BankInv, BankTypeOK, Fits

\* What is in flight for an exchange is one that asks for the same.
LEMMA InFlightAsks ==
    ASSUME BankInv, NEW x \in Exchanges, InFlightFor(x) # NoExchange
    PROVE  LET y == InFlightFor(x) IN
           /\ y \in Exchanges /\ exch[y].at = "asking"
           /\ ServerOf[y] = ServerOf[x] /\ Key(y) = Key(x)
  BY BankAssumption, ConfigsFit DEF BankInv, BankTypeOK, FlightFits, InFlightFor, Key, Exchange

LEMMA JoinStep ==
    ASSUME BankInv, NEW x \in Exchanges, JoinRefresh(x)
    PROVE  BankInv'
<1> DEFINE y == InFlightFor(x)
           e == [exch[x] EXCEPT !.at = "joined", !.asker = y]
<1>1. /\ y \in Exchanges /\ exch[y].at = "asking"
      /\ ServerOf[y] = ServerOf[x] /\ Key(y) = Key(x)
  BY InFlightAsks DEF JoinRefresh
<1>2. exch' = [exch EXCEPT ![x] = e]
  BY DEF JoinRefresh, BankInv, BankTypeOK, Exchange
<1> HIDE DEF y
<1>3. /\ e \in Exchange /\ e.at = "joined" /\ exch[x].at = "ready"
      /\ e.asker = y /\ e.config = exch[x].config /\ e.outcome = exch[x].outcome
      /\ e.attempt = exch[x].attempt
  BY <1>1 DEF JoinRefresh, BankInv, BankTypeOK, Exchange, Places
<1> HIDE DEF e
<1>4. exch'[x] = e /\ exch'[y] = exch[y]
  BY <1>1, <1>2, <1>3 DEF BankInv, BankTypeOK
<1>5. Told(x)' /\ MayRetry(x)' /\ Carries(x)'
  BY <1>3, <1>4 DEF JoinRefresh, OnlyExchange, BankInv, Told, MayRetry, Carries
<1>6. Shares(x)'
  BY <1>1, <1>3, <1>4 DEF Shares, Key
<1>7. NotYet(x)'
  BY <1>3, <1>4 DEF JoinRefresh, OnlyExchange, BankInv, NotYet, ToCome
<1> QED
  BY <1>2, <1>3, <1>5, <1>6, <1>7, OneMoves DEF JoinRefresh, OnlyExchange, BankInv, BankTypeOK, Fits

LEMMA WakeStep ==
    ASSUME BankInv, NEW x \in Exchanges, Wake(x)
    PROVE  BankInv'
<1> DEFINE e == [exch[x] EXCEPT !.at = "ready", !.attempt = @ + 1]
<1>0. /\ exch[x] \in Exchange /\ exch[x].at = "backoff"
      /\ exch[x].attempt \in Nat /\ exch[x].attempt + 1 \in Attempts
  BY BankAssumption DEF Wake, BankInv, BankTypeOK, Exchange, Attempts, MayRetry
<1>1. /\ e \in Exchange /\ e.at = "ready" /\ exch[x].at = "backoff"
      /\ e.attempt = exch[x].attempt + 1 /\ e.outcome = exch[x].outcome
  BY <1>0 DEF Exchange, Places
<1>2. exch' = [exch EXCEPT ![x] = e]
  BY DEF Wake, BankInv, BankTypeOK, Exchange
<1> HIDE DEF e
<1>3. exch'[x] = e /\ exch[x].attempt \in Nat
  BY <1>2 DEF BankInv, BankTypeOK, Exchange, Attempts
<1>4. Told(x)' /\ MayRetry(x)' /\ Carries(x)' /\ Shares(x)'
  BY <1>1, <1>3 DEF Wake, OnlyExchange, BankInv, Told, MayRetry, Carries, Shares
<1>5. NotYet(x)'
  BY <1>1, <1>3, BankAssumption DEF Wake, OnlyExchange, BankInv, NotYet, ToCome, Attempts
<1> QED
  BY <1>1, <1>2, <1>4, <1>5, OneMoves DEF Wake, OnlyExchange, BankInv, BankTypeOK, Fits

-----------------------------------------------------------------------------
(* Answers.                                                                *)

\* What the catch clause makes of an exchange: it is over, or it sleeps with an
\* attempt left.
LEMMA FailedFits ==
    ASSUME NEW e \in Exchange, e.outcome = "NONE", NEW why \in {"timeout", "error", "limited"}
    PROVE  LET f == Failed(e, why) IN
           /\ f \in Exchange /\ f.config = e.config /\ f.attempt = e.attempt
           /\ \/ f.at = "backoff" /\ f.attempt <= MaxRetries /\ f.outcome = "NONE"
              \/ f.at = "done" /\ f.outcome = "RATE_LIMITED" /\ why = "limited"
              \/ f.at = "done" /\ f.outcome \in {"TIMEOUT", "PROVIDER_ERROR"}
<1>1. ASSUME NEW outcome \in Outcomes
      PROVE  LET f == Concluded(e, outcome) IN
             /\ f \in Exchange /\ f.config = e.config /\ f.attempt = e.attempt
             /\ f.at = "done" /\ f.outcome = outcome
  BY DEF Concluded, Exchange, Places
<1>2. CASE why = "timeout"
  BY <1>1, <1>2 DEF Failed, Outcomes
<1>3. CASE why = "error"
  BY <1>1, <1>3 DEF Failed, Outcomes
<1>4. CASE why = "limited" /\ GivesUp(e)
  BY <1>1, <1>4 DEF Failed, Outcomes
<1>5. CASE why = "limited" /\ ~GivesUp(e)
  <2> DEFINE f == [e EXCEPT !.at = "backoff", !.token = NoToken, !.fresh = FALSE,
                            !.asker = NoExchange]
  <2>1. Failed(e, why) = f
    BY <1>5 DEF Failed
  <2>2. /\ f \in Exchange /\ f.config = e.config /\ f.attempt = e.attempt
        /\ f.at = "backoff" /\ f.outcome = "NONE"
    BY DEF Exchange, Places
  <2>3. f.attempt <= MaxRetries
    BY <1>5, <2>2, BankAssumption DEF GivesUp, Exchange, Attempts
  <2> QED
    BY <2>1, <2>2, <2>3
<1> QED
  BY <1>2, <1>3, <1>4, <1>5

LEMMA ConcludedFits ==
    ASSUME NEW e \in Exchange, NEW outcome \in {"SUCCESS", "LOST"}
    PROVE  LET f == Concluded(e, outcome) IN
           /\ f \in Exchange /\ f.config = e.config /\ f.attempt = e.attempt
           /\ f.at = "done" /\ f.outcome = outcome
  BY DEF Concluded, Exchange, Places, Outcomes

\* An exchange on the wire is answered, and the bank has carried it out n times.
LEMMA AnswerStep ==
    ASSUME BankInv, NEW x \in Exchanges, exch[x].at = "wire",
           NEW e \in Exchange, exch' = [exch EXCEPT ![x] = e],
           NEW n \in {0, 1}, carried' = [carried EXCEPT ![x] = @ + n],
           UNCHANGED <<gateway, cached, flight, token, changes, restarts>>,
           e.config = exch[x].config, e.attempt = exch[x].attempt,
           \/ e.at = "backoff" /\ e.attempt <= MaxRetries /\ e.outcome = "NONE" /\ n = 0
           \/ e.at = "done" /\ e.outcome = "RATE_LIMITED" /\ n = 0
           \/ e.at = "done" /\ e.outcome = "SUCCESS" /\ n = 1
           \/ e.at = "done" /\ e.outcome \in {"TIMEOUT", "PROVIDER_ERROR"}
    PROVE  BankInv'
<1>1. exch'[x] = e /\ carried[x] = 0 /\ carried'[x] = n
  BY DEF BankInv, BankTypeOK, Told
<1>2. /\ carried' \in [Exchanges -> Nat]
      /\ \A y \in Exchanges \ {x} : carried'[y] = carried[y]
  BY <1>1 DEF BankInv, BankTypeOK
<1>3. Told(x)' /\ MayRetry(x)' /\ Carries(x)' /\ Shares(x)'
  BY <1>1 DEF BankInv, Told, MayRetry, Carries, Shares
<1>4. NotYet(x)'
  BY <1>1 DEF BankInv, NotYet, ToCome
<1> QED
  BY <1>2, <1>3, <1>4, OneMoves DEF Fits

LEMMA AnswersStep ==
    ASSUME BankInv, NEW x \in Exchanges, Succeeds(x) \/ IsLimited(x) \/ IsLost(x)
    PROVE  BankInv'
<1>1. exch[x] \in Exchange /\ exch[x].at = "wire" /\ exch[x].outcome = "NONE"
  BY DEF BankInv, BankTypeOK, Told, Succeeds, IsLimited, IsLost
<1>2. CASE Succeeds(x)
  <2> DEFINE e == Concluded(exch[x], "SUCCESS")
  <2>1. exch' = [exch EXCEPT ![x] = e] /\ carried' = [carried EXCEPT ![x] = @ + 1]
    BY <1>2 DEF Succeeds
  <2>2. /\ e \in Exchange /\ e.config = exch[x].config /\ e.attempt = exch[x].attempt
        /\ e.at = "done" /\ e.outcome = "SUCCESS"
    BY <1>1, ConcludedFits
  <2> HIDE DEF e
  <2> QED
    BY <1>1, <1>2, <2>1, <2>2, AnswerStep DEF Succeeds, OnlyAnswer
<1>3. ASSUME NEW why \in {"timeout", "error", "limited"}, NEW n \in {0, 1},
             why = "limited" => n = 0,
             exch' = [exch EXCEPT ![x] = Failed(@, why)],
             carried' = [carried EXCEPT ![x] = @ + n], OnlyAnswer
      PROVE  BankInv'
  <2> DEFINE e == Failed(exch[x], why)
  <2>1. exch' = [exch EXCEPT ![x] = e]
    BY <1>3
  <2>2. /\ e \in Exchange /\ e.config = exch[x].config /\ e.attempt = exch[x].attempt
        /\ \/ e.at = "backoff" /\ e.attempt <= MaxRetries /\ e.outcome = "NONE"
           \/ e.at = "done" /\ e.outcome = "RATE_LIMITED" /\ why = "limited"
           \/ e.at = "done" /\ e.outcome \in {"TIMEOUT", "PROVIDER_ERROR"}
    BY <1>1, FailedFits
  <2>3. e.at = "backoff" => why = "limited"
    BY <1>3 DEF Failed, Concluded, Exchange
  <2> HIDE DEF e
  <2> QED
    BY <1>1, <1>3, <2>1, <2>2, <2>3, AnswerStep DEF OnlyAnswer
<1>4. CASE IsLimited(x)
  <2>1. carried' = [carried EXCEPT ![x] = @ + 0]
    BY <1>4 DEF IsLimited, BankInv, BankTypeOK
  <2> QED
    BY <1>3, <1>4, <2>1 DEF IsLimited
<1>5. CASE IsLost(x)
  BY <1>3, <1>5 DEF IsLost
<1> QED
  BY <1>2, <1>4, <1>5

-----------------------------------------------------------------------------
(* A token is asked for, granted or refused.                               *)

\* The place of an exchange in the maps of its process.
LEMMA OwnPlace ==
    ASSUME BankTypeOK, NEW x \in Exchanges
    PROVE  ServerOf[x] \in Servers /\ Key(x) \in CacheKeys
  BY BankAssumption, ConfigsFit DEF BankTypeOK, Key, Exchange

LEMMA AskStep ==
    ASSUME BankInv, NEW x \in Exchanges, AskToken(x)
    PROVE  BankInv'
<1> DEFINE e == [exch[x] EXCEPT !.at = "asking"]
<1>1. /\ e \in Exchange /\ e.at = "asking" /\ exch[x].at = "ready"
      /\ e.config = exch[x].config /\ e.attempt = exch[x].attempt
      /\ e.outcome = exch[x].outcome
  BY ZenonT(60) DEF AskToken, BankInv, BankTypeOK, Exchange, Places
<1>2. exch' = [exch EXCEPT ![x] = e]
  BY DEF AskToken, BankInv, BankTypeOK, Exchange
<1> HIDE DEF e
<1>3. exch'[x] = e /\ \A y \in Exchanges \ {x} : exch'[y] = exch[y]
  BY <1>2 DEF BankInv, BankTypeOK
<1>4. /\ ServerOf[x] \in Servers /\ Key(x) \in CacheKeys
      /\ flight[ServerOf[x]][Key(x)] = NoExchange
      /\ flight' = [flight EXCEPT ![ServerOf[x]][Key(x)] = x]
  BY OwnPlace DEF AskToken, BankInv, InFlightFor, Key
<1>5. /\ flight' \in [Servers -> [CacheKeys -> Exchanges \cup {NoExchange}]]
      /\ flight'[ServerOf[x]][Key(x)] = x
      /\ \A s \in Servers, k \in CacheKeys :
            flight'[s][k] = flight[s][k] \/ (s = ServerOf[x] /\ k = Key(x))
  BY <1>4 DEF BankInv, BankTypeOK
<1>6. BankTypeOK'
  BY <1>1, <1>2, <1>5 DEF AskToken, BankInv, BankTypeOK
<1>7. \A y \in Exchanges : Key(y)' = Key(y)
  BY <1>1, <1>3 DEF Key
<1>8. FlightFits'
  <2> SUFFICES ASSUME NEW s \in Servers, NEW k \in CacheKeys, flight'[s][k] # NoExchange
               PROVE  LET y == flight'[s][k] IN
                      exch'[y].at = "asking" /\ ServerOf[y] = s /\ KeyFor(exch'[y].config) = k
    BY DEF FlightFits, Key
  <2>1. CASE s = ServerOf[x] /\ k = Key(x)
    BY <1>1, <1>3, <1>5, <2>1 DEF Key
  <2>2. CASE flight'[s][k] = flight[s][k] /\ ~(s = ServerOf[x] /\ k = Key(x))
    <3> DEFINE y == flight[s][k]
    <3>1. y \in Exchanges /\ exch[y].at = "asking" /\ ServerOf[y] = s /\ Key(y) = k
      BY <2>2 DEF BankInv, BankTypeOK, FlightFits
    <3>2. exch'[y] = exch[y]
      BY <1>1, <1>3, <3>1
    <3> QED
      BY <2>2, <3>1, <3>2 DEF Key
  <2> QED
    BY <1>5, <2>1, <2>2
<1>9. CacheFits'
  BY DEF AskToken, BankInv, CacheFits
<1>10. ASSUME NEW y \in Exchanges PROVE Told(y)' /\ MayRetry(y)' /\ Carries(y)'
  BY <1>1, <1>3, <1>7 DEF AskToken, BankInv, Told, MayRetry, Carries
<1>11. ASSUME NEW y \in Exchanges PROVE NotYet(y)'
  BY <1>1, <1>3 DEF AskToken, BankInv, NotYet, ToCome
<1>12. ASSUME NEW y \in Exchanges PROVE Shares(y)'
  <2>1. exch'[y].at = "asking" => flight'[ServerOf[y]][Key(y)] = y
    <3>1. CASE y = x
      BY <1>5, <3>1
    <3>2. CASE y # x
      <4> SUFFICES ASSUME exch[y].at = "asking" PROVE flight'[ServerOf[y]][Key(y)] = y
        BY <1>3, <3>2
      <4>1. flight[ServerOf[y]][Key(y)] = y
        BY DEF BankInv, Shares, InFlightFor, Key
      <4>2. ServerOf[y] \in Servers /\ Key(y) \in CacheKeys
        BY OwnPlace DEF BankInv
      <4> QED
        BY <1>4, <1>5, <4>1, <4>2, BankAssumption
    <3> QED
      BY <3>1, <3>2
  <2>2. exch'[y].at = "joined" =>
           LET z == exch'[y].asker IN
           /\ z \in Exchanges /\ exch'[z].at = "asking"
           /\ ServerOf[z] = ServerOf[y] /\ Key(z) = Key(y)
    BY <1>1, <1>3 DEF BankInv, Shares
  <2> QED
    BY <1>7, <2>1, <2>2 DEF Shares, InFlightFor, Key
<1> QED
  BY <1>6, <1>8, <1>9, <1>10, <1>11, <1>12 DEF BankInv

\* Everybody who waits for x is of its process and asks for the same token.
LEMMA WhoWaits ==
    ASSUME BankInv, NEW x \in Exchanges, exch[x].at = "asking", NEW y \in Awaiting(x)
    PROVE  /\ y \in Exchanges /\ exch[y].at \in {"asking", "joined"}
           /\ ServerOf[y] = ServerOf[x] /\ Key(y) = Key(x) /\ exch[y].outcome = "NONE"
  BY DEF Awaiting, BankInv, Shares, Told

\* Others who ask or wait do so somewhere else.
LEMMA WhoElseAsks ==
    ASSUME BankInv, NEW x \in Exchanges, exch[x].at = "asking",
           NEW y \in Exchanges, y \notin Awaiting(x)
    PROVE  /\ exch[y].at \in {"asking", "joined"} =>
                 ServerOf[y] # ServerOf[x] \/ Key(y) # Key(x)
           /\ exch[y].at = "joined" => exch[y].asker \notin Awaiting(x)
<1>1. \A z \in Exchanges : exch[z].at = "asking" => flight[ServerOf[z]][Key(z)] = z
  BY DEF BankInv, Shares, InFlightFor, Key
<1>2. exch[y].at = "joined" =>
         LET z == exch[y].asker IN
         /\ z \in Exchanges /\ z # x /\ exch[z].at = "asking"
         /\ ServerOf[z] = ServerOf[y] /\ Key(z) = Key(y)
  BY DEF BankInv, Shares, Awaiting
<1> QED
  BY <1>1, <1>2 DEF Awaiting

\* The request of x for a token is over: those who waited neither ask nor wait.
LEMMA LandStep ==
    ASSUME BankInv, NEW x \in Exchanges, exch[x].at = "asking", LandFlight(x),
           exch' \in [Exchanges -> Exchange],
           \A y \in Exchanges \ Awaiting(x) : exch'[y] = exch[y],
           \A y \in Awaiting(x) : /\ exch'[y].at \notin {"asking", "joined"}
                                  /\ exch'[y].config = exch[y].config
    PROVE  /\ flight' \in [Servers -> [CacheKeys -> Exchanges \cup {NoExchange}]]
           /\ FlightFits'
           /\ \A y \in Exchanges : Shares(y)'
<1>1. ServerOf[x] \in Servers /\ Key(x) \in CacheKeys
  BY OwnPlace DEF BankInv
<1>2. /\ flight' \in [Servers -> [CacheKeys -> Exchanges \cup {NoExchange}]]
      /\ \A s \in Servers, k \in CacheKeys :
            flight'[s][k] = IF s = ServerOf[x] /\ k = Key(x) THEN NoExchange ELSE flight[s][k]
  BY <1>1 DEF LandFlight, BankInv, BankTypeOK, Key
<1>3. \A y \in Exchanges : Key(y)' = Key(y) /\ Key(y) \in CacheKeys /\ ServerOf[y] \in Servers
  BY OwnPlace DEF BankInv, Key
<1>4. FlightFits'
  <2> SUFFICES ASSUME NEW s \in Servers, NEW k \in CacheKeys, flight'[s][k] # NoExchange
               PROVE  LET y == flight'[s][k] IN
                      exch'[y].at = "asking" /\ ServerOf[y] = s /\ KeyFor(exch'[y].config) = k
    BY DEF FlightFits, Key
  <2> DEFINE y == flight[s][k]
  <2>1. flight'[s][k] = y /\ ~(s = ServerOf[x] /\ k = Key(x))
    BY <1>2
  <2>2. y \in Exchanges /\ exch[y].at = "asking" /\ ServerOf[y] = s /\ Key(y) = k
    BY <2>1 DEF BankInv, BankTypeOK, FlightFits
  <2>3. y \notin Awaiting(x)
    BY <2>1, <2>2, WhoWaits
  <2> QED
    BY <2>1, <2>2, <2>3 DEF Key
<1>5. ASSUME NEW y \in Exchanges PROVE Shares(y)'
  <2>1. CASE y \in Awaiting(x)
    BY <2>1 DEF Shares
  <2>2. CASE y \notin Awaiting(x)
    <3>1. exch'[y] = exch[y]
      BY <2>2
    <3>2. exch[y].at = "asking" => flight'[ServerOf[y]][Key(y)] = y
      BY <1>2, <1>3, <2>2, WhoElseAsks DEF BankInv, Shares, InFlightFor, Key
    <3>3. exch[y].at = "joined" =>
             LET z == exch[y].asker IN
             /\ z \in Exchanges /\ exch'[z].at = "asking"
             /\ ServerOf[z] = ServerOf[y] /\ Key(z) = Key(y)
      BY <2>2, WhoElseAsks DEF BankInv, Shares
    <3> QED
      BY <1>3, <3>1, <3>2, <3>3 DEF Shares, InFlightFor, Key
  <2> QED
    BY <2>1, <2>2
<1> QED
  BY <1>2, <1>4, <1>5

LEMMA RefusedStep ==
    ASSUME BankInv, NEW x \in Exchanges, TokenRefused(x)
    PROVE  BankInv'
<1>1. PICK why \in {"timeout", "error", "limited"} :
        exch' = [y \in Exchanges |-> IF y \in Awaiting(x) THEN Failed(exch[y], why) ELSE exch[y]]
  BY DEF TokenRefused
<1>2. exch[x].at = "asking" /\ \A y \in Exchanges : exch[y] \in Exchange
  BY DEF TokenRefused, BankInv, BankTypeOK
<1>3. ASSUME NEW y \in Awaiting(x)
      PROVE  LET f == exch'[y] IN
             /\ f \in Exchange /\ f.config = exch[y].config /\ f.attempt = exch[y].attempt
             /\ \/ f.at = "backoff" /\ f.attempt <= MaxRetries /\ f.outcome = "NONE"
                \/ f.at = "done" /\ f.outcome \in {"RATE_LIMITED", "TIMEOUT", "PROVIDER_ERROR"}
  BY <1>1, <1>2, WhoWaits, FailedFits
<1>4. \A y \in Exchanges \ Awaiting(x) : exch'[y] = exch[y]
  BY <1>1
<1>5. exch' \in [Exchanges -> Exchange]
  BY <1>1, <1>2, <1>3, <1>4
<1>6. /\ flight' \in [Servers -> [CacheKeys -> Exchanges \cup {NoExchange}]]
      /\ FlightFits'
      /\ \A y \in Exchanges : Shares(y)'
  BY <1>2, <1>3, <1>4, <1>5, LandStep DEF TokenRefused
<1>7. BankTypeOK'
  BY <1>5, <1>6 DEF TokenRefused, BankInv, BankTypeOK
<1>8. CacheFits'
  BY DEF TokenRefused, BankInv, CacheFits
<1>9. ASSUME NEW y \in Exchanges PROVE Told(y)' /\ MayRetry(y)' /\ Carries(y)' /\ NotYet(y)'
  <2>1. CASE y \in Awaiting(x)
    <3>1. carried[y] = 0 /\ carried'[y] = 0
      BY <2>1, WhoWaits, <1>2 DEF TokenRefused, BankInv, Told
    <3>2. Told(y)' /\ MayRetry(y)' /\ Carries(y)'
      BY <1>3, <2>1, <3>1 DEF Told, MayRetry, Carries
    <3>3. NotYet(y)'
      BY <1>3, <2>1 DEF TokenRefused, BankInv, NotYet, ToCome
    <3> QED
      BY <3>2, <3>3
  <2>2. CASE y \notin Awaiting(x)
    <3>1. exch'[y] = exch[y]
      BY <1>4, <2>2
    <3> QED
      BY <3>1 DEF TokenRefused, BankInv, Told, MayRetry, Carries, NotYet, ToCome, Key
  <2> QED
    BY <2>1, <2>2
<1> QED
  BY <1>6, <1>7, <1>8, <1>9 DEF BankInv

\* The token granted is not one that was issued before: attempts are counted up.
LEMMA GrantedStep ==
    ASSUME BankInv, NEW x \in Exchanges, TokenGranted(x)
    PROVE  BankInv'
<1> DEFINE t == <<x, exch[x].attempt>>
           new == [age |-> "fresh", key |-> Key(x)]
<1>1. /\ exch[x].at = "asking" /\ exch[x].attempt \in Attempts
      /\ \A y \in Exchanges : exch[y] \in Exchange
  BY DEF TokenGranted, BankInv, BankTypeOK, Exchange
<1>2. t \in TokenNames /\ t # NoToken /\ token[t].age = "none"
  BY <1>1 DEF TokenNames, NoToken, BankInv, NotYet, ToCome
<1>3. /\ token' = [token EXCEPT ![t] = new]
      /\ cached' = [cached EXCEPT ![ServerOf[x]][Key(x)] = t]
      /\ exch' = [y \in Exchanges |-> IF y \in Awaiting(x) THEN Sent(exch[y], t, TRUE) ELSE exch[y]]
  BY DEF TokenGranted, Key, KeyFor
<1>4. ServerOf[x] \in Servers /\ Key(x) \in CacheKeys
  BY OwnPlace DEF BankInv
<1>5. /\ token' \in [TokenNames -> Token]
      /\ token'[t].age = "fresh" /\ token'[t].key = Key(x)
      /\ \A u \in TokenNames : token[u].age # "none" => token'[u] = token[u]
      /\ \A u \in TokenNames \ {t} : token'[u] = token[u]
  BY <1>2, <1>3, <1>4 DEF BankInv, BankTypeOK, Token, TokenAges
<1>6. ASSUME NEW y \in Awaiting(x)
      PROVE  LET f == exch'[y] IN
             /\ f \in Exchange /\ f.config = exch[y].config /\ f.attempt = exch[y].attempt
             /\ f.at = "wire" /\ f.token = t /\ f.fresh /\ f.outcome = "NONE"
  <2>1. y \in Exchanges /\ exch[y].outcome = "NONE" /\ exch[y] \in Exchange
    BY <1>1, WhoWaits
  <2>2. exch'[y] = Sent(exch[y], t, TRUE)
    BY <1>3, <2>1
  <2> HIDE DEF t
  <2> QED
    BY <1>2, <2>1, <2>2 DEF Sent, Exchange, Places
<1>7. \A y \in Exchanges \ Awaiting(x) : exch'[y] = exch[y]
  BY <1>3
<1>8. exch' \in [Exchanges -> Exchange]
  BY <1>1, <1>3, <1>6, <1>7
<1>9. /\ flight' \in [Servers -> [CacheKeys -> Exchanges \cup {NoExchange}]]
      /\ FlightFits'
      /\ \A y \in Exchanges : Shares(y)'
  BY <1>1, <1>6, <1>7, <1>8, LandStep DEF TokenGranted
<1> HIDE DEF t, new
<1>10. /\ cached' \in [Servers -> [CacheKeys -> TokenNames \cup {NoToken}]]
       /\ \A s \in Servers, k \in CacheKeys :
             cached'[s][k] = IF s = ServerOf[x] /\ k = Key(x) THEN t ELSE cached[s][k]
  BY <1>2, <1>3, <1>4 DEF BankInv, BankTypeOK
<1>11. BankTypeOK'
  BY <1>5, <1>8, <1>9, <1>10 DEF TokenGranted, BankInv, BankTypeOK
<1>12. CacheFits'
  <2> SUFFICES ASSUME NEW s \in Servers, NEW k \in CacheKeys, cached'[s][k] # NoToken
               PROVE  token'[cached'[s][k]].key = k /\ token'[cached'[s][k]].age # "none"
    BY DEF CacheFits
  <2>1. CASE s = ServerOf[x] /\ k = Key(x)
    BY <1>5, <1>10, <2>1
  <2>2. CASE ~(s = ServerOf[x] /\ k = Key(x))
    <3>1. cached'[s][k] = cached[s][k] /\ cached[s][k] \in TokenNames
      BY <1>10, <2>2 DEF BankInv, BankTypeOK
    <3> QED
      BY <1>5, <3>1 DEF BankInv, CacheFits
  <2> QED
    BY <2>1, <2>2
<1>13. ASSUME NEW y \in Exchanges PROVE Told(y)' /\ MayRetry(y)' /\ Carries(y)' /\ NotYet(y)'
  <2>1. \A n \in Attempts : <<y, n>> \in TokenNames /\ (<<y, n>> = t => y = x /\ n = exch[x].attempt)
    BY DEF TokenNames, t
  <2>2. CASE y \in Awaiting(x)
    <3>1. carried[y] = 0 /\ carried'[y] = 0 /\ Key(y) = Key(x)
      BY <1>1, <2>2, WhoWaits DEF TokenGranted, BankInv, Told
    <3>2. Told(y)' /\ MayRetry(y)'
      BY <1>6, <2>2, <3>1 DEF Told, MayRetry
    <3>3. Carries(y)'
      BY <1>2, <1>5, <1>6, <2>2, <3>1 DEF Carries, Key
    <3>4. \A n \in ToCome(y)' : n \in ToCome(y) /\ <<y, n>> # t
      BY <1>1, <1>6, <2>1, <2>2 DEF ToCome, Attempts
    <3>5. NotYet(y)'
      BY <1>5, <2>1, <3>4 DEF BankInv, NotYet, ToCome
    <3> QED
      BY <3>2, <3>3, <3>5
  <2>3. CASE y \notin Awaiting(x)
    <3>1. exch'[y] = exch[y] /\ y # x
      BY <1>7, <2>3 DEF Awaiting
    <3>2. Told(y)' /\ MayRetry(y)'
      BY <3>1 DEF TokenGranted, BankInv, Told, MayRetry
    <3>3. Carries(y)'
      BY <1>1, <1>5, <3>1 DEF BankInv, Carries, Key, Exchange
    <3>4. NotYet(y)'
      BY <1>5, <2>1, <3>1 DEF BankInv, NotYet, ToCome
    <3> QED
      BY <3>2, <3>3, <3>4
  <2> QED
    BY <2>2, <2>3
<1> QED
  BY <1>9, <1>11, <1>12, <1>13 DEF BankInv

-----------------------------------------------------------------------------
(* Gateways, time and crashes.                                             *)

LEMMA ChangeStep ==
    ASSUME BankInv, NEW g \in Gateways, CreateGateway(g) \/ UpdateGateway(g)
    PROVE  BankInv'
<1>1. PICK row \in GatewayRow : ChangeGateway(g, row)
  BY DEF CreateGateway, UpdateGateway
<1>2. BankTypeOK'
  BY <1>1, BankAssumption DEF ChangeGateway, BankInv, BankTypeOK
<1>3. FlightFits' /\ CacheFits'
  BY <1>1 DEF ChangeGateway, BankInv, FlightFits, CacheFits, Key
<1>4. ASSUME NEW x \in Exchanges PROVE Fits(x)'
  BY <1>1 DEF ChangeGateway, BankInv, Fits, Told, MayRetry, Carries, Shares, InFlightFor, Key,
              NotYet, ToCome
<1> QED
  BY <1>2, <1>3, <1>4 DEF BankInv, Fits

LEMMA AgeStep ==
    ASSUME BankInv, NEW t \in TokenNames, GrowsOld(t)
    PROVE  BankInv'
<1>0. PICK age \in {"expiring", "expired"} : token' = [token EXCEPT ![t].age = age]
  BY DEF GrowsOld
<1> DEFINE new == [token[t] EXCEPT !.age = age]
<1>a. new \in Token /\ new.key = token[t].key /\ new.age # "none" /\ token[t].age # "none"
  BY DEF GrowsOld, BankInv, BankTypeOK, Token, TokenAges
<1>b. token' = [token EXCEPT ![t] = new]
  BY <1>0 DEF BankInv, BankTypeOK, Token
<1> HIDE DEF new
<1>1. /\ token' \in [TokenNames -> Token]
      /\ \A u \in TokenNames : token'[u].key = token[u].key
      /\ \A u \in TokenNames : token'[u].age = "none" <=> token[u].age = "none"
      /\ \A u \in TokenNames \ {t} : token'[u] = token[u]
  BY <1>a, <1>b DEF BankInv, BankTypeOK
<1>2. token'[t].age \in {"fresh", "expiring"}
        \/ \A x \in Exchanges : (exch[x].at = "wire" /\ exch[x].token = t) => ~exch[x].fresh
  BY DEF GrowsOld, BankInv, BankTypeOK, Token
<1>3. BankTypeOK'
  BY <1>1 DEF GrowsOld, BankInv, BankTypeOK
<1>4. FlightFits' /\ CacheFits'
  BY <1>1 DEF GrowsOld, BankInv, BankTypeOK, FlightFits, CacheFits, Key
<1>5. ASSUME NEW x \in Exchanges PROVE Told(x)' /\ MayRetry(x)' /\ Shares(x)'
  BY DEF GrowsOld, BankInv, Told, MayRetry, Shares, InFlightFor, Key
<1>6. ASSUME NEW x \in Exchanges PROVE Carries(x)'
  BY <1>1, <1>2 DEF GrowsOld, BankInv, BankTypeOK, Carries, Key, Exchange
<1>7. ASSUME NEW x \in Exchanges PROVE NotYet(x)'
  BY <1>1 DEF GrowsOld, BankInv, NotYet, ToCome, TokenNames
<1> QED
  BY <1>3, <1>4, <1>5, <1>6, <1>7 DEF BankInv

LEMMA RestartStep ==
    ASSUME BankInv, NEW s \in Servers, Restart(s)
    PROVE  BankInv'
<1> DEFINE Dies(x) == ServerOf[x] = s /\ exch[x].at \notin {"idle", "done"}
<1>1. PICK done \in SUBSET {x \in Exchanges : ServerOf[x] = s /\ exch[x].at = "wire"} :
        carried' = [x \in Exchanges |-> IF x \in done THEN carried[x] + 1 ELSE carried[x]]
  BY DEF Restart
<1>2. \A x \in Exchanges : exch[x] \in Exchange /\ carried[x] \in Nat
  BY DEF BankInv, BankTypeOK
<1>3. ASSUME NEW x \in Exchanges, Dies(x)
      PROVE  LET f == exch'[x] IN
             /\ f \in Exchange /\ f.config = exch[x].config /\ f.attempt = exch[x].attempt
             /\ f.at = "done" /\ f.outcome = "LOST"
  <2>1. exch'[x] = Concluded(exch[x], "LOST")
    BY <1>3 DEF Restart
  <2> QED
    BY <1>2, <2>1, ConcludedFits
<1>4. \A x \in Exchanges : ~Dies(x) => exch'[x] = exch[x]
  BY DEF Restart
<1>5. exch' \in [Exchanges -> Exchange]
  BY <1>2, <1>3, <1>4 DEF Restart
<1>6. /\ carried' \in [Exchanges -> Nat]
      /\ \A x \in Exchanges : \/ carried'[x] = carried[x]
                              \/ Dies(x) /\ carried'[x] = carried[x] + 1
  <2>1. \A x \in Exchanges : carried'[x] = IF x \in done THEN carried[x] + 1 ELSE carried[x]
    BY <1>1
  <2>2. \A x \in done : Dies(x)
    OBVIOUS
  <2> HIDE DEF Dies
  <2> QED
    BY <1>1, <1>2, <2>1, <2>2
<1>7. /\ flight' \in [Servers -> [CacheKeys -> Exchanges \cup {NoExchange}]]
      /\ \A r \in Servers, k \in CacheKeys :
            flight'[r][k] = IF r = s THEN NoExchange ELSE flight[r][k]
  BY DEF Restart, BankInv, BankTypeOK
<1>8. /\ cached' \in [Servers -> [CacheKeys -> TokenNames \cup {NoToken}]]
      /\ \A r \in Servers, k \in CacheKeys :
            cached'[r][k] = IF r = s THEN NoToken ELSE cached[r][k]
  BY DEF Restart, BankInv, BankTypeOK
<1>9. BankTypeOK'
  BY <1>5, <1>6, <1>7, <1>8, BankAssumption DEF Restart, BankInv, BankTypeOK
<1>10. CacheFits'
  BY <1>8 DEF Restart, BankInv, CacheFits
<1> HIDE DEF Dies
<1>11. FlightFits'
  <2> SUFFICES ASSUME NEW r \in Servers, NEW k \in CacheKeys, flight'[r][k] # NoExchange
               PROVE  LET y == flight'[r][k] IN
                      exch'[y].at = "asking" /\ ServerOf[y] = r /\ KeyFor(exch'[y].config) = k
    BY DEF FlightFits, Key
  <2> DEFINE y == flight[r][k]
  <2>1. flight'[r][k] = y /\ r # s
    BY <1>7
  <2>2. y \in Exchanges /\ exch[y].at = "asking" /\ ServerOf[y] = r /\ Key(y) = k
    BY <2>1 DEF BankInv, BankTypeOK, FlightFits
  <2>3. exch'[y] = exch[y]
    BY <1>4, <2>1, <2>2 DEF Dies
  <2> QED
    BY <2>1, <2>2, <2>3 DEF Key
<1>12. ASSUME NEW x \in Exchanges PROVE Fits(x)'
  <2>1. CASE Dies(x)
    <3>1. Told(x)'
      BY <1>2, <1>3, <1>6, <2>1 DEF Dies, BankInv, Told
    <3>2. MayRetry(x)' /\ Carries(x)' /\ Shares(x)'
      BY <1>3, <2>1 DEF MayRetry, Carries, Shares
    <3>3. NotYet(x)'
      BY <1>3, <2>1 DEF Restart, BankInv, NotYet, ToCome
    <3> QED
      BY <3>1, <3>2, <3>3 DEF Fits
  <2>2. CASE ~Dies(x)
    <3>1. exch'[x] = exch[x] /\ carried'[x] = carried[x]
      BY <1>4, <1>6, <2>2
    <3>2. Told(x)' /\ MayRetry(x)' /\ Carries(x)' /\ NotYet(x)'
      BY <3>1 DEF Restart, BankInv, Told, MayRetry, Carries, NotYet, ToCome, Key
    <3>3. exch[x].at \in {"asking", "joined"} => ServerOf[x] # s
      BY <2>2 DEF Dies
    <3>4. exch[x].at = "asking" => flight'[ServerOf[x]][Key(x)] = x
      BY <1>7, <3>3, OwnPlace DEF BankInv, Shares, InFlightFor, Key
    <3>5. exch[x].at = "joined" =>
             LET z == exch[x].asker IN
             /\ z \in Exchanges /\ exch'[z] = exch[z] /\ exch[z].at = "asking"
             /\ ServerOf[z] = ServerOf[x] /\ Key(z) = Key(x)
      BY <1>4, <3>3 DEF BankInv, Shares, Dies
    <3>6. Shares(x)'
      BY <3>1, <3>4, <3>5 DEF Shares, InFlightFor, Key
    <3> QED
      BY <3>2, <3>6 DEF Fits
  <2> QED
    BY <2>1, <2>2
<1> QED
  BY <1>9, <1>10, <1>11, <1>12 DEF BankInv, Fits

-----------------------------------------------------------------------------
(* The theorems.                                                           *)

LEMMA BankMoves == BankInv /\ [BankNext]_bankVars => BankInv'
<1> SUFFICES ASSUME BankInv, [BankNext]_bankVars PROVE BankInv'
  OBVIOUS
<1>1. CASE UNCHANGED bankVars
  <2>1. BankTypeOK' /\ FlightFits' /\ CacheFits'
    BY <1>1 DEF bankVars, BankInv, BankTypeOK, FlightFits, CacheFits, Key
  <2>2. ASSUME NEW x \in Exchanges PROVE Fits(x)'
    BY <1>1 DEF bankVars, BankInv, Fits, Told, MayRetry, Carries, Shares, InFlightFor, Key,
                NotYet, ToCome
  <2> QED
    BY <2>1, <2>2 DEF BankInv, Fits
<1>2. CASE \E g \in Gateways : CreateGateway(g) \/ UpdateGateway(g)
  BY <1>2, ChangeStep
<1>3. ASSUME NEW x \in Exchanges, Exchanging(x) PROVE BankInv'
  <2>1. CASE \/ ResolveForPix(x) \/ ResolveForCharge(x) \/ ResolveForStatus(x)
             \/ RegisterLook(x)
    BY <2>1, EngageStep DEF ResolveForPix, ResolveForCharge, ResolveForStatus, RegisterLook
  <2>2. CASE RegisterRead(x) \/ UseCached(x) \/ JoinRefresh(x) \/ AskToken(x)
    BY <2>2, ReadStep, CachedStep, JoinStep, AskStep
  <2>3. CASE TokenGranted(x) \/ TokenRefused(x)
    BY <2>3, GrantedStep, RefusedStep
  <2>4. CASE Succeeds(x) \/ IsLimited(x) \/ IsLost(x) \/ Wake(x)
    BY <2>4, AnswersStep, WakeStep
  <2> QED
    BY <1>3, <2>1, <2>2, <2>3, <2>4 DEF Exchanging
<1>4. CASE \E t \in TokenNames : GrowsOld(t)
  BY <1>4, AgeStep
<1>5. CASE \E s \in Servers : Restart(s)
  BY <1>5, RestartStep
<1> QED
  BY <1>1, <1>2, <1>3, <1>4, <1>5 DEF BankNext

LEMMA BankInvariance == BankSpec => []BankInv
  BY BankStarts, BankMoves, PTL DEF BankSpec

\* The rows, the maps of the processes and the exchanges are always well formed.
THEOREM BankIsTyped == BankSpec => []BankTypeOK
<1>1. BankInv => BankTypeOK
  BY DEF BankInv
<1> QED
  BY <1>1, BankInvariance, PTL

\* Whatever shares it, changes the gateway or stops a process, a request on the
\* wire carries a live token of its own client and environment.
THEOREM TokensFit == BankSpec => []TokenFits
<1>1. BankInv => TokenFits
  BY DEF BankInv, Carries, TokenFits, Key, KeyFor
<1> QED
  BY <1>1, BankInvariance, PTL

\* getOrRefreshToken never has two requests for one token in flight in a process,
\* and nobody waits for a request that is over.
THEOREM RefreshesAreShared == BankSpec => []RefreshIsShared
<1>1. BankInv => RefreshIsShared
  <2> SUFFICES ASSUME BankInv PROVE RefreshIsShared
    OBVIOUS
  <2>1. ASSUME NEW x \in Exchanges, NEW y \in Exchanges, x # y,
               exch[x].at = "asking", exch[y].at = "asking", ServerOf[x] = ServerOf[y]
        PROVE  KeyFor(exch[x].config) # KeyFor(exch[y].config)
    BY <2>1 DEF BankInv, Shares, InFlightFor
  <2>2. \A x \in Exchanges : exch[x].at = "joined" => exch[exch[x].asker].at = "asking"
    BY DEF BankInv, Shares
  <2> QED
    BY <2>1, <2>2 DEF RefreshIsShared
<1> QED
  BY <1>1, BankInvariance, PTL

\* The outcome request() reports agrees with what the bank has done, since only
\* what the bank has not looked at is asked again.
THEOREM OutcomesAreTrue == BankSpec => []OutcomeIsTrue
<1>1. BankInv => OutcomeIsTrue
  BY DEF BankInv, Told, OutcomeIsTrue
<1> QED
  BY <1>1, BankInvariance, PTL
=============================================================================
