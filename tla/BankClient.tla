----------------------------- MODULE BankClient -----------------------------
(***************************************************************************)
(* How the service talks to Banco do Brasil: the gateways an administrator *)
(* configures (payment-gateways.service), the OAuth tokens each process    *)
(* keeps (bb-auth.service), and the requests of the HTTP client            *)
(* (bb-http-client.service), which asks again only when the bank says 429. *)
(* An exchange is one call of the client's request(): a charge is issued,  *)
(* its status fetched, or the address of the webhook registered.  It works *)
(* with the configuration it read from the gateway's row, whatever the row *)
(* becomes.  What the bank answers is free.  Names, certificates and       *)
(* delays are left out; a client's secret goes with its id.                *)
(***************************************************************************)
EXTENDS Naturals

CONSTANTS Gateways,      \* rows of PaymentGateway
          OwnerOf,       \* the account of each
          Environments,  \* SANDBOX, PRODUCTION
          Deployed,      \* PAYMENT_GATEWAY_ENVIRONMENT
          Clients,       \* OAuth clients, by their id
          Exchanges,     \* calls of request()
          NoExchange,    \* none of them
          Servers,       \* processes of the service
          ServerOf,      \* the process of each exchange
          MaxRetries,    \* maxRetries of the gateways, which no request sets
          MaxChanges,    \* bound on the changes of gateways
          MaxRestarts    \* bound on the processes that stop

ASSUME BankAssumption == /\ Gateways # {} /\ Clients # {}
                         /\ NoExchange \notin Exchanges
                         /\ ServerOf \in [Exchanges -> Servers]
                         /\ Deployed \in Environments
                         /\ {MaxRetries, MaxChanges, MaxRestarts} \subseteq Nat

VARIABLES gateway,   \* table PaymentGateway
          exch,      \* the exchanges
          cached,    \* tokenCache of each process, by key
          flight,    \* inflightRequests of each process: who asked for the token
          token,     \* what the bank has issued: a token's client, and its age
          carried,   \* history: how often the bank carried an exchange out
          changes, restarts

bankVars == <<gateway, exch, cached, flight, token, carried, changes, restarts>>

-----------------------------------------------------------------------------
(* Rows, keys and tokens                                                   *)

\* `keyed`: the row has a Pix key.
Config == [env : Environments, client : Clients, keyed : BOOLEAN]
GatewayRow == [exists : BOOLEAN, enabled : BOOLEAN, pix : BOOLEAN, config : Config]
NoConfig == CHOOSE c \in Config : TRUE
NoGateway == [exists |-> FALSE, enabled |-> FALSE, pix |-> FALSE, config |-> NoConfig]

\* buildCacheKey
KeyFor(config) == [client |-> config.client, env |-> config.env]
CacheKeys == [client : Clients, env : Environments]

\* A token is known by the exchange and the attempt that asked for it.
Attempts == 1 .. MaxRetries + 1
TokenNames == Exchanges \X Attempts
NoToken == <<>>

\* "fresh" until TOKEN_EXPIRY_BUFFER_MS before it expires.
TokenAges == {"none", "fresh", "expiring", "expired"}
Token == [age : TokenAges, key : CacheKeys]
NotIssued == [age |-> "none", key |-> KeyFor(NoConfig)]

Outcomes == {"SUCCESS", "TIMEOUT", "RATE_LIMITED", "PROVIDER_ERROR"}
Places == {"idle", "registering", "ready", "asking", "joined", "wire", "backoff", "done"}
Exchange == [at : Places, gateway : Gateways, config : Config, attempt : Attempts,
             token : TokenNames \cup {NoToken}, fresh : BOOLEAN,
             asker : Exchanges \cup {NoExchange},
             outcome : Outcomes \cup {"NONE", "LOST"}]
Unasked == [at |-> "idle", gateway |-> CHOOSE g \in Gateways : TRUE, config |-> NoConfig,
            attempt |-> 1, token |-> NoToken, fresh |-> FALSE, asker |-> NoExchange,
            outcome |-> "NONE"]

BankInit ==
    /\ gateway \in [Gateways -> {NoGateway} \cup
                        [exists : {TRUE}, enabled : {TRUE}, pix : {TRUE},
                         config : {c \in Config : c.keyed}]]
    /\ \A g, h \in Gateways :
          (g # h /\ gateway[g].exists /\ gateway[h].exists /\ OwnerOf[g] = OwnerOf[h])
            => gateway[g].config.env # gateway[h].config.env
    /\ exch = [x \in Exchanges |-> Unasked]
    /\ cached = [s \in Servers |-> [k \in CacheKeys |-> NoToken]]
    /\ flight = [s \in Servers |-> [k \in CacheKeys |-> NoExchange]]
    /\ token = [t \in TokenNames |-> NotIssued]
    /\ carried = [x \in Exchanges |-> 0]
    /\ changes \in 0 .. MaxChanges /\ restarts \in 0 .. MaxRestarts

-----------------------------------------------------------------------------
(* The gateways                                                            *)

\* unique(accountId, providerType, environment)
EnvironmentTaken(g, env) ==
    \E h \in Gateways \ {g} : /\ gateway[h].exists /\ OwnerOf[h] = OwnerOf[g]
                              /\ gateway[h].config.env = env

ChangeGateway(g, row) ==
    /\ changes < MaxChanges
    /\ changes' = changes + 1
    /\ ~EnvironmentTaken(g, row.config.env)
    /\ gateway' = [gateway EXCEPT ![g] = row]
    /\ UNCHANGED <<exch, cached, flight, token, carried, restarts>>

\* create
CreateGateway(g) ==
    /\ ~gateway[g].exists
    /\ \E row \in GatewayRow : row.exists /\ ChangeGateway(g, row)

\* update: any of the fields at once.  Rows are never deleted, so what its
\* look-up finds stays.
UpdateGateway(g) ==
    /\ gateway[g].exists
    /\ \E row \in GatewayRow \ {gateway[g]} : row.exists /\ ChangeGateway(g, row)

-----------------------------------------------------------------------------
(* How an exchange gets its configuration                                  *)

OnlyExchange == UNCHANGED <<gateway, cached, flight, token, carried, changes, restarts>>

Engage(x, g, at) ==
    /\ exch[x].at = "idle"
    /\ exch' = [exch EXCEPT ![x].at = at, ![x].gateway = g,
                            ![x].config = gateway[g].config]
    /\ OnlyExchange

\* resolvePixGateway of createPixForContract and createPixByDocument
ResolveForPix(x) ==
    \E g \in Gateways : /\ gateway[g].exists /\ gateway[g].enabled /\ gateway[g].pix
                        /\ gateway[g].config.env = Deployed
                        /\ Engage(x, g, "ready")

\* createCharge: the gateway the caller names.
ResolveForCharge(x) ==
    \E g \in Gateways : gateway[g].exists /\ gateway[g].enabled /\ Engage(x, g, "ready")

\* reconcileCharge and syncCharge: the gateway of the charge, enabled or not.
ResolveForStatus(x) ==
    \E g \in Gateways : gateway[g].exists /\ Engage(x, g, "ready")

\* register: the row is looked at, and then read again.
RegisterLook(x) ==
    \E g \in Gateways : gateway[g].exists /\ gateway[g].enabled /\ Engage(x, g, "registering")

RegisterRead(x) ==
    LET config == gateway[exch[x].gateway].config IN
    /\ exch[x].at = "registering"
    /\ exch' = [exch EXCEPT ![x].at = IF config.keyed THEN "ready" ELSE "done",
                            ![x].config = config]
    /\ OnlyExchange

-----------------------------------------------------------------------------
(* Tokens                                                                  *)

\* Seeded fault: a cached token is used until it expires.
UsableToTheEnd(t) == token[t].age \in {"fresh", "expiring"}

\* ~isTokenExpired
Usable(t) == token[t].age = "fresh"

CachedFor(x) == cached[ServerOf[x]][KeyFor(exch[x].config)]
InFlightFor(x) == flight[ServerOf[x]][KeyFor(exch[x].config)]

\* With a token in hand the request goes out at once: nothing is awaited
\* in between.
Sent(e, t, fresh) == [e EXCEPT !.at = "wire", !.token = t, !.fresh = fresh,
                               !.asker = NoExchange]

HasUsable(x) == CachedFor(x) # NoToken /\ Usable(CachedFor(x))

\* getAccessToken
UseCached(x) ==
    /\ exch[x].at = "ready" /\ HasUsable(x)
    /\ exch' = [exch EXCEPT ![x] = Sent(@, CachedFor(x), token[CachedFor(x)].age = "fresh")]
    /\ OnlyExchange

\* getOrRefreshToken: the promise of a request in flight is shared.
JoinRefresh(x) ==
    /\ exch[x].at = "ready" /\ ~HasUsable(x)
    /\ InFlightFor(x) # NoExchange
    /\ exch' = [exch EXCEPT ![x].at = "joined", ![x].asker = InFlightFor(x)]
    /\ OnlyExchange

\* Seeded fault: requests in flight are not looked for.
AskTokenAlone(x) ==
    /\ exch[x].at = "ready" /\ ~HasUsable(x)
    /\ exch' = [exch EXCEPT ![x].at = "asking"]
    /\ flight' = [flight EXCEPT ![ServerOf[x]][KeyFor(exch[x].config)] = x]
    /\ UNCHANGED <<gateway, cached, token, carried, changes, restarts>>

AskToken(x) ==
    /\ exch[x].at = "ready" /\ ~HasUsable(x)
    /\ InFlightFor(x) = NoExchange
    /\ exch' = [exch EXCEPT ![x].at = "asking"]
    /\ flight' = [flight EXCEPT ![ServerOf[x]][KeyFor(exch[x].config)] = x]
    /\ UNCHANGED <<gateway, cached, token, carried, changes, restarts>>

\* The exchanges that await the request x has made.
Awaiting(x) == {y \in Exchanges : y = x \/ (exch[y].at = "joined" /\ exch[y].asker = x)}

LandFlight(x) == flight' = [flight EXCEPT ![ServerOf[x]][KeyFor(exch[x].config)] = NoExchange]

\* requestToken is answered: the token is cached, and all who wait go on.
\* The bank's tokens live longer than the margin.
TokenGranted(x) ==
    LET t == <<x, exch[x].attempt>>
        key == KeyFor(exch[x].config)
    IN  /\ exch[x].at = "asking"
        /\ token' = [token EXCEPT ![t] =
                        [age |-> "fresh",
                         key |-> [client |-> exch[x].config.client, env |-> exch[x].config.env]]]
        /\ cached' = [cached EXCEPT ![ServerOf[x]][key] = t]
        /\ LandFlight(x)
        /\ exch' = [y \in Exchanges |->
                       IF y \in Awaiting(x) THEN Sent(exch[y], t, TRUE) ELSE exch[y]]
        /\ UNCHANGED <<gateway, carried, changes, restarts>>

-----------------------------------------------------------------------------
(* Answers                                                                 *)

Concluded(e, outcome) == [e EXCEPT !.at = "done", !.outcome = outcome, !.token = NoToken,
                                !.fresh = FALSE, !.asker = NoExchange]

\* attempt > maxRetries
GivesUp(e) == e.attempt > MaxRetries

\* Seeded fault: a request that timed out is made again.
FailedAgain(e, why) ==
    IF why = "error" THEN Concluded(e, "PROVIDER_ERROR")
    ELSE IF GivesUp(e) THEN Concluded(e, IF why = "timeout" THEN "TIMEOUT" ELSE "RATE_LIMITED")
    ELSE [e EXCEPT !.at = "backoff", !.token = NoToken, !.fresh = FALSE, !.asker = NoExchange]

\* The catch clause of request(): only a 429 is asked again.
Failed(e, why) ==
    CASE why = "timeout" -> Concluded(e, "TIMEOUT")
      [] why = "error"   -> Concluded(e, "PROVIDER_ERROR")
      [] why = "limited" -> IF GivesUp(e) THEN Concluded(e, "RATE_LIMITED")
                            ELSE [e EXCEPT !.at = "backoff", !.token = NoToken,
                                           !.fresh = FALSE, !.asker = NoExchange]

\* requestToken throws: all who share its promise fail alike.
TokenRefused(x) ==
    /\ exch[x].at = "asking"
    /\ LandFlight(x)
    /\ \E why \in {"timeout", "error", "limited"} :
          exch' = [y \in Exchanges |->
                      IF y \in Awaiting(x) THEN Failed(exch[y], why) ELSE exch[y]]
    /\ UNCHANGED <<gateway, cached, token, carried, changes, restarts>>

OnlyAnswer == UNCHANGED <<gateway, cached, flight, token, changes, restarts>>

Succeeds(x) ==
    /\ exch[x].at = "wire"
    /\ exch' = [exch EXCEPT ![x] = Concluded(@, "SUCCESS")]
    /\ carried' = [carried EXCEPT ![x] = @ + 1]
    /\ OnlyAnswer

\* 429: the bank has not looked at the request.
IsLimited(x) ==
    /\ exch[x].at = "wire"
    /\ exch' = [exch EXCEPT ![x] = Failed(@, "limited")]
    /\ UNCHANGED carried /\ OnlyAnswer

\* No answer, a broken connection, or a refusal: the bank may have carried
\* the request out.
IsLost(x) ==
    /\ exch[x].at = "wire"
    /\ \E why \in {"timeout", "error"} : exch' = [exch EXCEPT ![x] = Failed(@, why)]
    /\ \E n \in {0, 1} : carried' = [carried EXCEPT ![x] = @ + n]
    /\ OnlyAnswer

\* sleep is over, and the loop asks for a token once more.
Wake(x) ==
    /\ exch[x].at = "backoff"
    /\ exch' = [exch EXCEPT ![x].at = "ready", ![x].attempt = @ + 1]
    /\ OnlyExchange

-----------------------------------------------------------------------------
(* Time and crashes                                                        *)

\* A request is over, one way or the other, within the 30 s of its time-out,
\* less than the margin: a token sent while fresh does not expire meanwhile.
GrowsOld(t) ==
    /\ \/ token[t].age = "fresh" /\ token' = [token EXCEPT ![t].age = "expiring"]
       \/ /\ token[t].age = "expiring"
          /\ \A x \in Exchanges : (exch[x].at = "wire" /\ exch[x].token = t) => ~exch[x].fresh
          /\ token' = [token EXCEPT ![t].age = "expired"]
    /\ UNCHANGED <<gateway, exch, cached, flight, carried, changes, restarts>>

\* A process stops: its maps are in memory, and its exchanges end with it,
\* on the wire perhaps after the bank has read them.
Restart(s) ==
    /\ restarts < MaxRestarts
    /\ restarts' = restarts + 1
    /\ cached' = [cached EXCEPT ![s] = [k \in CacheKeys |-> NoToken]]
    /\ flight' = [flight EXCEPT ![s] = [k \in CacheKeys |-> NoExchange]]
    /\ \E done \in SUBSET {x \in Exchanges : ServerOf[x] = s /\ exch[x].at = "wire"} :
          carried' = [x \in Exchanges |-> IF x \in done THEN carried[x] + 1 ELSE carried[x]]
    /\ exch' = [x \in Exchanges |->
                   IF ServerOf[x] = s /\ exch[x].at \notin {"idle", "done"}
                   THEN Concluded(exch[x], "LOST") ELSE exch[x]]
    /\ UNCHANGED <<gateway, token, changes>>

Exchanging(x) ==
    \/ ResolveForPix(x) \/ ResolveForCharge(x) \/ ResolveForStatus(x)
    \/ RegisterLook(x) \/ RegisterRead(x)
    \/ UseCached(x) \/ JoinRefresh(x) \/ AskToken(x) \/ TokenGranted(x) \/ TokenRefused(x)
    \/ Succeeds(x) \/ IsLimited(x) \/ IsLost(x) \/ Wake(x)

BankNext ==
    \/ \E g \in Gateways : CreateGateway(g) \/ UpdateGateway(g)
    \/ \E x \in Exchanges : Exchanging(x)
    \/ \E t \in TokenNames : GrowsOld(t)
    \/ \E s \in Servers : Restart(s)

BankSpec == BankInit /\ [][BankNext]_bankVars

-----------------------------------------------------------------------------
(* Properties                                                              *)

BankTypeOK ==
    /\ gateway \in [Gateways -> GatewayRow]
    /\ exch \in [Exchanges -> Exchange]
    /\ cached \in [Servers -> [CacheKeys -> TokenNames \cup {NoToken}]]
    /\ flight \in [Servers -> [CacheKeys -> Exchanges \cup {NoExchange}]]
    /\ token \in [TokenNames -> Token]
    /\ carried \in [Exchanges -> Nat]
    /\ changes \in 0 .. MaxChanges /\ restarts \in 0 .. MaxRestarts

\* A request on the wire carries a token of its own client and environment
\* that has not expired ("refresh tokens 60 seconds before actual expiry to
\* avoid race conditions with in-flight requests"), whether it was cached,
\* asked for or shared, and whatever the gateway has become meanwhile.
TokenFits ==
    \A x \in Exchanges : exch[x].at = "wire" =>
       LET e == exch[x]
       IN  /\ token[e.token].age \in {"fresh", "expiring"}
           /\ token[e.token].key = [client |-> e.config.client, env |-> e.config.env]

\* "Concurrent token requests during refresh are coalesced into a single
\* request": no process asks twice at once for the token of one client, and
\* who shares a request has somebody who makes it.
RefreshIsShared ==
    /\ \A x, y \in Exchanges :
          (/\ x # y /\ {exch[x].at, exch[y].at} = {"asking"} /\ ServerOf[x] = ServerOf[y])
            => KeyFor(exch[x].config) # KeyFor(exch[y].config)
    /\ \A x \in Exchanges : exch[x].at = "joined" => exch[exch[x].asker].at = "asking"

\* What the caller is told is true: the bank carried an exchange out at most
\* once, exactly once when it is a SUCCESS, and not at all when it is given up
\* as RATE_LIMITED, which handleAdapterError records as FAILED.
OutcomeIsTrue ==
    \A x \in Exchanges :
       /\ carried[x] <= 1
       /\ exch[x].outcome = "SUCCESS" => carried[x] = 1
       /\ exch[x].outcome = "RATE_LIMITED" => carried[x] = 0

=============================================================================
