--------------------------- MODULE CommercialRules ---------------------------
(***************************************************************************)
(* The commercial rules of a creditor and the offers priced from them:     *)
(* creditors.service (the creditor's bands are a ceiling), wallets.service *)
(* (a wallet's bands are a strategy under it, the wallet's own percentage  *)
(* stands in where no band fits), and the pricing routines of wallets,     *)
(* contracts and offer-calculator.  Requests interleave; a transaction's   *)
(* deletions are the rows it saw, and its insertions appear when it        *)
(* commits (READ COMMITTED, no unique key on the bands).  Discounts are    *)
(* percentages; the amounts derived from them are left out, and so is the  *)
(* choice between the cash and the instalment column, which a wallet makes *)
(* once for every routine.                                                 *)
(***************************************************************************)
EXTENDS Integers, FiniteSets

CONSTANTS Portfolios,   \* wallets of the creditor
          Agreements,   \* contracts of the creditor
          Percents,     \* discounts
          Layouts,      \* the band layouts people use: sets of [lo, hi]
          Ages,         \* days overdue
          Editors,      \* requests being served at a time
          MaxEdits      \* requests served in all

ASSUME CommercialAssumption ==
    /\ Percents \subseteq 0 .. 100 /\ 0 \in Percents
    /\ Ages \subseteq Nat /\ \E age \in Ages : \A later \in Ages : age <= later
    /\ Layouts \subseteq SUBSET [lo : Ages, hi : Ages]
    /\ MaxEdits \in Nat
    /\ \A layout \in Layouts : \A x \in layout, y \in layout :
          x # y => x.hi < y.lo \/ y.hi < x.lo   \* validateBands

VARIABLES ceiling,    \* CreditorDiscountBand: range, percentage
          strategy,   \* WalletDiscountBand of each wallet
          flat,       \* cobcomDiscountPercent of each wallet
          priced,     \* the offer snapshot of each contract
          editor,     \* requests
          edits,      \* requests begun
          patched     \* ghost: contracts priced by calculateOffer alone

rulesVars == <<ceiling, strategy, flat, priced, editor, edits, patched>>
config == <<ceiling, strategy, flat>>

Band == [lo : Ages, hi : Ages, percent : Percents]
Span(band) == [lo |-> band.lo, hi |-> band.hi]
Rules(layout) == [layout -> Percents]
Bands(f) == {[lo |-> x.lo, hi |-> x.hi, percent |-> f[x]] : x \in DOMAIN f}
Least(x, y) == IF x <= y THEN x ELSE y
Covers(band, age) == band.lo <= age /\ age <= band.hi
Overlap(bands) ==
    \E x \in bands, y \in bands, age \in Ages : x # y /\ Covers(x, age) /\ Covers(y, age)
NoEdit == [at |-> "idle"]

-----------------------------------------------------------------------------
(* Pricing.                                                                *)

\* .find over bands in ascending order of minAgingDays: the lowest match.
FirstBand(bands, age) ==
    {b \in bands : Covers(b, age) /\ \A c \in bands : Covers(c, age) => b.lo <= c.lo}
\* ORDER BY minAgingDays DESC LIMIT 1: the highest match.
LastBand(bands, age) ==
    {b \in bands : Covers(b, age) /\ \A c \in bands : Covers(c, age) => b.lo >= c.lo}
\* The percentage of the band, or the wallet's own; two rows of one range
\* leave it open which is taken.
PercentOf(found, default) ==
    IF found = {} THEN {default} ELSE {b.percent : b \in found}

\* recalculateOffer and createOrUpdate: the contract's wallet, its bands and
\* the creditor's, the discount never above the ceiling.
OneByOne(w, age) ==
    {[discount |-> Least(s, m), maximum |-> m] :
        s \in PercentOf(FirstBand(strategy[w], age), flat[w]),
        m \in PercentOf(FirstBand(ceiling, age), flat[w])}

\* Seeded fault: the strategy is not held under the ceiling.
SetBasedUncapped(w, age, own) ==
    {[discount |-> s, maximum |-> m] :
        s \in PercentOf(LastBand(strategy[w], age), own),
        m \in PercentOf(LastBand(ceiling, age), own)}

\* wallets.recalculateOffers: LEAST(strategy, maximum) with the wallet's
\* percentage `own` as it was read before the statement.
SetBased(w, age, own) ==
    {[discount |-> Least(s, m), maximum |-> m] :
        s \in PercentOf(LastBand(strategy[w], age), own),
        m \in PercentOf(LastBand(ceiling, age), own)}

-----------------------------------------------------------------------------
(* Requests.                                                               *)

Start(e, next) == /\ editor[e] = NoEdit /\ edits < MaxEdits
                  /\ edits' = edits + 1
                  /\ editor' = [editor EXCEPT ![e] = next]
                  /\ UNCHANGED <<config, priced, patched>>
Stop(e) == editor' = [editor EXCEPT ![e] = NoEdit] /\ UNCHANGED edits

\* upsertCommercialRules: inside one transaction the wallets are read with
\* their bands and the creditor's bands deleted ...
UpsertRulesRead(e) ==
    \E layout \in Layouts : \E f \in Rules(layout) :
       Start(e, [at |-> "rules", new |-> Bands(f), old |-> ceiling,
                 wallets |-> strategy, own |-> flat])

\* ... the creditor's row is updated, which one transaction at a time can,
\* and the bands the wallets then have deleted ...
UpsertRulesDelete(e) ==
    /\ editor[e].at = "rules"
    /\ \A f \in Editors : editor[f].at # "relay"
    /\ editor' = [editor EXCEPT ![e] =
          [at |-> "relay", new |-> editor[e].new, old |-> editor[e].old,
           wallets |-> editor[e].wallets, own |-> editor[e].own, doomed |-> strategy]]
    /\ UNCHANGED <<config, priced, edits, patched>>

\* The strategy a wallet keeps in a band: its percentage there, if it had
\* the band, else its own one, under the new ceiling.
KeptStrategy(w, seen, band) ==
    LET same == {b \in seen.wallets[w] : Span(b) = Span(band)}
    IN  {[band EXCEPT !.percent = Least(p, band.percent)] :
            p \in PercentOf(same, seen.own[w])}

\* ... and committed, every wallet's bands replaced by the new ones.
UpsertRulesWrite(e) ==
    LET k == editor[e]
    IN  /\ k.at = "relay"
        /\ ceiling' = (ceiling \ k.old) \cup k.new
        /\ strategy' = [w \in Portfolios |->
              (strategy[w] \ k.doomed[w])
                \cup UNION {KeptStrategy(w, k, b) : b \in k.new}]
        /\ Stop(e) /\ UNCHANGED <<flat, priced, patched>>

\* update of a wallet: each band is one of the creditor's and not above it,
\* as the creditor's bands were read.
UpdateWalletRead(e) ==
    \E w \in Portfolios, own \in Percents :
       \E f \in Rules({Span(b) : b \in ceiling}) :
          /\ \A b \in ceiling : f[Span(b)] <= b.percent
          /\ ~Overlap(ceiling)
          /\ Start(e, [at |-> "wallet", wallet |-> w, own |-> own, bands |-> Bands(f)])

\* One transaction: the wallet's row is updated, its bands deleted ...
UpdateWalletDelete(e) ==
    LET k == editor[e]
    IN  /\ k.at = "wallet"
        /\ \A f \in Editors : editor[f].at = "swap" => editor[f].wallet # k.wallet
        /\ editor' = [editor EXCEPT ![e] =
              [at |-> "swap", wallet |-> k.wallet, own |-> k.own, bands |-> k.bands,
               old |-> strategy[k.wallet]]]
        /\ UNCHANGED <<config, priced, edits, patched>>

\* ... and the new ones committed.
UpdateWalletWrite(e) ==
    LET k == editor[e]
    IN  /\ k.at = "swap"
        /\ flat' = [flat EXCEPT ![k.wallet] = k.own]
        /\ strategy' = [strategy EXCEPT ![k.wallet] =
                          (strategy[k.wallet] \ k.old) \cup k.bands]
        /\ Stop(e) /\ UNCHANGED <<ceiling, priced, patched>>

\* recalculateOffer of a contract, or its creation by createOrUpdate: the
\* rules are read ...
PriceOneRead(e) ==
    \E k \in Agreements : \E offer \in OneByOne(priced[k].wallet, priced[k].age) :
       /\ Start(e, [at |-> "price", contract |-> k, offer |-> offer])

\* ... and the snapshot written.
PriceOneWrite(e) ==
    LET k == editor[e].contract
        offer == editor[e].offer
    IN  /\ editor[e].at = "price"
        /\ priced' = [priced EXCEPT ![k].discount = offer.discount,
                                    ![k].maximum = offer.maximum]
        /\ patched' = patched \ {k}
        /\ Stop(e) /\ UNCHANGED config

\* wallets.recalculateOffers, by hand or after an import: the wallet's row
\* is read ...
PriceWalletRead(e) ==
    \E w \in Portfolios :
       Start(e, [at |-> "reprice", wallet |-> w, own |-> flat[w], todo |-> {}])

\* ... and one statement prices its active unpaid contracts.
PriceWalletWrite(e) ==
    LET k == editor[e]
        mine == {a \in Agreements : priced[a].wallet = k.wallet /\ priced[a].open}
    IN  /\ k.at = "reprice"
        /\ \E offer \in [mine -> [discount : Percents, maximum : Percents]] :
              /\ \A a \in mine : offer[a] \in SetBased(k.wallet, priced[a].age, k.own)
              /\ priced' = [a \in Agreements |->
                    IF a \in mine THEN [priced[a] EXCEPT !.discount = offer[a].discount,
                                                         !.maximum = offer[a].maximum]
                    ELSE priced[a]]
        /\ patched' = patched \ mine
        /\ editor' = [editor EXCEPT ![e] =
              IF k.todo = {} THEN NoEdit ELSE [at |-> "next", todo |-> k.todo]]
        /\ UNCHANGED <<config, edits>>

\* The weekly job refreshes the persisted aging of every contract, then
\* prices the wallets one after the other.
WeeklyJob(e) ==
    /\ editor[e] = NoEdit /\ edits < MaxEdits
    /\ edits' = edits + 1
    /\ \E age \in [Agreements -> Ages] :
          /\ \A k \in Agreements : age[k] >= priced[k].age
          /\ priced' = [k \in Agreements |-> [priced[k] EXCEPT !.age = age[k]]]
    /\ editor' = [editor EXCEPT ![e] = [at |-> "next", todo |-> Portfolios]]
    /\ UNCHANGED <<config, patched>>

NextWallet(e) ==
    /\ editor[e].at = "next"
    /\ \E w \in editor[e].todo :
          editor' = [editor EXCEPT ![e] = [at |-> "reprice", wallet |-> w, own |-> flat[w],
                                           todo |-> editor[e].todo \ {w}]]
    /\ UNCHANGED <<config, priced, edits, patched>>

\* PATCH of a contract's value or wallet, and the import: calculateOffer,
\* which knows the wallet's own percentage only and leaves the maximum.
PatchValueOrMove(e) ==
    /\ editor[e] = NoEdit /\ edits < MaxEdits
    /\ edits' = edits + 1
    /\ \E k \in Agreements, w \in Portfolios :
          /\ priced[k].open
          /\ priced' = [priced EXCEPT ![k].wallet = w, ![k].discount = flat[w]]
          /\ patched' = patched \cup {k}
    /\ UNCHANGED <<config, editor>>

\* The contract is paid: no set-based pricing touches it from now on.
PayContract(k) == /\ priced[k].open
                  /\ priced' = [priced EXCEPT ![k].open = FALSE]
                  /\ UNCHANGED <<config, editor, edits, patched>>

-----------------------------------------------------------------------------
\* A wallet copies the creditor's bands when it is created, its own
\* percentage held under each.
CopiedStrategy(bands, own) == {[b EXCEPT !.percent = Least(own, b.percent)] : b \in bands}

RulesInit ==
    /\ \E layout \in Layouts : \E f \in Rules(layout) : ceiling = Bands(f)
    /\ flat \in [Portfolios -> Percents]
    /\ strategy = [w \in Portfolios |-> CopiedStrategy(ceiling, flat[w])]
    /\ priced \in [Agreements -> [wallet : Portfolios, age : {CHOOSE a \in Ages : \A b \in Ages : a <= b},
                                 discount : {0}, maximum : {0}, open : {TRUE}]]
    /\ editor = [e \in Editors |-> NoEdit] /\ edits \in 0 .. MaxEdits
    /\ patched = {}

RulesNext ==
    \/ \E e \in Editors :
          \/ UpsertRulesRead(e) \/ UpsertRulesDelete(e) \/ UpsertRulesWrite(e)
          \/ UpdateWalletRead(e) \/ UpdateWalletDelete(e) \/ UpdateWalletWrite(e)
          \/ PriceOneRead(e) \/ PriceOneWrite(e)
          \/ PriceWalletRead(e) \/ PriceWalletWrite(e)
          \/ WeeklyJob(e) \/ NextWallet(e) \/ PatchValueOrMove(e)
    \/ \E k \in Agreements : PayContract(k)

RulesSpec == RulesInit /\ [][RulesNext]_rulesVars

-----------------------------------------------------------------------------
(* Properties.                                                             *)

\* The rows hold what their columns may.
RulesTypeOK ==
    /\ ceiling \subseteq Band /\ strategy \in [Portfolios -> SUBSET Band]
    /\ flat \in [Portfolios -> Percents] /\ patched \subseteq Agreements
    /\ priced \in [Agreements -> [wallet : Portfolios, age : Ages, open : BOOLEAN,
                                 discount : Percents, maximum : Percents]]

\* "creditor bands are the commercial ceiling and can never be exceeded"
\* (recalculateOffers): an offer priced by either routine stays within the
\* maximum recorded with it, even while a request that read the creditor's
\* old bands leaves a wallet a strategy above the new ones.
OfferUnderCeiling ==
    \A k \in Agreements : k \notin patched => priced[k].discount <= priced[k].maximum

=============================================================================
