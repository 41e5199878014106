--------------------------- MODULE ZazzleProduct ----------------------------
(***************************************************************************)
(* The product and search pages of Zazzle.  A page is a record of what its *)
(* places hold, Null for nothing; a price text is [mark, value], with mark *)
(* "$" where it names no currency; a url [host, product].                  *)
(***************************************************************************)
EXTENDS PageText

CanonicalProductUrl(url) == IF url = Null \/ url.product = Null THEN Null ELSE url

\* An explicit prefix states a currency, a bare "$" states none.
ParseZazzleMoney(text) ==
  IF text = Null THEN Null
  ELSE [value |-> text.value, currency |-> CASE text.mark = "C$" -> "CAD" [] text.mark = "US$" -> "USD" [] OTHER -> Null]

\* Each storefront prices in one currency.
StorefrontCurrency(host) ==
  CASE host = "zazzle.com" -> "USD" [] host = "zazzle.ca" -> "CAD" [] OTHER -> Null

WithPageCurrency(money, host) ==
  IF money = Null THEN Null ELSE [money EXCEPT !.currency = Else(@, StorefrontCurrency(host))]

\* JSON-LD's amount with the currency it states; the rendered figure else.
ListedPrice(p) ==
  LET shown == WithPageCurrency(ParseZazzleMoney(p.mainPrice), p.url.host)
  IN  IF p.ldPrice # Null THEN [value |-> p.ldPrice, currency |-> p.ldCurrency, source |-> "jsonld"]
      ELSE IF shown = Null THEN Null ELSE shown ++ [source |-> "dom"]

OriginalPrice(p) ==
  LET listed == ListedPrice(p)
      struck == WithPageCurrency(ParseZazzleMoney(p.struck), p.url.host)
      stated == IF listed # Null /\ listed.source = "jsonld" THEN listed.currency ELSE Null
  IN  IF p.standardAmount # Null
      THEN [value |-> p.standardAmount, currency |-> Else(stated, StorefrontCurrency(p.url.host)), source |-> "meta"]
      ELSE IF struck = Null THEN Null ELSE struck ++ [source |-> "dom"]

\* The source names the first place that has a url, be it a product's or not.
CanonicalUrl(p) ==
  LET url == Else(CanonicalProductUrl(p.ogUrl), Else(CanonicalProductUrl(p.ldUrl), CanonicalProductUrl(p.url)))
  IN  IF url = Null THEN Null
      ELSE [value |-> url, source |-> IF p.ogUrl # Null THEN "meta" ELSE IF p.ldUrl # Null THEN "jsonld" ELSE "computed"]

\* A page that is gone reads unknown before it reads active.
DetectListingStatus(p) ==
  CASE p.availability = "instock" -> "active"
    [] p.availability = "oos" -> "unavailable"
    [] OTHER -> IF p.gone THEN "unavailable" ELSE IF p.ldPrice # Null THEN "active" ELSE "unknown"

\* quantity: the selection the quantity control states.
ExtractZazzleProduct(p) ==
  [productId |-> p.url.product, canonicalUrl |-> CanonicalUrl(p),
       title |-> IF p.ldName # Null THEN [value |-> p.ldName, source |-> "jsonld"]
                 ELSE IF p.title # Null THEN [value |-> p.title, source |-> "dom"] ELSE Null,
       listedPrice |-> ListedPrice(p), originalPrice |-> OriginalPrice(p),
       priceBasis |-> IF p.personalize THEN "personalized" ELSE "unknown",
       priceQuantityTier |-> IF p.perUnit THEN 1 ELSE p.quantity,
       moq |-> IF p.quantity = 1 THEN 1 ELSE Null,
       moq1Supported |-> IF p.quantity = Null THEN Null ELSE p.quantity = 1,
       discountPct |-> p.savePercent, listingStatus |-> DetectListingStatus(p),
       warnings |->
            Warn(ListedPrice(p) = Null, "LISTED_PRICE")
       \cup Warn(ListedPrice(p) # Null /\ ListedPrice(p).currency = Null, "PRICE_CURRENCY_UNSTATED")
       \cup Warn(~p.personalize, "PRICE_BASIS_UNKNOWN")]

(***************************************************************************)
(* The search page: its links, each [url, rail, known, rings] with rail a  *)
(* link of what was viewed before, and rings as in a card's ancestors.     *)
(***************************************************************************)
CardRootFor(link) ==
  IF link.known THEN Last(link.rings).card
  ELSE LET outer == {n \in 2..Len(link.rings) : n <= 6 /\ \A i \in 2..n : link.rings[i].ids <= 1}
       IN  link.rings[IF outer = {} THEN 1 ELSE Max(outer)].card

ExtractZazzleSearchResults(doc) ==
  LET onSite == {"zazzle.com", "zazzle.ca"}
      hits   == Kept(doc.links, LAMBDA l : ~l.rail /\ l.url.host \in onSite /\ l.url.product # Null)
      first  == Kept([n \in DOMAIN hits |-> n],
                          LAMBDA n : \A m \in 1..(n - 1) : hits[m].url.product # hits[n].url.product)
      row(n) == LET link == hits[first[n]]
                    card == CardRootFor(link)
                    money(text) == WithPageCurrency(ParseZazzleMoney(text), doc.url.host)
                IN  [productId |-> link.url.product, title |-> Else(card.title, link.aria),
                     price |-> money(card.sale), originalPrice |-> money(card.struck),
                     discountText |-> card.badge, order |-> n - 1]
  IN  [results |-> [n \in DOMAIN first |-> row(n)], noResultsShell |-> doc.noMatch]
=============================================================================
