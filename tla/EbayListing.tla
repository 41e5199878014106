---------------------------- MODULE EbayListing -----------------------------
(***************************************************************************)
(* The item page of eBay.  Every field is looked for in several places, in *)
(* a fixed order, and carries where it was found and how far it is to be   *)
(* trusted (in hundredths).  The page is a record of what each place holds *)
(* (the fields are named where they are read), Null for nothing; a time is *)
(* a number, and a postal code that is none of PostalCodes is not one.     *)
(***************************************************************************)
EXTENDS EbayMoney

PostalCodes == {"M6H 2W9", "M6H 0A1"}

Field(value, source, confidence) == [value |-> value, source |-> source, confidence |-> confidence]
Optional(value, source, confidence) == IF value = Null THEN Null ELSE Field(value, source, confidence)

NormalizePostalCode(raw) == IF raw \in PostalCodes THEN raw ELSE Null
PostalCodesMatch(a, b) == NormalizePostalCode(a) # Null /\ NormalizePostalCode(a) = NormalizePostalCode(b)

\* itemIds: the urls the canonical link, the address, og:url and JSON-LD give,
\* in this order, each [item, bare] (bare: without a query) or Null; sku: the
\* JSON-LD sku when it has the shape of an id.  A url that is JSON-LD's own is
\* JSON-LD's wherever it was found.
ItemId(p) ==
  LET at == {n \in DOMAIN p.itemIds : p.itemIds[n] # Null}
      n  == Min(at)
  IN  IF at # {} THEN Field(p.itemIds[n].item, IF p.itemIds[n] = p.itemIds[4] THEN "jsonld" ELSE "dom", 100)
      ELSE Optional(p.sku, "jsonld", 100)

\* The canonical url names ebay.com only where the observed host is ebay.com.
CanonicalUrl(p) ==
  IF ItemId(p) = Null THEN Null
  ELSE [host |-> IF Else(p.canonicalHost, p.host) = "ebay.com" THEN "ebay.com" ELSE "ebay.ca",
        item |-> ItemId(p).value]

\* scope: what the price and format modules say, Null when the page has none
\* of them; body: what the whole page says.
DetectSellingFormat(p) ==
  LET blob    == Else(p.scope, p.body)
      bids    == Else(p.bidElement, blob["bids"])
      auction == bids # Null \/ blob["auction"] # Null
      bin     == p.binControl \/ blob["bin"] # Null
      priced  == \E n \in DOMAIN p.prices : p.prices[n] # Null
      kind    == CASE auction /\ bin -> "auction_with_bin"
                   [] auction /\ ~bin -> "auction"
                   [] ~auction /\ (bin \/ priced) -> "fixed_price"
                   [] OTHER -> "unknown"
  IN  [kind |-> kind, bidCount |-> bids,
       confidence |-> IF kind = "unknown" THEN 30 ELSE IF p.scope # Null THEN 90 ELSE 60]

\* A control to bid or buy, or a buy box that names one.
HasPurchaseAffordance(p) == p.binControl \/ p.buyControl \/ p.buyBox["purchase"] # Null

\* A link to the original listing, or a short label of the ended template.
HasEndedTemplateAffordance(p) == p.endedAffordance

\* banners: the markers the status elements carry, Null when the page has no
\* such element; lead: the markers of its leading text.
DetectListingStatus(p) ==
  LET says == Else(p.banners, p.lead)
      priced == \E n \in DOMAIN p.prices : p.prices[n] # Null
  IN  CASE "sold" \in says -> "sold"
        [] "sold" \notin says /\ "ended" \in says -> "ended"
        [] says \cap {"sold", "ended"} = {} /\ "unavailable" \in says -> "unavailable"
        [] OTHER ->
           IF HasEndedTemplateAffordance(p) /\ ~HasPurchaseAffordance(p) THEN "ended"
           ELSE IF p.title # Null THEN IF priced THEN "active" ELSE "unknown" ELSE "unavailable"

Title(p) ==
  IF p.title # Null THEN Field(CleanTitle(p.title), "dom", 99)
  ELSE IF p.ldName # Null THEN Field(p.ldName, "jsonld", 98) ELSE Optional(p.ogTitle, "meta", 90)

\* sellers: per selector the links it matches, each [usr, str, text].  A
\* store slug is never a login id, and no selector after the one that gave a
\* login id is read.
Sellers(p) ==
  LET withUsr == {n \in DOMAIN p.sellers : \E i \in DOMAIN p.sellers[n] : p.sellers[n][i].usr # Null}
      links   == FlattenSeq(IF withUsr = {} THEN p.sellers ELSE SubSeq(p.sellers, 1, Min(withUsr)))
      usr     == FirstThat(links, LAMBDA l : l.usr # Null)
      str     == FirstThat(links, LAMBDA l : l.str # Null)
  IN  [login |-> IF usr = Null THEN Null ELSE usr.usr, slug |-> IF str = Null THEN Null ELSE str.str]

\* The login id the description frame's own address carries.
SellerFromDescriptionIframe(p) ==
  LET frame == FirstThat(p.frames, LAMBDA f : f.ebaydesc /\ f.login # Null)
  IN  IF frame = Null THEN Null ELSE frame.login

SellerOf(p, login) ==
  IF login # Null THEN Field(login, "dom", 99)
  ELSE IF p.ldSeller # Null THEN Field(p.ldSeller, "jsonld", 95)
  ELSE Optional(SellerFromDescriptionIframe(p), "dom", 90)

Seller(p) == SellerOf(p, Sellers(p).login)

\* ldPrice is [value, currency]; prices are the cells of the price elements.
RenderedPrice(p) ==
  FirstThat([n \in DOMAIN p.prices |-> ParseMoney(p.prices[n], MarketplaceCurrencyFor(p.host))], LAMBDA m : m # Null)
ItemPrice(p) ==
  IF p.ldPrice # Null THEN Field(p.ldPrice, "jsonld", 98) ELSE Optional(Amount(RenderedPrice(p)), "dom", 99)
FromRange(parsed) == parsed # Null /\ parsed.approximate

\* delivery, shipTo: the postal codes the delivery rows and the "to ..." of
\* the shipping rows carry; the first row that carries one decides.
ReadDestinationPostal(p) ==
  LET first == FirstThat(p.delivery \o p.shipTo, LAMBDA code : code # Null)
  IN  IF first = Null THEN Null ELSE NormalizePostalCode(first)

\* DestinationBySomeone: a variant that lets the rows of the page overrule the flow.
DestinationBySomeone(p) ==
  LET live == IF p.live = Null THEN Null ELSE p.live.code
      dom  == ReadDestinationPostal(p)
  IN  [postal |-> Else(live, dom),
       verified |-> \/ live # Null /\ PostalCodesMatch(live, p.expected)
                    \/ dom # Null /\ PostalCodesMatch(dom, p.expected)]

\* live: what the destination flow read back, Null when it did not run and
\* Null for its code when it saw no indicator.
Destination(p) ==
  LET live == IF p.live = Null \/ p.live.code = Null THEN Null
              ELSE Else(NormalizePostalCode(p.live.code), p.live.code)
      dom  == ReadDestinationPostal(p)
  IN  [postal |-> Else(live, dom),
       verified |-> /\ NormalizePostalCode(p.expected) # Null
                    /\ IF live # Null THEN p.live.verified /\ PostalCodesMatch(live, p.expected)
                       ELSE dom # Null /\ PostalCodesMatch(dom, p.expected)]

\* shipping: the cells of the shipping rows.  The first that has text is the
\* one; a cell whose text is no amount is kept as text and never verified.
ShippingCell(p) == FirstThat(p.shipping, LAMBDA c : c # Null)
ParsedShipping(p) == ParseMoney(ShippingCell(p), MarketplaceCurrencyFor(p.host))

\* The page itself converts a foreign quote to the buyer's currency.
ConvertedByPage(parsed) == parsed.currency # "CAD" /\ parsed.conversion # Null /\ parsed.conversion.currency = "CAD"

ShippingTo(destination, cell, parsed) ==
  LET quote(value, currency, confidence, verified) ==
        [value |-> value, currency |-> currency, confidence |-> confidence,
         destinationPostalCode |-> destination.postal, destinationVerified |-> verified]
  IN  IF cell = Null THEN Null
      ELSE IF parsed = Null THEN quote(Null, Null, 50, FALSE)
      ELSE IF ConvertedByPage(parsed) THEN quote(parsed.conversion.value, "CAD", 90, destination.verified)
      ELSE quote(parsed.value, parsed.currency, IF parsed.approximate THEN 80 ELSE 95, destination.verified)

Shipping(p) == ShippingTo(Destination(p), ShippingCell(p), ParsedShipping(p))

DetectOfferAvailable(p) == p.offerControl \/ p.buyBox["offer"] # Null

\* A timestamp counts only when it names its zone: [at, zone].
IsoFromTimestamp(stamp) == IF stamp = Null \/ ~stamp.zone THEN Null ELSE stamp.at

\* A countdown text is [phrase, ms]: whether a phrase makes its digits a
\* countdown, and how long it has to run.
CountdownMs(text) == IF text = Null \/ ~text.phrase THEN Null ELSE text.ms

\* timers: the timer elements, each [text, short, epoch, stamp]; buyBoxLeft
\* and scopeLeft: the countdown phrase of the buy box and of the price and
\* format modules.  Trusted in order: a timestamp the page states, JSON-LD's
\* priceValidUntil, the rendered countdown.
ReadEndTime(p) ==
  LET timer    == FirstThat(p.timers, LAMBDA t : t.text # Null /\ t.short)
      fromText == p.timers = <<>> /\ Else(p.buyBoxLeft, p.scopeLeft) # Null
      left     == IF timer # Null THEN timer.text
                  ELSE IF fromText THEN Else(p.buyBoxLeft, p.scopeLeft) ELSE Null
      stated   == FirstThat([n \in DOMAIN p.timers |-> Else(p.timers[n].epoch, IsoFromTimestamp(p.timers[n].stamp))],
                            LAMBDA t : t # Null)
      ld       == IsoFromTimestamp(p.ldUntil)
      delta    == CountdownMs(left)
  IN  [endsAt |-> IF stated # Null THEN Field(stated, "dom", 97)
                  ELSE IF ld # Null THEN Field(ld, "jsonld", 85)
                  ELSE IF delta # Null THEN Field(p.observedAt + delta, "computed", IF fromText THEN 50 ELSE 60)
                  ELSE Null,
       timeLeftText |-> Optional(left, "dom", IF fromText THEN 80 ELSE 95), fromText |-> fromText]

\* locations: the location rows, folded: the "located in" runs of the
\* shipping and delivery rows; each [place, disclaimer] or Null.
ReadItemLocation(p) ==
  LET own    == FirstThat(p.locations, LAMBDA l : l # Null /\ ~l.disclaimer)
      folded == FirstThat(p.folded, LAMBDA l : l # Null /\ ~l.disclaimer)
  IN  IF own # Null THEN Field(own.place, "dom", 95)
      ELSE IF folded # Null THEN Field(folded.place, "dom", 80) ELSE Null

\* The watch elements first, the buy box last.
ReadWatcherCount(p) == Optional(FirstThat(Append(p.watchers, p.buyBox["watchers"]), LAMBDA n : n # Null), "dom", 90)

\* quantities: the availability elements' [moreThan, available, lastOne,
\* sold].  "More than 10" is a floor and says so by its confidence.
ReadQuantities(p) ==
  LET states(q)  == q # Null /\ (q.moreThan # Null \/ q.available # Null \/ q.lastOne)
      first      == FirstThat(p.quantities, LAMBDA q : states(q))
      sold       == FirstThat(p.quantities, LAMBDA q : q # Null /\ q.sold # Null)
  IN  [quantityAvailable |-> IF first = Null THEN Null
                             ELSE IF first.moreThan # Null THEN Field(first.moreThan, "dom", 60)
                             ELSE IF first.available # Null THEN Field(first.available, "dom", 95)
                             ELSE Field(1, "dom", 90),
       quantitySold |-> IF sold = Null THEN Null ELSE Field(sold.sold, "dom", 95)]

\* variants: the variant selects, each [options, chosen, static, label]; a
\* prompt ("- Select -") is Null and is neither an option nor a choice.
Variants(p) ==
  IF p.variants = <<>> THEN Null
  ELSE [n \in DOMAIN p.variants |->
          [options |-> Kept(p.variants[n].options, LAMBDA o : o # Null),
           selected |-> IF p.variants[n].chosen > 0 THEN p.variants[n].options[p.variants[n].chosen]
                        ELSE p.variants[n].static]]

SellerWarnings(p, login, slug, seller) ==
     Warn(login = Null /\ p.ldSeller = Null /\ seller # Null, "SELLER_FROM_IFRAME")
\cup Warn(seller = Null, IF slug # Null THEN "SELLER_LOGIN_ID_UNAVAILABLE" ELSE "SELLER")

ShippingWarnings(shipping, parsed, destination) ==
     Warn(shipping = Null, "SHIPPING")
\cup Warn(shipping # Null /\ parsed = Null, "SHIPPING_NOT_AN_AMOUNT")
\cup Warn(FromRange(parsed), "SHIPPING_FROM_RANGE")
\cup Warn(parsed # Null /\ parsed.ambiguousFree, "SHIPPING_MIXED_FREE")
\cup Warn(parsed # Null /\ parsed.currency # "CAD",
          IF ConvertedByPage(parsed) THEN "SHIPPING_CONVERTED_BY_PAGE" ELSE "SHIPPING_FOREIGN_CURRENCY")
\cup Warn(shipping # Null /\ ~destination.verified,
          IF destination.postal = Null THEN "DESTINATION_UNSTATED" ELSE "DESTINATION_DIFFERS")

ListingOf(p, sellers, seller, shipping, format, end) ==
  [itemId |-> ItemId(p), canonicalUrl |-> CanonicalUrl(p), title |-> Title(p), seller |-> seller,
   sellerStoreSlug |-> sellers.slug, itemPrice |-> ItemPrice(p), shipping |-> shipping,
   offer |-> DetectOfferAvailable(p), variants |-> Variants(p), listingStatus |-> DetectListingStatus(p),
   sellingFormat |-> format, end |-> end, itemLocationText |-> ReadItemLocation(p),
   watcherCount |-> ReadWatcherCount(p), quantities |-> ReadQuantities(p),
   warnings |->
        Warn(ItemId(p) = Null, "ITEM_ID")
   \cup Warn(format.kind = "unknown", "SELLING_FORMAT")
   \cup Warn(format.kind \in {"auction", "auction_with_bin"}, "AUCTION_PRICE")
   \cup Warn(Title(p) = Null, "TITLE")
   \cup SellerWarnings(p, sellers.login, sellers.slug, seller)
   \cup Warn(p.ldPrice = Null /\ FromRange(RenderedPrice(p)), "ITEM_PRICE_FROM_RANGE")
   \cup Warn(ItemPrice(p) = Null, "ITEM_PRICE")
   \cup ShippingWarnings(shipping, ParsedShipping(p), Destination(p))
   \cup Warn(end.fromText, "END_TIME_FROM_TEXT")]

ExtractListing(p) ==
  ListingOf(p, Sellers(p), Seller(p), Shipping(p), DetectSellingFormat(p), ReadEndTime(p))
=============================================================================
