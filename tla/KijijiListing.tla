--------------------------- MODULE KijijiListing ----------------------------
(***************************************************************************)
(* The ad page of Kijiji.  The page is a record of what each place holds,  *)
(* Null for nothing, with amounts in cents; the fields are described where *)
(* they are read.  ask is what the caller asks of the ad body: the size of *)
(* a window (maxChars, Null for none) and where it starts (offset).        *)
(***************************************************************************)
EXTENDS KijijiCards

CONSTANTS ExcerptChars, MaxChars, FiguresMax, AttributesMax, PlausibleMin

Field(value, source, confidence) == [value |-> value, source |-> source, confidence |-> confidence]
Optional(value, source, confidence) == IF value = Null THEN Null ELSE Field(value, source, confidence)

FirstOf(seq) == FirstThat(seq, LAMBDA x : x # Null)

\* urls: canonical link, address, og:url, JSON-LD offer, each [ad, onSite].
\* An address that is the offer's own counts as JSON-LD.
AdId(p) ==
  LET url == FirstThat(p.urls, LAMBDA u : u # Null /\ u.ad # Null)
  IN  IF url # Null THEN Field(url.ad, IF url = p.urls[4] THEN "jsonld" ELSE "dom", 100)
      ELSE Optional(p.sku, "jsonld", 100)

\* The slugs of an ad's path cannot be rebuilt: an observed url is kept.
CanonicalAdUrl(p) ==
  LET url == FirstThat(<<p.urls[1], p.urls[3], p.urls[2]>>, LAMBDA u : u # Null /\ u.onSite)
  IN  IF AdId(p) = Null THEN Null ELSE Optional(url, "computed", 100)

Title(p) ==
  IF p.ldName # Null THEN Field(p.ldName, "jsonld", 98)
  ELSE IF p.title # Null THEN Field(p.title, "dom", 99) ELSE Optional(p.ogTitle, "meta", 90)

\* The entry of the ad in the hydration cache: [amount, currency, poster,
\* activated, images], each Null where the entry does not state it.
EntryOf(p, id) == IF p.cache = Null \/ id = Null \/ id.value \notin DOMAIN p.cache.ads THEN Null ELSE p.cache.ads[id.value]
Cached(p) == EntryOf(p, AdId(p))
ApolloPriceAmount(p) == IF In(Cached(p), "amount") = Null THEN Null
                        ELSE [amount |-> Cached(p).amount, currency |-> Cached(p).currency]
ApolloPosterId(p) == In(Cached(p), "poster")
ApolloImageUrls(p) == In(Cached(p), "images")

\* priceEls: the price elements, each [cell, content].  JSON-LD gives way to
\* the amount the page states for this ad, and is no price when it is 0.
LdPriced(p) == p.ldPrice # Null /\ p.ldPrice > 0

Truncates(p, stated) ==
  LdPriced(p) /\ stated # Null /\ stated.currency \in {Null, "CAD"} /\ stated.amount # p.ldPrice
PriceTruncated(p) == Truncates(p, ApolloPriceAmount(p))

PriceOf(p, stated, shown) ==
  LET price(cell, source, confidence) == cell ++ [source |-> source, confidence |-> confidence]
      amount(value) == [kind |-> "amount", value |-> value]
  IN  IF LdPriced(p)
      THEN IF Truncates(p, stated) THEN price(amount(stated.amount), "dom", 97) ELSE price(amount(p.ldPrice), "jsonld", 98)
      ELSE IF shown = Null THEN Null
      ELSE IF ParseKijijiPrice(shown.cell) # Null THEN price(ParseKijijiPrice(shown.cell), "dom", 99)
      ELSE price(amount(shown.content), "dom", 95)

Price(p) ==
  PriceOf(p, ApolloPriceAmount(p), FirstThat(p.priceEls, LAMBDA e : ParseKijijiPrice(e.cell) # Null \/ e.content # Null))

\* ldPlaces, places, scopes, locality.  A place is [city, fsa], a scope [line,
\* code]; the third-party blurb is nobody's location.
Location(p) ==
  LET element == FirstThat(p.places, LAMBDA l : l # Null /\ ~l.blurb)
      scope   == FirstThat(p.scopes, LAMBDA s : s.line # Null \/ s.code # Null)
  IN  IF FirstOf(p.ldPlaces) # Null THEN Field(FirstOf(p.ldPlaces), "jsonld", 97)
      ELSE IF element # Null THEN Field(element.place, "dom", 95)
      ELSE IF scope = Null THEN Optional(p.locality, "meta", 70)
      ELSE IF scope.line # Null THEN Field(scope.line, "dom", 90) ELSE Field(scope.code, "dom", 75)

\* Toronto's codes start with M and no other city's do.
FsaOutsideToronto(place) == place # Null /\ place.city = "Toronto" /\ place.fsa \notin {Null, "M"}

\* posted: the dates JSON-LD, the time element and then the cache state.
PostedAt(p) == Else(FirstOf(p.ldPosted), Else(p.timeStamp, In(Cached(p), "activated")))
PostedText(p) == Else(p.timeText, FirstOf(p.postedTexts))

\* AnySellerName: a variant to which an initial is a name.
AnySellerName(raw) == raw # Null

\* A name is [name, monogram, long, control]; an avatar's initial, a name too
\* long to be one and the "View all listings" label are none.
PlausibleSellerName(raw) == raw # Null /\ ~raw.monogram

\* sellerEls: the elements, each its <<title, aria-label, text>>.
SellerName(p) ==
  LET best(el) == FirstThat(el, PlausibleSellerName)
      el       == FirstThat(p.sellerEls, LAMBDA e : best(e) # Null /\ ~best(e).long /\ ~best(e).control)
  IN  IF p.ldSeller # Null THEN Field(p.ldSeller, "jsonld", 95)
      ELSE IF el = Null THEN Null ELSE Field(best(el).name, "dom", 90)

\* profiles: the links to the poster's listings, each [poster, count], with
\* the count only on the labelled one.
SellerListings(p) ==
  LET labelled == FirstThat(p.profiles, LAMBDA a : a.count # Null)
      link     == Else(labelled, IF p.profiles = <<>> THEN Null ELSE Head(p.profiles))
      id       == IF ApolloPosterId(p) # Null THEN Field(ApolloPosterId(p), "dom", 98)
                  ELSE Optional(In(link, "poster"), "dom", 95)
  IN  [id |-> id, count |-> In(labelled, "count"),
       url |-> IF link # Null THEN Field(link.poster, "dom", IF labelled = Null THEN 90 ELSE 97)
               ELSE Optional(In(id, "value"), "computed", 80)]

(***************************************************************************)
(* The ad's body: [length, figures, place, mls], the place it names, the   *)
(* amounts it states, each [amount, shipping].                             *)
(***************************************************************************)
Body(p) == Else(p.ldBody, FirstOf(p.bodies))

BodyPriceFigures(body) ==
  IF body = Null THEN <<>>
  ELSE LET asked == Kept(body.figures, LAMBDA f : ~f.shipping /\ f.amount > 0)
       IN  [n \in 1..Min({FiguresMax, Len(asked)}) |-> asked[n].amount]

RequestedDescriptionChars(ask) ==
  IF ask.maxChars = Null THEN Null ELSE Min({MaxChars, Max({ExcerptChars, ask.maxChars})})
RequestedDescriptionOffset(ask) == Max({0, Else(ask.offset, 0)})

\* The window is served only of a body longer than the excerpt.
Pages(body, ask) == body.length > ExcerptChars /\ RequestedDescriptionChars(ask) # Null
BeyondEnd(body, ask) == Pages(body, ask) /\ RequestedDescriptionOffset(ask) >= body.length

DescriptionFull(body, ask) ==
  LET from == RequestedDescriptionOffset(ask)
  IN  IF ~Pages(body, ask) \/ BeyondEnd(body, ask) THEN Null
      ELSE [offset |-> from, upTo |-> Min({body.length, from + RequestedDescriptionChars(ask)}),
            totalChars |-> body.length]

\* WindowSize: a variant that forgets where the window starts.
WindowSize(body, ask) ==
  IF DescriptionFull(body, ask) = Null THEN ExcerptChars ELSE RequestedDescriptionChars(ask)

ReturnedEnd(body, ask) ==
  IF DescriptionFull(body, ask) = Null THEN ExcerptChars ELSE DescriptionFull(body, ask).upTo

(***************************************************************************)
(* The attribute table: groups of rows in three shapes, paragraph pairs,   *)
(* definitions and list items.  A row is [label, value, size, sqft, by]:   *)
(* size marks the floor-area label and sqft its figure, by the seller type *)
(* a "for sale by" row names.                                              *)
(***************************************************************************)
TableRows(rows) ==
  LET full == Kept(rows, LAMBDA r : r.label # Null /\ r.value # Null)
  IN  SubSeq(full, 1, Min({AttributesMax, Len(full)}))

\* The first group, and of it the first shape, that yields a row.
RowsOfGroup(group) ==
  FirstThat(<<TableRows(group.pairs), TableRows(group.terms), TableRows(group.items)>>, LAMBDA rows : rows # <<>>)
ExtractAttributes(p) == Else(FirstOf([n \in DOMAIN p.groups |-> RowsOfGroup(p.groups[n])]), <<>>)

SizeSqft(rows) ==
  LET row == FirstThat(rows, LAMBDA r : r.size)
  IN  IF row = Null \/ row.sqft = Null THEN Null
      ELSE Field(row.sqft, "dom", IF row.sqft < PlausibleMin THEN 50 ELSE 95)

\* badge: what the about-seller block's short leaf texts say.
SellerType(p) ==
  Else(In(FirstThat(ExtractAttributes(p), LAMBDA r : r.by # Null), "by"), Else(p.badge, "unknown"))

\* The cache knows every image; JSON-LD stops at four and the gallery shows
\* each one twice.  galleries: per selector the set of distinct photos.
ImageCount(p) ==
  LET gallery == FirstThat(p.galleries, LAMBDA g : g # {})
  IN  Else(ApolloImageUrls(p), Else(p.ldImages, IF gallery = Null THEN Null ELSE Cardinality(gallery)))

\* StatusByProse: a variant that believes the prose of a live ad.
StatusByProse(p) ==
  LET says == Else(p.banners, p.lead)
  IN  IF "deleted" \in says THEN "deleted" ELSE IF "expired" \in says THEN "expired" ELSE "active"

\* banners: the markers of the status elements, Null when none has text;
\* lead: those of the page's visible text.  What no banner says is believed
\* only of a page that does not look like a live ad.
DetectKijijiListingStatus(p) ==
  LET says    == Else(p.banners, p.lead)
      priced  == \E n \in DOMAIN p.priceEls : p.priceEls[n].cell # Null
      live    == p.replyForm /\ priced
      matched == IF "deleted" \in says THEN "deleted" ELSE IF "expired" \in says THEN "expired" ELSE Null
  IN  IF matched # Null /\ (p.banners # Null \/ ~live) THEN matched
      ELSE IF p.title # Null /\ priced THEN "active" ELSE "unknown"

IdWarnings(p) ==
     Warn(AdId(p) = Null, "AD_ID")
\cup Warn(AdId(p) # Null /\ CanonicalAdUrl(p) = Null, "CANONICAL_URL")
\cup Warn(Title(p) = Null, "TITLE")

PriceWarnings(p, price) ==
     Warn(PriceTruncated(p), "PRICE_JSONLD_TRUNCATED")
\cup Warn(LdPriced(p) /\ p.ldCurrency \notin {Null, "CAD"}, "PRICE_CURRENCY")
\cup Warn(price = Null, "PRICE")

PlaceWarnings(location, body) ==
  LET place == In(location, "value")
  IN  Warn(In(location, "confidence") \in {75, 90}, "LOCATION_FROM_SIDEBAR")
 \cup Warn(In(location, "source") = "meta", "LOCATION_NAMES_REGION")
 \cup Warn(place = Null, "LOCATION")
 \cup Warn(FsaOutsideToronto(place), "LOCATION_FSA_OUTSIDE_NAMED_CITY")
 \cup Warn(In(body, "place") # Null /\ (place = Null \/ place.city # body.place), "LOCATION_BODY_NAMES_PLACE")

\* listed is the amount of the price, Null where it is none.
BodyWarnings(body, ask, figures, listed) ==
     Warn(body # Null /\ BeyondEnd(body, ask), "DESCRIPTION_OFFSET_BEYOND_END")
\cup Warn(body # Null /\ body.length > ReturnedEnd(body, ask) /\ ~BeyondEnd(body, ask), "DESCRIPTION_TRUNCATED")
\cup Warn(figures # <<>> /\ listed = Null, "PRICE_STATED_IN_BODY_ONLY")
\cup Warn(listed # Null /\ \E n \in DOMAIN figures : figures[n] # listed, "BODY_PRICES_DIFFER_FROM_LISTED")

SellerWarnings(p, body, seller) ==
  Warn(SellerName(p) = Null,
       IF body # Null /\ body.mls THEN "SELLER_UNRESOLVED_SYNDICATED"
       ELSE IF seller.id # Null THEN "SELLER_NAME_UNRESOLVED_ID_KNOWN" ELSE "SELLER_NAME")

SizeWarnings(rows, size) ==
     Warn(\E n \in DOMAIN rows : rows[n].size /\ size = Null, "SIZE_SQFT_UNPARSEABLE")
\cup Warn(In(size, "confidence") = 50, "SIZE_SQFT_IMPLAUSIBLE")

KijijiListing(p, ask, body, price, location, rows, seller) ==
  [adId |-> AdId(p), canonicalUrl |-> CanonicalAdUrl(p), title |-> Title(p), price |-> price,
   location |-> location, postedAt |-> PostedAt(p), postedText |-> PostedText(p),
   sellerName |-> SellerName(p), sellerType |-> SellerType(p), seller |-> seller,
   descriptionFull |-> IF body = Null THEN Null ELSE DescriptionFull(body, ask),
   bodyPriceFigures |-> BodyPriceFigures(body), attributes |-> rows, sizeSqft |-> SizeSqft(rows),
   imageCount |-> ImageCount(p), listingStatus |-> DetectKijijiListingStatus(p),
   warnings |->
        IdWarnings(p)
   \cup PriceWarnings(p, price)
   \cup PlaceWarnings(location, body)
   \cup Warn(PostedAt(p) = Null /\ PostedText(p) # Null, "POSTED_AT_UNPARSED")
   \cup BodyWarnings(body, ask, BodyPriceFigures(body), IF In(price, "kind") = "amount" THEN price.value ELSE Null)
   \cup SellerWarnings(p, body, seller)
   \cup SizeWarnings(rows, SizeSqft(rows))]

ExtractKijijiListing(p, ask) ==
  KijijiListing(p, ask, Body(p), Price(p), Location(p), ExtractAttributes(p), SellerListings(p))
=============================================================================
