---------------------------- MODULE RenderedPages ----------------------------
(***************************************************************************)
(* What is on sale, and the pages a site may show of it: a page of one     *)
(* thing, or a list of two.  What is true of a thing does not change; a    *)
(* site moves a field to another place, leaves one out, or puts beside it  *)
(* what looks like it (another seller's link, a disclaimer, a word of the  *)
(* title), on every row of a list or on one only.  The readers see the     *)
(* page only.                                                              *)
(*                                                                         *)
(* A page starts as its plain rendering and changes one feature at a time, *)
(* up to MaxChanges of them; every page on the way is read.                *)
(***************************************************************************)
EXTENDS PageReading

CONSTANTS
  Plain,        \* the features of a plain page, by kind
  Ways,         \* other ways to render a feature, by kind and feature
  Truth,        \* what is true of the thing on sale, by kind and field
  MaxChanges

\* A page's features are not its site's or its kind, and a page has the places
\* its reader looks at for a quote's destination and for an ad's status.
\* A null is no status.
ASSUME PlainAssumption ==
  /\ Null \notin {"deleted", "expired"}
  /\ \A k \in DOMAIN Plain : DOMAIN Plain[k] \cap {"site", "kind", "challenge"} = {}
  /\ "item" \in DOMAIN Plain => {"live", "expected", "delivery", "shipTo"} \subseteq DOMAIN Plain["item"]
  /\ "ad" \in DOMAIN Plain => {"banners", "lead", "replyForm", "priceEls", "title"} \subseteq DOMAIN Plain["ad"]

VARIABLES
  kind,         \* the kind of page that is shown, Null for none
  features,     \* the features of each thing the page shows
  changed,
  reading       \* what browser_extract has answered to it

pageVars == <<kind, features, changed, reading>>

\* A list shows two things, one under the other; any other page shows one.
Things(k) == IF k \in {"card", "watched", "offer"} THEN 1..2 ELSE {1}
ItemIds == <<"i1", "i2">>

(***************************************************************************)
(* The page a reader gets.  A card has its row's features; the page around *)
(* the cards has no features of its own.                                   *)
(***************************************************************************)
Link(n, card) == [id |-> ItemIds[n], groups |-> {1, 4}, known |-> TRUE, rings |-> <<[ids |-> 1, card |-> card]>>]

Around(rows) ==
  [links |-> [n \in Things("card") |-> Link(n, rows[n])], rows |-> [n \in Things("card") |-> rows[n] ++ [id |-> ItemIds[n]]],
   divider |-> Null, count |-> [n |-> 2, plus |-> FALSE],
   controls |-> <<[next |-> TRUE, disabled |-> TRUE, href |-> Null]>>, selected |-> 1, chips |-> <<>>,
   errorTitle |-> FALSE, soldAsked |-> FALSE, summary |-> FALSE, signInWall |-> FALSE, allChip |-> Null,
   labels |-> <<[form |-> "label", count |-> 2, all |-> TRUE, chip |-> FALSE]>>, bodyItems |-> Null,
   url |-> [host |-> "ebay.ca", page |-> Null, size |-> 60, seller |-> Null]]

Document(k, f) ==
  CASE k = "item"    -> f[1] ++ [site |-> "ebay", kind |-> "listing", challenge |-> FALSE]
    [] k = "ad"      -> f[1] ++ [site |-> "kijiji", kind |-> "listing", challenge |-> FALSE]
    [] k = "product" -> f[1] ++ [site |-> "zazzle", kind |-> "product", challenge |-> FALSE]
    [] k = "card"    -> Around(f) ++ [site |-> "ebay", kind |-> "search", challenge |-> FALSE]
    [] k = "watched" -> Around(f) ++ [site |-> "ebay", kind |-> "watchlist", challenge |-> FALSE]
    [] k = "offer"   -> Around(f) ++ [site |-> "ebay", kind |-> "offers", challenge |-> FALSE]

Reading(k, f) == ExecuteExtract(Document(k, f), FALSE, [maxChars |-> Null, offset |-> Null], Null, Null)

PagesInit ==
  /\ kind \in DOMAIN Plain
  /\ features = [n \in Things(kind) |-> Plain[kind]]
  /\ changed = {}
  /\ reading = Reading(kind, features)

\* The page shows these things in this way of a feature, and is read.
Show(some, f, way) ==
  /\ features' = [n \in DOMAIN features |-> IF n \in some THEN [features[n] EXCEPT ![f] = way] ELSE features[n]]
  /\ reading' = Reading(kind, features')

\* The site renders one more feature in another way, on the first row of a
\* list or on both.
Render ==
  /\ kind # Null /\ Cardinality(changed) < MaxChanges
  /\ \E f \in DOMAIN Ways[kind] \ changed, some \in {{1}, DOMAIN features} :
       /\ \E way \in Ways[kind][f] : Show(some, f, way)
       /\ changed' = changed \cup {f}
  /\ kind' = kind

PagesSpec == PagesInit /\ [][Render]_pageVars

(***************************************************************************)
(* What the reading says of a thing, field by field, Null where it says    *)
(* nothing.                                                                *)
(***************************************************************************)
LOCAL ValueOf(field) == IF field = Null THEN Null ELSE field.value

Said(n) ==
  LET r   == reading.record
      row == r.candidates[n]
  IN  CASE kind = "item" ->
             [id |-> ValueOf(r.itemId), title |-> ValueOf(r.title), seller |-> ValueOf(r.seller),
              price |-> ValueOf(ValueOf(r.itemPrice)), endsAt |-> ValueOf(r.end.endsAt), place |-> ValueOf(r.itemLocationText),
              watchers |-> ValueOf(r.watcherCount), quantity |-> ValueOf(r.quantities.quantityAvailable),
              shipping |-> IF r.shipping = Null \/ r.shipping.currency # "CAD" THEN Null ELSE r.shipping.value,
              format |-> IF r.sellingFormat.confidence = 90 THEN r.sellingFormat.kind ELSE Null,
              variant |-> IF r.variants = Null THEN Null ELSE r.variants[1].selected]
        [] kind = "ad" ->
             [id |-> ValueOf(r.adId), url |-> IF r.canonicalUrl = Null THEN Null ELSE r.canonicalUrl.value.ad,
              title |-> ValueOf(r.title), price |-> ValueOf(r.price),
              city |-> IF r.location = Null THEN Null ELSE r.location.value.city, postedAt |-> r.postedAt,
              seller |-> ValueOf(r.sellerName), poster |-> ValueOf(r.seller.id), size |-> ValueOf(r.sizeSqft),
              sellerType |-> IF r.sellerType = "unknown" THEN Null ELSE r.sellerType, images |-> r.imageCount]
        [] kind = "product" ->
             [id |-> r.productId, title |-> ValueOf(r.title), price |-> ValueOf(r.listedPrice),
              url |-> IF r.canonicalUrl = Null THEN Null ELSE r.canonicalUrl.value.product,
              currency |-> IF r.listedPrice = Null THEN Null ELSE r.listedPrice.currency,
              original |-> ValueOf(r.originalPrice)]
        [] kind = "card" ->
             [id |-> row.itemId, title |-> row.title, price |-> ValueOf(row.snippetPrice),
              shipping |-> ValueOf(row.shippingSnippetAmount), place |-> row.itemLocationText, seller |-> row.seller,
              format |-> IF row.sellingFormat = "unknown" THEN Null ELSE row.sellingFormat, bids |-> row.bidCount,
              sold |-> row.soldText]
        [] kind = "watched" ->
             [id |-> row.itemId, title |-> row.title, price |-> ValueOf(row.snippetPrice), seller |-> row.seller,
              shipping |-> ValueOf(row.shippingSnippetAmount), timeLeft |-> row.timeLeftText,
              format |-> IF row.sellingFormat = "unknown" THEN Null ELSE row.sellingFormat, bids |-> row.bidCount,
              status |-> IF row.watchlistStatus = "unknown" THEN Null ELSE row.watchlistStatus, endsAt |-> row.endsAt]
        [] kind = "offer" ->
             [id |-> row.itemId, title |-> row.title, offer |-> ValueOf(row.offerPrice), ask |-> ValueOf(row.listPrice),
              direction |-> IF row.direction = "unknown" THEN Null ELSE row.direction,
              status |-> IF row.offerStatus = "unknown" THEN Null ELSE row.offerStatus, seller |-> row.seller]

(***************************************************************************)
(* Properties.                                                             *)
(***************************************************************************)
\* What is true of the n-th thing: two things of a list differ in what they are.
True(n, field) == IF field = "id" /\ kind \in {"card", "watched", "offer"} THEN ItemIds[n] ELSE Truth[kind][field]

\* A warning tells the caller not to trust a field of the page, or the row
\* itself does, which says where its value was read.
Doubts(n, field) ==
  LET row == reading.record.candidates[n]
      warned(names) == names \cap reading.warnings # {}
  IN  CASE kind = "card" /\ field = "seller"    -> row.sellerSource = "text" /\ warned({"CARD_SELLER_SELECTOR_MISSED"})
        [] kind = "card" /\ field = "price"     -> row.snippetPriceSource = "text" /\ warned({"SNIPPET_PRICE_FROM_CARD_TEXT"})
        [] kind = "card" /\ field = "shipping"  -> warned({"SHIPPING_SNIPPET_SERVICE_UNLABELLED"})
        [] kind = "ad" /\ field = "price"       -> warned({"BODY_PRICES_DIFFER_FROM_LISTED"})
        [] kind = "watched" /\ field = "price"  -> row.snippetPriceSource = "text"
        [] kind = "offer" /\ field = "ask"      -> warned({"OFFERS_SINGLE_AMOUNT_IS_ASK", "OFFERS_AMOUNTS_ORDERED_BY_VALUE"})
        [] kind = "offer" /\ field = "offer"    -> warned({"OFFERS_AMOUNTS_ORDERED_BY_VALUE"})
        [] kind = "offer" /\ field = "status"   -> warned({"OFFERS_NO_OFFER_THREAD"})
        [] OTHER -> FALSE

\* Where a reader takes what is not the thing's own for its own and says
\* nothing of it:
\*   an ad's truncated JSON-LD amount, where the cache states none: the
\*     rendered price beside it is not compared (kijiji extract.ts:843-900);
\*   a foreign profile link that is an ad's first, where neither the cache nor
\*     a labelled link names the poster (kijiji extract.ts:1071-1092);
\*   another seller's /usr/ link on an item page whose own seller card links a
\*     store only (ebay extract.ts:104-111, 868-883);
\*   the words of a title, on a signed-in page: a state, and a countdown or a
\*     shipping figure that has no element (myebay.ts:704-724, 825-829); on an
\*     offer row the ask that has no element, the state that has no token, the
\*     sender (myebay.ts:1141-1164); on a search card free shipping that has
\*     no element (traversal.ts:481).
TakesForItsOwn(n, field) ==
  LET f == features[n]
      titled(p) == f.title # Null /\ f.title.says[p] # Null
      titleSays == IF f.title = Null THEN {} ELSE f.title.says
  IN  CASE kind = "ad" /\ field = "price"  -> f.ldPrice \notin {Null, 0, True(n, field)} /\ ApolloPriceAmount(f) = Null
        [] kind = "ad" /\ field = "poster" ->
             /\ ApolloPosterId(f) = Null /\ \A i \in DOMAIN f.profiles : f.profiles[i].count = Null
             /\ f.profiles # <<>> /\ Head(f.profiles).poster # True(n, field)
        [] kind = "item" /\ field = "seller" ->
             /\ \A i \in DOMAIN f.sellers[1] : f.sellers[1][i].usr = Null
             /\ \E i \in DOMAIN f.sellers[2] : f.sellers[2][i].usr \notin {Null, True(n, field)}
        [] kind = "card" /\ field = "shipping"    -> f.ship = Null /\ titled("ship")
        [] kind = "watched" /\ field = "shipping" -> f.ship = Null /\ titled("ship")
        [] kind = "watched" /\ field = "status"   -> titled("sold") \/ titled("ended")
        [] kind = "watched" /\ field \in {"timeLeft", "endsAt"} -> titled("left") /\ In(f.timer, "left") = Null
        [] kind = "offer" /\ field = "ask"        -> f.cell = Null /\ f.title # Null /\ f.title.figures # <<>>
        [] kind = "offer" /\ field = "status"     -> f.token = Null /\ titleSays \cap Range(E!OfferStates) # {}
        [] kind = "offer" /\ field = "direction"  -> titleSays \cap {"fromSeller", "fromYou"} # {}
        [] OTHER -> FALSE

\* Whatever a site leaves out, moves or puts beside it, on one row or on all, a
\* reader never states a value that is not the thing's own, unless a warning or
\* the row itself doubts it: of a search card no word of the title is its
\* seller's, its place, its format or its state, of any page no blurb, initial
\* or other seller's link is the thing's (traversal.ts:307-311).  The cases
\* TakesForItsOwn lists, each by its lines, are not claimed.
NothingFalseIsRead ==
  kind # Null =>
    \A n \in DOMAIN features : LET said == Said(n) IN
      \A field \in DOMAIN Truth[kind] :
        said[field] \in {Null, True(n, field)} \/ Doubts(n, field) \/ TakesForItsOwn(n, field)

\* The fields a routine buys, ranks or replies on, with the warnings that say
\* that one of them was not read.
Announces ==
  CASE kind = "item" ->
         [id |-> {"ITEM_ID"}, title |-> {"TITLE"}, seller |-> {"SELLER", "SELLER_LOGIN_ID_UNAVAILABLE"},
          price |-> {"ITEM_PRICE"}, shipping |-> {"SHIPPING", "SHIPPING_NOT_AN_AMOUNT", "SHIPPING_FOREIGN_CURRENCY"}]
    [] kind = "ad" ->
         [id |-> {"AD_ID"}, url |-> {"AD_ID", "CANONICAL_URL"}, title |-> {"TITLE"}, price |-> {"PRICE"},
          city |-> {"LOCATION"},
          seller |-> {"SELLER_UNRESOLVED_SYNDICATED", "SELLER_NAME_UNRESOLVED_ID_KNOWN", "SELLER_NAME"}]
    [] kind = "product" -> [price |-> {"LISTED_PRICE"}, currency |-> {"LISTED_PRICE", "PRICE_CURRENCY_UNSTATED"}]
    [] kind = "card" ->
         [seller |-> {"CARD_SELLER_UNRENDERED"}, place |-> {"CARD_LOCATION_UNRENDERED", "CARD_LOCATION_TEXT_REJECTED"}]
    [] kind = "watched" ->
         [title |-> {"WATCHLIST_FIELDS_NULL: title"}, price |-> {"WATCHLIST_FIELDS_NULL: snippetPrice"},
          seller |-> {"WATCHLIST_FIELDS_NULL: seller"}, timeLeft |-> {"WATCHLIST_FIELDS_NULL: timeLeftText"},
          shipping |-> {"WATCHLIST_FIELDS_NULL: shippingSnippetText"},
          format |-> {"WATCHLIST_FORMAT_UNSTATED"}, status |-> {"WATCHLIST_STATUS_UNSTATED"}]
    [] kind = "offer" ->
         [title |-> {"OFFERS_FIELDS_NULL: title"}, offer |-> {"OFFERS_FIELDS_NULL: offerPrice"},
          seller |-> {"OFFERS_FIELDS_NULL: seller"},
          direction |-> {"OFFERS_DIRECTION_UNKNOWN", "OFFERS_NO_OFFER_THREAD", "OFFERS_BID_ROWS"}]

\* Fields whose warning counts the rows that do not state them.
CountedByRow ==
  CASE kind = "watched" -> {"format", "status"} [] kind = "offer" -> {"direction"} [] OTHER -> {}

\* Selectors that have come loose are not silent: a field that no row of the
\* page states is announced, by a warning that names it, and so is a format, a
\* status or a sender that a single row does not state.  (Of any other field
\* that some rows state and others do not the readers say nothing:
\* nullCountsWarning, myebay.ts:733-740, and CARD_*_UNRENDERED ask of all rows.)
UnreadFieldsAreAnnounced ==
  kind # Null =>
    LET said == [n \in DOMAIN features |-> Said(n)]
    IN  \A field \in DOMAIN Announces :
          LET unread == {n \in DOMAIN features : said[n][field] = Null}
          IN  unread = DOMAIN features \/ (field \in CountedByRow /\ unread # {})
                => Announces[field] \cap reading.warnings # {}

\* The destination a page shows: the code the destination flow read back where
\* it ran and read one, else the one its delivery rows name first.
ShownDestination ==
  IF features[1].live # Null /\ features[1].live.code # Null THEN features[1].live.code
  ELSE FirstThat(features[1].delivery \o features[1].shipTo, LAMBDA code : code # Null)

\* A shipping quote marked verified was quoted to the buyer's own postal code,
\* by the page that quotes it and by the flow that set it, where that ran.
VerifiedNamesTheBuyersCode ==
  kind = "item" =>
    LET shipping == reading.record.shipping
    IN  shipping # Null /\ shipping.destinationVerified =>
          /\ features[1].expected \in L!PostalCodes
          /\ ShownDestination = features[1].expected
          /\ shipping.destinationPostalCode = features[1].expected
          /\ features[1].live = Null \/ features[1].live.code = Null \/ features[1].live.verified

AskedFor == [site |-> "kijiji", page |-> "listing", ad |-> "a1"]

\* A batch retires an ad for what a status element says, or for landing on a
\* search, and never one that can still be answered for what its prose says.
OnlyDeadAdsAreRetired ==
  kind = "ad" =>
    LET says(marker) == features[1].banners # Null /\ marker \in features[1].banners
        live == features[1].replyForm /\ \E n \in DOMAIN features[1].priceEls : features[1].priceEls[n].cell # Null
    IN  /\ DeadListing(AskedFor, AskedFor, reading.record) => says("deleted") \/ ~live
        /\ says("deleted") => DeadListing(AskedFor, AskedFor, reading.record)
=============================================================================
