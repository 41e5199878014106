----------------------------- MODULE EbayCards ------------------------------
(***************************************************************************)
(* What a search or store page of eBay is read as: the candidate rows its  *)
(* cards give, and what the page says of its total and its next page.      *)
(*                                                                         *)
(* A card is                                                               *)
(*   title, anchor  the title element and the item link's own text, Null   *)
(*                  or [name, badge, seam, says]: a name, the badges in    *)
(*                  front of it (Null for none), whether an element other  *)
(*                  than a badge is nested in it, what the words say       *)
(*   wraps          the item link wraps the whole card                     *)
(*   price, ship, bid, place, seller, badge    elements, Null if absent    *)
(*   format, sold   the format elements and the sold captions, in order    *)
(*   rest           everything else the card says                          *)
(* and every text of a card is a function of CardPatterns (PageText).  A   *)
(* text is taken with its elements apart: where the code runs them         *)
(* together (textContent) only the patterns that need no boundary are      *)
(* meant.                                                                  *)
(***************************************************************************)
EXTENDS EbayMoney

\* "figure" is the first amount of a text, "money" the first that is no
\* shipping figure; "ended" to "converted" are read on a watch list only.
CardPatterns ==
  {"money", "ship", "service", "bids", "auction", "bin", "left", "soldOn", "soldTag", "seller", "place",
   "figure", "ended", "sold", "sellerOffer", "priceDrop", "converted"}

NoWords == Silent(CardPatterns)

\* The raw title: the title element, else the link's own text.
RawTitle(card) == Else(card.title, card.anchor)

Rest(card) ==
  JoinAll(<<card.price, card.bid, card.ship, card.place, card.seller>> \o card.format \o card.sold \o <<card.rest>>, NoWords)

Whole(card) == IF RawTitle(card) = Null THEN Rest(card) ELSE Join(RawTitle(card).says, Rest(card))

\* Only the title as one run of text is taken out: a title with an element
\* nested in it, or a link around the whole card, leaves its words behind.
TextWithoutTitle(card) ==
  LET title == RawTitle(card)
  IN  IF title # Null /\ (title.seam \/ (card.title = Null /\ card.wraps)) THEN Whole(card) ELSE Rest(card)

\* The title in every form it takes, the text of the item links included.
WithoutTitle(card) == IF card.wraps THEN NoWords ELSE Rest(card)

ReadCardSellerWithSource(card) ==
  LET named == IF card.seller = Null THEN Null ELSE card.seller["seller"]
      run   == TextWithoutTitle(card)["seller"]
      read(s, from) == [seller |-> s, source |-> from]
  IN  IF named # Null THEN read(named, "element")
      ELSE IF run # Null THEN read(run, "text") ELSE read(Null, Null)

\* A place phrase is [name, kept, uncut, digit, letters]: its words up to
\* the first word of the next cell, whether that left it whole, whether a
\* digit follows at once, and how many letters remain.
BoundedPlace(phrase) ==
  IF phrase.kept = 0 \/ (phrase.uncut /\ phrase.digit) \/ phrase.letters < 2 THEN Null ELSE phrase.name

ReadCardLocationWithSource(card) ==
  LET phrase  == TextWithoutTitle(card)["place"]
      title   == RawTitle(card)
      inTitle == title # Null /\ title.says["place"] # Null /\ title.says["place"].name = phrase.name
      read(t, from, rejected) == [text |-> t, source |-> from, rejected |-> rejected]
  IN  IF card.place # Null THEN read(card.place["place"].name, "element", Null)
      ELSE IF phrase = Null THEN read(Null, Null, Null)
      ELSE IF inTitle \/ BoundedPlace(phrase) = Null THEN read(Null, Null, phrase.name)
      ELSE read(BoundedPlace(phrase), "text", Null)

\* The first amount of the card's text once the shipping phrases are out.
PriceFromCardText(card, currency) == ParseMoney(TextWithoutTitle(card)["money"], currency)

ReadShippingSnippet(text, currency) ==
  IF text = Null THEN [amount |-> Null, serviceNamed |-> Null]
  ELSE [amount |-> Amount(ParseMoney(text["ship"], currency)), serviceNamed |-> text["service"] # Null]

CardFormatText(card) == IF card.format = <<>> THEN WithoutTitle(card) ELSE JoinAll(card.format, NoWords)

FormatOf(bids, blob, fixed) ==
  LET auction == bids # Null \/ blob["auction"] # Null
      bin     == blob["bin"] # Null
      format(kind, count) == [sellingFormat |-> kind, bidCount |-> count]
  IN  CASE auction /\ bin  -> format("auction_with_bin", bids)
        [] auction /\ ~bin -> format("auction", bids)
        [] ~auction /\ bin -> format("fixed_price", Null)
        [] OTHER -> format(IF fixed THEN "fixed_price" ELSE "unknown", Null)

\* No word of the whole card, its title included, hints at an auction.
Quiet(text) == \A p \in {"bids", "auction", "left"} : text[p] = Null

DetectCardFormat(card, priced, inferFixedPrice) ==
  FormatOf(Else(In(card.bid, "bids"), CardFormatText(card)["bids"]), CardFormatText(card),
           inferFixedPrice /\ priced /\ Quiet(Whole(card)))

\* A caption's date is a day of the month here; 0 stands for one that is not
\* a date.
IsoDateFrom(day) == IF day \in 1..31 THEN day ELSE Null

ReadSoldCaption(card) ==
  LET sources == card.sold \o <<WithoutTitle(card)>>
      dated   == FirstThat(sources, LAMBDA t : t["soldOn"] # Null)
      tagged  == FirstThat(sources, LAMBDA t : t["soldTag"] # Null)
  IN  IF dated # Null THEN [soldText |-> "dated", soldAt |-> IsoDateFrom(dated["soldOn"])]
      ELSE [soldText |-> IF tagged = Null THEN Null ELSE "tag", soldAt |-> Null]

IsNewListingCard(card) == card.badge \/ (RawTitle(card) # Null /\ RawTitle(card).badge # Null)

\* The card of a link: its known container, else the widest of its first
\* five ancestors (rings, from the link outwards) that still describes one
\* listing; a ring is [ids, card].
CardRootFor(link) ==
  IF link.known THEN Last(link.rings).card
  ELSE LET outer == {n \in 2..Len(link.rings) : n <= 6 /\ \A i \in 2..n : link.rings[i].ids <= 1}
       IN  link.rings[IF outer = {} THEN 1 ELSE Max(outer)].card

\* The links below the "fewer words" divider, which is at a place among the
\* links, Null where there is none.
AnchorsBelowRewriteDivider(doc) == {i \in DOMAIN doc.links : doc.divider # Null /\ i > doc.divider}

\* The shipping element, else the shipping phrase of the whole card, which
\* ends at the word shipping and so names no service.
ShippingText(card) ==
  Else(card.ship, IF Whole(card)["ship"] = Null THEN Null ELSE [Whole(card) EXCEPT !["service"] = Null])

\* Where the price was read: its element, else the text of the card.
PriceFrom(element, text) ==
  [snippetPrice |-> Amount(Else(element, text)),
   snippetPriceSource |-> IF element # Null THEN "element" ELSE IF text # Null THEN "text" ELSE Null]
CardPrice(card, currency) ==
  PriceFrom(ParseMoney(In(card.price, "money"), currency), PriceFromCardText(card, currency))

ShippingFrom(shipping) ==
  [shippingSnippetAmount |-> shipping.amount, shippingSnippetServiceNamed |-> shipping.serviceNamed]
LocationFrom(location) ==
  [itemLocationText |-> location.text, itemLocationSource |-> location.source,
   itemLocationRejectedText |-> location.rejected]
SellerAt(seller) == [seller |-> seller.seller, sellerSource |-> seller.source]

CardCandidate(card, currency) ==
  [title |-> CleanTitle(RawTitle(card)), isNewListing |-> IsNewListingCard(card)]
  ++ CardPrice(card, currency)
  ++ ShippingFrom(ReadShippingSnippet(ShippingText(card), currency))
  ++ LocationFrom(ReadCardLocationWithSource(card))
  ++ SellerAt(ReadCardSellerWithSource(card))
  ++ DetectCardFormat(card, CardPrice(card, currency).snippetPrice # Null, TRUE)
  ++ ReadSoldCaption(card)

CandidateOf(doc, i, order) ==
  [itemId |-> doc.links[i].id, order |-> order,
   matchScope |-> IF i \in AnchorsBelowRewriteDivider(doc) THEN "rewrite" ELSE "primary"]
  ++ CardCandidate(CardRootFor(doc.links[i]), MarketplaceCurrencyFor(doc.url.host))

\* The links a selector group matches that name an item, each item once.
RowsOf(doc, group) ==
  LET hits == Kept([i \in DOMAIN doc.links |-> i],
                        LAMBDA i : group \in doc.links[i].groups /\ doc.links[i].id # Null)
  IN  Kept(hits, LAMBDA i : \A j \in Range(hits) : j < i => doc.links[j].id # doc.links[i].id)

\* The first of the four selector groups that yields a candidate decides.
ExtractListingCandidates(doc) ==
  LET groups == {g \in 1..4 : RowsOf(doc, g) # <<>>}
      rows   == IF groups = {} THEN <<>> ELSE RowsOf(doc, Min(groups))
  IN  [n \in DOMAIN rows |-> CandidateOf(doc, rows[n], n - 1)]

(***************************************************************************)
(* The page around the cards.  Its url is [host, page, size, seller]; its  *)
(* count heading [n, plus] or Null; its next controls, in order, [next,    *)
(* disabled, href]; selected is the page its widget marks.                 *)
(***************************************************************************)
\* A stated count below the rendered rows is kept, but not as the total.
CheckedTotalCount(stated, rendered) ==
  [totalResults |-> IF stated # Null /\ stated < rendered THEN Null ELSE stated, statedCount |-> stated]

WithPage(url, page) == [url EXCEPT !.page = page]

ReadPagination(doc) ==
  LET control == FirstThat(doc.controls, LAMBDA c : c.next)
      read(has, url, found, derived) ==
        [hasNextPage |-> has, nextPageUrl |-> url, controlFound |-> found, derived |-> derived]
  IN  IF control = Null THEN read(FALSE, Null, FALSE, FALSE)
      ELSE IF control.disabled THEN read(FALSE, Null, TRUE, FALSE)
      ELSE IF control.href # Null THEN read(TRUE, control.href, TRUE, FALSE)
      ELSE read(TRUE, WithPage(doc.url, Else(doc.url.page, 1) + 1), TRUE, TRUE)

\* The error shell of a search, never declared over rendered rows.
IsErrorStub(doc, rendered) == doc.kind = "search" /\ rendered = 0 /\ doc.errorTitle

CardProvenanceWarnings(rows) ==
  LET some(P(_)) == \E n \in DOMAIN rows : P(rows[n])
      all(P(_))  == \A n \in DOMAIN rows : P(rows[n])
      fromText   == some(LAMBDA r : r.itemLocationSource = "text")
      rejected   == some(LAMBDA r : r.itemLocationRejectedText # Null)
  IN  IF rows = <<>> THEN {}
      ELSE (IF some(LAMBDA r : r.sellerSource = "text") THEN {"CARD_SELLER_SELECTOR_MISSED"}
            ELSE IF all(LAMBDA r : r.seller = Null) THEN {"CARD_SELLER_UNRENDERED"} ELSE {})
        \cup (IF fromText THEN {"CARD_LOCATION_SELECTOR_MISSED"} ELSE {})
        \cup (IF rejected THEN {"CARD_LOCATION_TEXT_REJECTED"}
              ELSE IF ~fromText /\ all(LAMBDA r : r.itemLocationText = Null) THEN {"CARD_LOCATION_UNRENDERED"}
              ELSE {})

\* Whose rows these are: on a seller search a row is the seller's only when
\* its card says so.
SellerWarnings(rows, seller) ==
  LET named == {n \in DOMAIN rows : rows[n].seller # Null}
  IN  IF seller = Null THEN {}
      ELSE (IF \E n \in named : rows[n].seller # seller THEN {"SELLER_SEARCH_ROW_MISMATCH"} ELSE {})
        \cup (IF named # DOMAIN rows THEN {"SELLER_SEARCH_ROWS_UNATTRIBUTED"} ELSE {})

ExtractSearchPageMeta(doc, rows) ==
  LET stub      == IsErrorStub(doc, Len(rows))
      stated    == IF doc.count = Null THEN Null ELSE doc.count.n
      floor     == doc.count # Null /\ doc.count.plus
      total     == CheckedTotalCount(stated, Len(rows)).totalResults
      paging    == ReadPagination(doc)
      requested == doc.url.page
      current   == Else(doc.selected, requested)
      size      == doc.url.size
      clamped   == /\ requested # Null
                   /\ \/ doc.selected # Null /\ doc.selected < requested
                      \/ requested > 1 /\ total # Null /\ ~floor /\ size # Null /\ total <= (requested - 1) * size
      has       == IF paging.controlFound THEN paging.hasNextPage ELSE Null
      short     == total # Null /\ ~floor /\ has = FALSE /\ size # Null /\ total > Else(current, 1) * size
  IN  [totalResults |-> total, statedCount |-> stated, currentPage |-> current, requestedPage |-> requested,
       hasNextPage |-> IF clamped THEN FALSE ELSE has, nextPageUrl |-> IF clamped THEN Null ELSE paging.nextPageUrl,
       sellerQuery |-> IF doc.kind = "search" THEN doc.url.seller ELSE Null,
       warnings |->
            Warn(stated # Null /\ total = Null, "SEARCH_TOTAL_REJECTED")
       \cup Warn(stated = Null /\ ~stub, "SEARCH_TOTAL_UNSTATED")
       \cup Warn(floor /\ total # Null, "SEARCH_TOTAL_LOWER_BOUND")
       \cup Warn(paging.derived, "SEARCH_NEXT_URL_DERIVED")
       \cup Warn(clamped, "SEARCH_PAGE_CLAMPED")
       \cup Warn(~clamped /\ has = Null /\ ~stub, "SEARCH_PAGINATION_UNSTATED")
       \cup Warn(~clamped /\ short, "SEARCH_PAGINATION_DISAGREES")
       \cup Warn(\E n \in DOMAIN rows : rows[n].matchScope = "rewrite", "SEARCH_REWRITE_ROWS")
       \cup SellerWarnings(rows, IF doc.kind = "search" THEN doc.url.seller ELSE Null)
       \cup CardProvenanceWarnings(rows)]
=============================================================================
