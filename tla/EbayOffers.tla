----------------------------- MODULE EbayOffers -----------------------------
(***************************************************************************)
(* The bids and offers page.  A row is                                     *)
(*   id, title     the item its link names, and its title, Null for none   *)
(*                 or [name, figures, says] with what its words add to the *)
(*                 figures and the says of the row                         *)
(*   figures       its amounts in the order of its text, each [is, value,  *)
(*                 currency] with is "offer" for an amount an offer wording*)
(*                 leads to, "ship" for a shipping figure, else "plain"    *)
(*   cell          the amount of its price element, or Null                *)
(*   token         the status token at its head, or Null                   *)
(*   says          what its free text says: a state of OfferStates; who    *)
(*                 sent the offer ("fromSeller", "fromYou"); "maxBid", the *)
(*                 Best Offer "control", a link into the offer's "thread"  *)
(*                 ("threadEarly" where the snippet still shows it), and   *)
(*                 expiry-like wording the reader does not parse, "hint"   *)
(*   expires       [dated, in] as its expiry wording is read, or Null      *)
(*   users, named, feedback, linked    as on a watch-list card             *)
(***************************************************************************)
EXTENDS MyEbay

TokenStatus ==
  [received |-> "open", sent |-> "open", expired |-> "expired", accepted |-> "accepted", declined |-> "declined",
   countered |-> "countered", retracted |-> "retracted", withdrawn |-> "retracted"]

\* The order in which the free text is tried for a state.
OfferStates == <<"accepted", "declined", "expired", "retracted", "countered", "open">>

Money(figure) == [value |-> figure.value, currency |-> figure.currency]

\* A row's title is part of its text, and comes first.
Figures(row) == IF row.title = Null THEN row.figures ELSE row.title.figures \o row.figures
Says(row) == IF row.title = Null THEN row.says ELSE row.title.says \cup row.says

\* The distinct amounts of a row that are no shipping figure, four at most.
RowFigures(row) ==
  LET shown == Kept(Figures(row), LAMBDA f : f.is # "ship")
      first == Kept([n \in DOMAIN shown |-> n],
                         LAMBDA n : \A m \in 1..(n - 1) : Money(shown[m]) # Money(shown[n]))
  IN  SubSeq([n \in DOMAIN first |-> Money(shown[first[n]])], 1, Min({4, Len(first)}))

\* The first amount of the row's text once the labelled offer is out of it.
RestMoney(row) ==
  LET figures  == Figures(row)
      labelled == {n \in DOMAIN figures : figures[n].is = "offer"}
      rest     == DOMAIN figures \ (IF labelled = {} THEN {} ELSE {Min(labelled)})
  IN  IF rest = {} THEN Null ELSE Money(figures[Min(rest)])

Labelled(row) ==
  LET offer == FirstThat(Figures(row), LAMBDA f : f.is = "offer") IN IF offer = Null THEN Null ELSE Money(offer)

\* The token outranks the free text; of the tokens only these name a sender.
Direction(row) ==
  CASE "fromSeller" \in Says(row) -> "from_seller"
    [] "fromSeller" \notin Says(row) /\ "fromYou" \in Says(row) -> "from_you"
    [] OTHER -> CASE row.token = "sent" -> "from_you"
                  [] row.token \in {"received", "expired"} -> "from_seller"
                  [] OTHER -> "unknown"

\* The operator's own auction bid: there is no offer on the row.
IsBidRow(row) == row.token = Null /\ Labelled(row) = Null /\ Direction(row) = "unknown" /\ "maxBid" \in Says(row)

Status(row) ==
  LET stated == IF row.token # Null THEN TokenStatus[row.token]
                ELSE Else(FirstThat(OfferStates, LAMBDA s : s \in Says(row)), "unknown")
      bare   == /\ stated = "unknown" /\ Labelled(row) = Null /\ Direction(row) = "unknown"
                /\ "control" \in Says(row) /\ "thread" \notin Says(row)
  IN  IF IsBidRow(row) \/ bare THEN "none" ELSE stated

IsOfferRow(row) == ~IsBidRow(row) /\ (row.token # Null \/ Direction(row) # "unknown")

\* The offer and the ask: on an offer row the offer is never the higher of
\* two figures, and the only figure of a token row is the ask.
OrderedPrices(row, figures, offer, ask) ==
  LET pair(o, a, how) == [offer |-> o, ask |-> a, how |-> how]
  IN  IF ~IsOfferRow(row) THEN pair(offer, ask, "as_labelled")
      ELSE IF row.token # Null /\ Len(figures) = 1 THEN pair(Null, figures[1], "single")
      ELSE IF offer = Null /\ Len(figures) = 2 /\ figures[1].currency = figures[2].currency
           THEN IF figures[1].value <= figures[2].value THEN pair(figures[1], figures[2], "ordered")
                ELSE pair(figures[2], figures[1], "ordered")
      ELSE IF offer # Null /\ ask # Null /\ offer.currency = ask.currency /\ offer.value > ask.value
           THEN pair(ask, offer, "ordered")
      ELSE pair(offer, ask, "as_labelled")

Prices(row) == OrderedPrices(row, RowFigures(row), Labelled(row), Else(row.cell, RestMoney(row)))

\* Only a relative expiry becomes an instant.
ExpiresAt(row) == IF row.expires = Null \/ row.expires.dated THEN Null ELSE row.expires.in

PricedRow(row, price, order) ==
  [itemId |-> row.id, title |-> In(row.title, "name"), offerPrice |-> price.offer,
   listPrice |-> IF price.ask # Null /\ price.offer # Null /\ price.ask.value = price.offer.value THEN Null ELSE price.ask,
   direction |-> IF IsBidRow(row) THEN "from_you" ELSE Direction(row), offerStatus |-> Status(row),
   expiresText |-> row.expires, expiresAt |-> ExpiresAt(row),
   seller |-> SellerFrom(row).seller, sellerText |-> SellerFrom(row).sellerText, order |-> order]

OfferRow(row, order) == PricedRow(row, Prices(row), order)

\* Each item once, in document order.
OfferRows(doc) ==
  LET kept == Kept([n \in DOMAIN doc.rows |-> n], LAMBDA n : \A m \in 1..(n - 1) : doc.rows[m].id # doc.rows[n].id)
  IN  [n \in DOMAIN kept |-> doc.rows[kept[n]]]

OfferFields ==
  [title |-> "OFFERS_FIELDS_NULL: title", offerPrice |-> "OFFERS_FIELDS_NULL: offerPrice",
   expiresText |-> "OFFERS_FIELDS_NULL: expiresText", seller |-> "OFFERS_FIELDS_NULL: seller"]

OfferWarnings(rows, offers) ==
  LET some(P(_, _)) == \E n \in DOMAIN rows : P(rows[n], offers[n])
      priced(how)   == \E n \in DOMAIN rows : Prices(rows[n]).how = how
      unread(o)     == o.offerStatus = "open" /\ o.expiresText = Null
  IN  Warn(some(LAMBDA r, o : IsBidRow(r)), "OFFERS_BID_ROWS")
 \cup Warn(priced("ordered"), "OFFERS_AMOUNTS_ORDERED_BY_VALUE")
 \cup Warn(priced("single"), "OFFERS_SINGLE_AMOUNT_IS_ASK")
 \cup Warn(some(LAMBDA r, o : ~SellerFrom(r).ambiguous /\ o.seller = Null /\ o.sellerText = Null), "OFFERS_SELLER_UNSTATED")
 \cup Warn(some(LAMBDA r, o : SellerFrom(r).ambiguous), "OFFERS_SELLER_AMBIGUOUS")
 \cup Warn(some(LAMBDA r, o : o.offerStatus = "none" /\ ~IsBidRow(r)), "OFFERS_NO_OFFER_THREAD")
 \cup Warn(some(LAMBDA r, o : o.offerStatus # "none" /\ o.offerPrice = Null /\ "threadEarly" \in Says(r)), "OFFERS_THREAD_UNREAD")
 \cup Warn(some(LAMBDA r, o : o.direction = "unknown" /\ o.offerStatus # "none"), "OFFERS_DIRECTION_UNKNOWN")
 \cup Warn(some(LAMBDA r, o : unread(o) /\ "hint" \in Says(r)), "OFFERS_EXPIRY_UNPARSED")
 \cup Warn(some(LAMBDA r, o : unread(o) /\ "hint" \notin Says(r)), "OFFERS_EXPIRY_UNSTATED")
 \cup FieldsNull(offers, OfferFields)

OffersPage(doc, rows, offers, stated, total, paging) ==
  [candidates |-> offers, signedIn |-> DetectSignedIn(doc, Len(rows)), totalCount |-> total, statedCount |-> stated,
   hasNextPage |-> paging.hasNextPage, nextPageUrl |-> paging.nextPageUrl,
   warnings |->
        Warn(stated # Null /\ total = Null, "OFFERS_TOTAL_REJECTED")
   \cup Warn(paging.derived, "WATCHLIST_NEXT_URL_DERIVED")
   \cup (IF rows = <<>> THEN {IF DetectSignedIn(doc, 0) = FALSE THEN "SIGN_IN_REQUIRED" ELSE "OFFERS_NO_ROWS"}
         ELSE OfferWarnings(rows, offers)
         \cup Warn(total # Null /\ total > Len(rows) /\ ~paging.hasNextPage, "OFFERS_PAGINATION_UNKNOWN")
         \cup Warn(stated = Null, "OFFERS_TOTAL_UNSTATED"))]

OffersOf(doc, rows) ==
  OffersPage(doc, rows, [n \in DOMAIN rows |-> OfferRow(rows[n], n - 1)], ReadTotalCount(doc),
             CheckedTotalCount(ReadTotalCount(doc), Len(rows)).totalResults, ReadPagination(doc))

ExtractOffersPage(doc) == OffersOf(doc, OfferRows(doc))
=============================================================================
