------------------------------ MODULE MyEbay --------------------------------
(***************************************************************************)
(* The signed-in pages of eBay: the watch list and the bids and offers.    *)
(* Their cards are those of EbayCards with more to them:                   *)
(*   timer     the timer element's text, or Null                           *)
(*   controls  what the row's action links read: "bid", "bin"              *)
(*   users     the login ids the card links, in order                      *)
(*   named, feedback, linked    the seller texts its label, its feedback   *)
(*             run and its seller links give, Null where they give none    *)
(* and a row of the offers page is the record OfferRow reads.  What these  *)
(* readers find no element for they take from all the words of the card,   *)
(* those of its title included.                                            *)
(***************************************************************************)
EXTENDS EbayCards

\* The text of the whole card: its title, its elements and its timer.
Blob(card) == JoinAll(<<Whole(card), card.timer>>, NoWords)

\* Every item link of the page, each item once, in document order.
ItemAnchors(doc) == RowsOf(doc, 4)

\* A card that links two login ids is nobody's row.
SellerFrom(card) ==
  LET users == Range(card.users)
      read(s, text, ambiguous) == [seller |-> s, sellerText |-> text, ambiguous |-> ambiguous]
  IN  IF Cardinality(users) > 1 THEN read(Null, Null, TRUE)
      ELSE read(IF users = {} THEN Null ELSE Head(card.users),
                Else(Else(card.named, card.feedback), card.linked), FALSE)

ActionLinkFormat(card) ==
  CASE {"bid", "bin"} \subseteq card.controls             -> "auction_with_bin"
    [] "bid" \in card.controls /\ "bin" \notin card.controls -> "auction"
    [] "bid" \notin card.controls /\ "bin" \in card.controls -> "fixed_price"
    [] OTHER                                              -> "unknown"

DetectSignedIn(doc, cards) == IF cards > 0 THEN TRUE ELSE IF doc.signInWall THEN FALSE ELSE Null

\* The timer element when it reads as a countdown, else the card's text.
ReadTimeLeft(card) == Else(In(card.timer, "left"), Blob(card)["left"])

\* Sold before ended, ended before live; a price is no state.
ReadStatus(card, timeLeft) ==
  LET sold  == Blob(card)["sold"] # Null
      ended == Blob(card)["ended"] # Null
  IN  CASE sold                                    -> "sold"
        [] ~sold /\ ended                          -> "ended"
        [] ~sold /\ ~ended /\ timeLeft # Null      -> "active"
        [] OTHER                                   -> "unknown"

\* A countdown that names no duration ("ending today", 0 here) gives no instant.
EndsAt(timeLeft) == IF timeLeft = 0 THEN Null ELSE timeLeft

\* The slot that rendered a reminder banner: only the item's id is the item's.
ReminderRow(doc, i, order) ==
  LET seller == SellerFrom(CardRootFor(doc.links[i])).seller
  IN  [itemId |-> doc.links[i].id, cardRender |-> "reminder_banner", title |-> Null, snippetPrice |-> Null,
       snippetPriceSource |-> Null, sellingFormat |-> "unknown", bidCount |-> Null, soldText |-> Null, timeLeftText |-> Null, endsAt |-> Null,
       watchlistStatus |-> "unknown", seller |-> seller, sellerText |-> Null, sellerOffer |-> Null,
       priceDropText |-> Null, shippingSnippetText |-> Null, shippingSnippetAmount |-> Null, order |-> order]

\* The price element, else the first amount of the card, whatever names it.
WatchedPrice(card) ==
  PriceFrom(ParseMoney(In(card.price, "money"), "CAD"), ParseMoney(Blob(card)["figure"], "CAD"))

WatchedShipping(card) ==
  Else(card.ship, IF Blob(card)["ship"] = Null THEN Null ELSE [NoWords EXCEPT !["ship"] = Blob(card)["ship"]])

\* The action link speaks only where the format vocabulary is silent.
WatchedFormat(card, detected) ==
  [bidCount |-> detected.bidCount,
   sellingFormat |-> IF detected.sellingFormat = "unknown" THEN ActionLinkFormat(card) ELSE detected.sellingFormat]

WatchedTime(card, timeLeft) ==
  [timeLeftText |-> timeLeft, endsAt |-> EndsAt(timeLeft), watchlistStatus |-> ReadStatus(card, timeLeft)]

WatchedRow(id, card, order) ==
  [itemId |-> id, cardRender |-> "listing", title |-> CleanTitle(RawTitle(card)),
   soldText |-> ReadSoldCaption(card).soldText, seller |-> SellerFrom(card).seller,
   sellerText |-> SellerFrom(card).sellerText, sellerOffer |-> Blob(card)["sellerOffer"],
   priceDropText |-> Blob(card)["priceDrop"], shippingSnippetText |-> WatchedShipping(card),
   shippingSnippetAmount |-> ReadShippingSnippet(WatchedShipping(card), "CAD").amount, order |-> order]
  ++ WatchedPrice(card)
  ++ WatchedFormat(card, DetectCardFormat(card, WatchedPrice(card).snippetPrice # Null, FALSE))
  ++ WatchedTime(card, ReadTimeLeft(card))

ListingRow(doc, i, order) == WatchedRow(doc.links[i].id, CardRootFor(doc.links[i]), order)

IsReminder(doc, i) == CleanTitle(RawTitle(CardRootFor(doc.links[i]))) = "WATCHED ITEM REMINDER"

(***************************************************************************)
(* The list's own count.  allChip is the All Categories chip [text, aria], *)
(* chips the category chips [id, label, text, aria], labels the tabs and   *)
(* headings [form, count, all, chip], bodyItems what the text says after   *)
(* the chips are struck out.                                               *)
(***************************************************************************)
ReadTotalCount(doc) ==
  LET chip     == IF doc.allChip = Null THEN Null ELSE Else(doc.allChip.text, doc.allChip.aria)
      labelled == {l \in Range(doc.labels) : ~l.chip}
      forms    == {l.form : l \in labelled}
      best     == {l \in labelled : l.form = IF "label" \in forms THEN "label" ELSE "items"}
      all      == {l \in best : l.all}
  IN  IF chip # Null THEN chip
      ELSE IF labelled = {} THEN doc.bodyItems
      ELSE IF all # {} THEN FirstThat(doc.labels, LAMBDA l : l \in all).count
      ELSE Max({l.count : l \in best})

\* A chip is a category when its link filters by one and it has a label.
ReadCategoryChips(doc) ==
  LET read == Kept(doc.chips, LAMBDA c : c.id # Null /\ c.label # Null)
  IN  [n \in DOMAIN read |-> [categoryId |-> read[n].id, label |-> read[n].label,
                              count |-> Else(read[n].text, read[n].aria)]]

\* AllFieldsNull: a variant to which a page is unread when all its fields are.
AllFieldsNull(rows, named) ==
  IF rows # <<>> /\ \A f \in DOMAIN named : \A n \in DOMAIN rows : rows[n][f] = Null THEN Range(named) ELSE {}

\* A field that is null on every row of a page is named; one that is null on
\* some of them only is not.  named gives each field its part of the warning.
FieldsNull(rows, named) ==
  {named[f] : f \in {f \in DOMAIN named : rows # <<>> /\ \A n \in DOMAIN rows : rows[n][f] = Null}}

WatchlistFields ==
  [title |-> "WATCHLIST_FIELDS_NULL: title", snippetPrice |-> "WATCHLIST_FIELDS_NULL: snippetPrice",
   timeLeftText |-> "WATCHLIST_FIELDS_NULL: timeLeftText", seller |-> "WATCHLIST_FIELDS_NULL: seller",
   sellerText |-> "WATCHLIST_FIELDS_NULL: sellerText",
   shippingSnippetText |-> "WATCHLIST_FIELDS_NULL: shippingSnippetText"]

WatchlistRows(doc, anchors) ==
  [n \in DOMAIN anchors |-> IF IsReminder(doc, anchors[n]) THEN ReminderRow(doc, anchors[n], n - 1)
                            ELSE ListingRow(doc, anchors[n], n - 1)]

\* What of a list is unstated is said of its ordinary cards: a reminder
\* states nothing by construction.
WatchlistRowWarnings(doc, rows) ==
  LET some(P(_)) == \E n \in DOMAIN rows : rows[n].cardRender = "listing" /\ P(rows[n])
      converted(i) == ~IsReminder(doc, i) /\ Blob(CardRootFor(doc.links[i]))["converted"] # Null
  IN  Warn(\E n \in DOMAIN rows : rows[n].cardRender = "reminder_banner", "WATCHLIST_REMINDER_ROWS")
 \cup Warn(some(LAMBDA r : r.watchlistStatus = "unknown"), "WATCHLIST_STATUS_UNSTATED")
 \cup Warn(some(LAMBDA r : r.sellingFormat = "unknown"), "WATCHLIST_FORMAT_UNSTATED")
 \cup Warn(\E i \in Range(ItemAnchors(doc)) : converted(i), "WATCHLIST_PRICE_CONVERTED")
 \cup FieldsNull(Kept(rows, LAMBDA r : r.cardRender = "listing"), WatchlistFields)

WatchlistPage(doc, rows, stated, total, paging) ==
  [candidates |-> rows, categories |-> ReadCategoryChips(doc), signedIn |-> DetectSignedIn(doc, Len(rows)),
   totalCount |-> total, statedCount |-> stated, hasNextPage |-> paging.hasNextPage, nextPageUrl |-> paging.nextPageUrl,
   warnings |->
        Warn(stated # Null /\ total = Null, "WATCHLIST_TOTAL_REJECTED")
   \cup Warn(stated = Null /\ doc.chips # <<>>, "WATCHLIST_TOTAL_UNSTATED")
   \cup Warn(paging.derived, "WATCHLIST_NEXT_URL_DERIVED")
   \cup (IF rows = <<>>
         THEN {IF DetectSignedIn(doc, 0) = FALSE THEN "SIGN_IN_REQUIRED"
               ELSE IF total = 0 THEN "WATCHLIST_EMPTY" ELSE "WATCHLIST_NO_CANDIDATES"}
         ELSE WatchlistRowWarnings(doc, rows)
         \cup Warn(total # Null /\ total > Len(rows) /\ ~paging.hasNextPage, "WATCHLIST_PAGINATION_UNKNOWN"))]

WatchlistOf(doc, rows) ==
  WatchlistPage(doc, rows, ReadTotalCount(doc), CheckedTotalCount(ReadTotalCount(doc), Len(rows)).totalResults,
                ReadPagination(doc))

ExtractWatchlistPage(doc) == WatchlistOf(doc, WatchlistRows(doc, ItemAnchors(doc)))
=============================================================================
