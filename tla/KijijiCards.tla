---------------------------- MODULE KijijiCards -----------------------------
(***************************************************************************)
(* A results page of Kijiji: its rows, and what it says of the result set. *)
(* An ad's card is                                                         *)
(*   title, linkText  the title element's text and the link's own          *)
(*   run       the title occurs in the card's text as one run of words     *)
(*   price     the cell of its price element, Null for none                *)
(*   amounts, titleAmounts   the amounts of its text outside the title and *)
(*             within it;  label: the price label outside the title        *)
(*   place     its location;  named, details: the text of the posted       *)
(*             element and what its details block has after the location   *)
(*   stamp     a machine-readable instant                                  *)
(* A price cell is [free, contact, swap, amount], a posted text [bound,    *)
(* yesterday, pairs] with its number-unit pairs, Null an unknown unit.     *)
(* Time is counted in minutes.                                             *)
(***************************************************************************)
EXTENDS PageText, Integers

(***************************************************************************)
(* Prices, posted times and urls.                                          *)
(***************************************************************************)
\* A word for the price outranks any figure; free is the amount nought.
ParseKijijiPrice(cell) ==
  LET price(kind, value) == [kind |-> kind, value |-> value]
  IN  IF cell = Null THEN Null
      ELSE IF cell.free THEN price("free", 0)
      ELSE IF cell.contact THEN price("contact", Null)
      ELSE IF cell.swap THEN price("swap", Null)
      ELSE IF cell.amount = Null THEN Null ELSE price("amount", cell.amount)

Minute == 1
Hour == 60
Day == 24 * Hour
\* A label in seconds is one in minutes here: a walk has no finer clock.
PostedUnits == {Minute, Hour, Day, 7 * Day, 30 * Day}

\* Nothing finer than the label's unit survives; a day or more leaves a date.
TruncateToPrecision(at, unit) == at - (at % Min({unit, Day}))

\* The pair a posted text is read by: an open bound is no instant.
PostedPair(text) ==
  IF text.bound THEN Null
  ELSE IF text.yesterday THEN [n |-> 1, unit |-> Day]
  ELSE FirstThat(text.pairs, LAMBDA pair : pair.unit \in PostedUnits)

ParseKijijiPostedText(text, now) ==
  LET pair == PostedPair(text) IN IF pair = Null THEN Null ELSE now - pair.n * pair.unit

ParseKijijiPostedLabel(text, now) ==
  LET pair == PostedPair(text)
  IN  IF pair = Null THEN Null
      ELSE [postedAt |-> TruncateToPrecision(ParseKijijiPostedText(text, now), pair.unit), precision |-> pair.unit]

\* A url is [kind, page, segments, slugs, region, q, sort, inert, adRemoved]:
\* kind "b" for search paths, "seller" for a poster's listings, else "v";
\* slugs the words before the id segment, region how many of them name its
\* place (Null where the path has no id segment), inert the parameters the
\* site ignores, adRemoved the ad it was redirected from.
PathOf(url) == <<url.kind, url.page, url.slugs>>

NextKijijiSellerPageUrl(url) ==
  IF url.kind # "seller" THEN Null ELSE [url EXCEPT !.page = Else(url.page, 1) + 1]

NextKijijiPageUrl(url) ==
  IF url.kind = "seller" THEN NextKijijiSellerPageUrl(url)
  ELSE IF url.page # Null THEN [url EXCEPT !.page = url.page + 1]
  ELSE IF url.segments < 2 THEN Null ELSE [url EXCEPT !.page = 2, !.segments = @ + 1]

KijijiRequestedKeyword(url) ==
  IF url.q # Null THEN url.q
  ELSE IF url.kind # "b" \/ url.region = Null \/ Len(url.slugs) <= url.region THEN Null ELSE Last(url.slugs)

(***************************************************************************)
(* The cards.                                                              *)
(***************************************************************************)
TitleOf(card) == Else(card.title, card.linkText)

\* The one amount of the card's text with the title out of it; of several
\* none is chosen, and a label counts only where there is no amount.
PriceFromCardText(card) ==
  LET amounts == card.amounts \o (IF TitleOf(card) # Null /\ ~card.run THEN card.titleAmounts ELSE <<>>)
  IN  CASE Len(amounts) = 1 -> [kind |-> "amount", value |-> amounts[1]]
        [] Len(amounts) > 1 -> Null
        [] OTHER -> ParseKijijiPrice(card.label)

\* Unnamed text is a posted time only if it reads as one.
CardPostedText(card, now) ==
  IF card.named # Null THEN card.named
  ELSE IF card.details # Null /\ ParseKijijiPostedText(card.details, now) # Null THEN card.details ELSE Null

\* The hydration cache, Null for none, is [path, pagination, keywords, ads]:
\* the path it was rendered for, what it states of it, and its ads.
ApolloActivationDate(cache, ad) == IF cache = Null \/ ad \notin DOMAIN cache.ads THEN Null ELSE cache.ads[ad].activated
ApolloPagination(cache, url) == IF cache = Null \/ cache.path # PathOf(url) THEN Null ELSE cache.pagination
ApolloSearchKeywords(cache, url) == IF cache = Null \/ cache.path # PathOf(url) THEN Null ELSE cache.keywords

SearchResult(doc, anchor) ==
  LET card    == anchor.card
      element == ParseKijijiPrice(card.price)
      text    == IF card.price = Null THEN PriceFromCardText(card) ELSE Null
      posted  == CardPostedText(card, doc.observedAt)
      label   == IF posted = Null THEN Null ELSE ParseKijijiPostedLabel(posted, doc.observedAt)
      cached  == ApolloActivationDate(doc.cache, anchor.id)
      at(t, from, precision) == [postedAt |-> t, postedAtSource |-> from, postedAtPrecision |-> precision]
  IN  [adId |-> anchor.id, title |-> TitleOf(card), price |-> Else(element, text),
       priceSource |-> IF element # Null THEN "card_element" ELSE IF text # Null THEN "card_text" ELSE Null,
       locationText |-> card.place, postedText |-> posted]
      ++ (IF card.stamp # Null THEN at(card.stamp, "card_datetime", "exact")
          ELSE IF cached # Null THEN at(cached, "hydration", "exact")
          ELSE IF label # Null THEN at(label.postedAt, "relative_text", label.precision)
          ELSE at(Null, Null, Null))

\* Every link of the site to an ad, each ad once; paths of searches are none.
SearchResults(doc) ==
  LET ads   == Kept(doc.anchors, LAMBDA a : a.onSite /\ ~a.toSearch /\ a.id # Null)
      first == Kept([n \in DOMAIN ads |-> n], LAMBDA n : \A m \in 1..(n - 1) : ads[m].id # ads[n].id)
  IN  [n \in DOMAIN first |-> SearchResult(doc, ads[first[n]])]

(***************************************************************************)
(* The result set.  counts are the texts that may state it, in order, each *)
(* [range, total] with range [through, of] or Null.                        *)
(***************************************************************************)
StatedCount(doc) ==
  LET ranged == FirstThat(doc.counts, LAMBDA c : c.range # Null)
      total  == FirstThat(doc.counts, LAMBDA c : c.total # Null)
  IN  IF ranged # Null THEN [of |-> ranged.range.of, through |-> ranged.range.through]
      ELSE [of |-> IF total = Null THEN Null ELSE total.total, through |-> Null]

ReadSearchTerm(doc) == Else(Else(ApolloSearchKeywords(doc.cache, doc.url), doc.h1Term), doc.titleTerm)

\* Rounded times may step back by an hour in a page that is in order.
NewestFirstViolated(rows) ==
  LET dated == Kept(rows, LAMBDA r : r.postedAt # Null)
  IN  \E n \in 2..Len(dated) : dated[n].postedAt > dated[n - 1].postedAt + Hour

TotalResults(stated, cached) == Else(stated.of, IF cached = Null THEN Null ELSE cached.totalCount)
ShownThrough(stated, cached, rows) == Else(stated.through, IF cached = Null THEN Null ELSE cached.offset + Len(rows))

\* The link the page renders, else the url of the page after this one.
NextPageUrl(doc, more) ==
  Else(FirstThat(doc.next, LAMBDA href : href # Null), IF more THEN NextKijijiPageUrl(doc.url) ELSE Null)

SearchWarnings(doc, rows) ==
  LET some(P(_)) == \E n \in DOMAIN rows : P(rows[n])
  IN  Warn(some(LAMBDA r : r.postedAtSource = "relative_text"), "POSTED_AT_FROM_RELATIVE_LABEL")
 \cup Warn(some(LAMBDA r : r.priceSource = "card_text"), "CARD_PRICE_FROM_CARD_TEXT")
 \cup Warn(rows # <<>> /\ ~some(LAMBDA r : r.price # Null), "CARD_PRICE_UNRENDERED")
 \cup Warn(some(LAMBDA r : r.price # Null /\ r.price.kind = "contact"), "SEARCH_CONTACT_PRICE_ROWS")
 \cup Warn(doc.url.sort = "dateDesc" /\ NewestFirstViolated(rows), "SORT_NOT_HONOURED")

SearchPage(doc, rows, total, more, next) ==
  [results |-> rows, hasNextPage |-> next # Null \/ more, nextPageUrl |-> next, totalResults |-> total,
   searchTerm |-> ReadSearchTerm(doc), removedAdId |-> doc.url.adRemoved,
   warnings |-> SearchWarnings(doc, rows)
     \cup (IF rows # <<>> /\ total = Null /\ next = Null THEN {"PAGINATION_METADATA_ABSENT"} ELSE {})]

CountedPage(doc, rows, total, shown) ==
  LET more == total # Null /\ Else(shown, Len(rows)) < total
  IN  SearchPage(doc, rows, total, more, NextPageUrl(doc, more))

ResultSet(doc, rows, stated, cached) ==
  CountedPage(doc, rows, TotalResults(stated, cached), ShownThrough(stated, cached, rows))

ExtractSearchResults(doc) ==
  ResultSet(doc, SearchResults(doc), StatedCount(doc), ApolloPagination(doc.cache, doc.url))

\* Whether the page ran the query its url asks for; words are compared as
\* slugs.
KijijiKeywordWarnings(url, page) ==
  IF KijijiRequestedKeyword(url) \in {Null, page.searchTerm} THEN {} ELSE {"KEYWORD_NOT_APPLIED"}

KijijiSearchUrlWarnings(url) == IF url.inert = {} THEN {} ELSE {"RADIUS_PARAM_INERT"}
=============================================================================
