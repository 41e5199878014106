----------------------------- MODULE Compaction -----------------------------
(***************************************************************************)
(* What of an extracted page goes over the wire: the window of candidate   *)
(* rows that pass the caller's filters, with the fields it names.  A row   *)
(* is a function from the keys it carries to their values; a key with the  *)
(* value Null is one the extractor looked for in vain.  A price is         *)
(* [kind, value] and a url [item, tail], an id and the rest it came with.  *)
(***************************************************************************)
EXTENDS PageText

CONSTANT MaxScanned      \* MAX_SCANNED_CANDIDATES

\* Another name under which a row may carry a key.
CandidateFieldAliases ==
  [price |-> <<"snippetPrice">>, snippetPrice |-> <<"price">>, location |-> <<"locationText", "itemLocationText">>,
   locationText |-> <<"itemLocationText">>, itemLocationText |-> <<"locationText">>,
   format |-> <<"sellingFormat", "listingType">>, sellingFormat |-> <<"listingType">>, listingType |-> <<"sellingFormat">>]
AliasesOf(key) == IF key \in DOMAIN CandidateFieldAliases THEN CandidateFieldAliases[key] ELSE <<>>

\* Values a page has spoken for once; a default projection leaves them out.
DefaultValuedMarkers == [matchScope |-> "primary", seller |-> Null, cardRender |-> "listing"]

\* The keys of a triage row, by what the page is.
DefaultFields(page) ==
  LET search == <<"itemId", "url", "title", "snippetPrice", "sellingFormat", "bidCount", "itemLocationText",
                  "isNewListing", "seller", "matchScope">>
  IN  CASE page.site = "kijiji" -> <<"adId", "url", "title", "price", "priceSource", "locationText", "postedText">>
        [] page.site = "zazzle" -> <<"productId", "url", "title", "price", "originalPrice", "discountText">>
        [] page.site = "ebay" /\ page.kind = "watchlist" ->
             <<"itemId", "url", "title", "cardRender", "snippetPrice", "sellingFormat", "bidCount", "timeLeftText",
               "endsAt", "watchlistStatus", "seller", "sellerText", "sellerOffer", "priceDropText", "shippingSnippetText">>
        [] page.site = "ebay" /\ page.kind = "offers" ->
             <<"itemId", "url", "title", "offerPrice", "listPrice", "direction", "offerStatus", "expiresText",
               "expiresAt", "seller", "sellerText">>
        [] page.site = "ebay" /\ page.kind \notin {"watchlist", "offers"} ->
             IF page.sold THEN Append(search, "soldAt") ELSE search

ValueAt(row, key) == IF key \in DOMAIN row THEN row[key] ELSE Null

\* The amount of a row, under whichever name it carries one.
ReadCandidatePrice(row) ==
  LET of(key) == IF ValueAt(row, key) = Null THEN Null ELSE row[key].value
  IN  Else(of("snippetPrice"), Else(of("price"), ValueAt(row, "priceValue")))

\* A card that states no amount on purpose ("Please Contact").
IsContactPriceRow(row) ==
  ValueAt(row, "price") # Null /\ row["price"].kind = "contact" /\ row["price"].value = Null

ReadCandidateFormat(row) == Else(ValueAt(row, "sellingFormat"), ValueAt(row, "listingType"))

\* A url that names its item keeps nothing else.
CanonicalizeCandidateUrl(url) == IF url.item # Null THEN [url EXCEPT !.tail = Null] ELSE [url EXCEPT !.tail = "path"]

(***************************************************************************)
(* The filters.  include is [titles, minPrice, maxPrice, formats], each    *)
(* Null when the caller names none; titles are the titles its pattern      *)
(* matches.  A bound cannot judge a row without an amount: a row that says *)
(* so on purpose is kept, one whose amount was not read is dropped.        *)
(***************************************************************************)
TitleMatches(row, include) == include.titles = Null \/ ValueAt(row, "title") \in include.titles
Bounded(include) == include.minPrice # Null \/ include.maxPrice # Null
Unpriced(row, include) == Bounded(include) /\ ReadCandidatePrice(row) = Null

\* PriceInside: a variant that takes the bounds for exclusive.
PriceInside(row, include) ==
  LET price == ReadCandidatePrice(row)
  IN  \/ ~Bounded(include)
      \/ price = Null /\ IsContactPriceRow(row)
      \/ /\ price # Null
         /\ include.minPrice = Null \/ price > include.minPrice
         /\ include.maxPrice = Null \/ price < include.maxPrice

PriceMatches(row, include) ==
  LET price == ReadCandidatePrice(row)
  IN  \/ ~Bounded(include)
      \/ price = Null /\ IsContactPriceRow(row)
      \/ /\ price # Null
         /\ include.minPrice = Null \/ price >= include.minPrice
         /\ include.maxPrice = Null \/ price <= include.maxPrice

FormatMatches(row, include) ==
  LET format == ReadCandidateFormat(row)
  IN  include.formats = Null \/ (IF format = Null THEN "unknown" ELSE format) \in include.formats

(***************************************************************************)
(* The window.  options is [offset, limit, fields, include, canonicalize], *)
(* with fields Null when the caller names none; scanned is how many rows   *)
(* the filter's time allowed, Null when it got through.                    *)
(***************************************************************************)
ProjectCandidate(row, options, allowed) ==
  LET value(key) == IF ValueAt(row, key) # Null THEN row[key]
                    ELSE LET alias == FirstThat(AliasesOf(key), LAMBDA a : ValueAt(row, a) # Null)
                         IN  IF alias = Null THEN Null ELSE row[alias]
      known(key) == key \in DOMAIN row \/ Range(AliasesOf(key)) \cap DOMAIN row # {}
      elided(key) == options.fields = Null /\ key \in DOMAIN DefaultValuedMarkers \cap DOMAIN row
                     /\ row[key] = DefaultValuedMarkers[key]
      url(u) == IF options.canonicalize THEN CanonicalizeCandidateUrl(u) ELSE u
      \* A row that cannot be opened is no saving: the url is put back.
      keys == {k \in Range(allowed) : known(k) /\ ~elided(k)} \cup (IF ValueAt(row, "url") = Null THEN {} ELSE {"url"})
  IN  [k \in keys |-> IF k = "url" /\ value(k) # Null THEN url(value(k)) ELSE value(k)]

Considered(page) == SubSeq(page.candidates, 1, Min({MaxScanned, Len(page.candidates)}))
Scanned(considered, scanned) == SubSeq(considered, 1, Min({Len(considered), Else(scanned, MaxScanned)}))

\* The rows each filter leaves, in the order they are tried.
Titled(rows, include)  == Kept(rows, LAMBDA r : TitleMatches(r, include))
Priced(rows, include)  == Kept(Titled(rows, include), LAMBDA r : PriceMatches(r, include))
Matched(rows, include) == Kept(Priced(rows, include), LAMBDA r : FormatMatches(r, include))

Window(matched, options) ==
  SubSeq(matched, options.offset + 1, Min({Len(matched), options.offset + options.limit}))

SentRows(window, options, allowed) == [n \in DOMAIN window |-> ProjectCandidate(window[n], options, allowed)]

Allowed(page, options) == IF options.fields = Null THEN DefaultFields(page) ELSE options.fields

FilterWarnings(rows, include) ==
     Warn(\E r \in Range(Titled(rows, include)) : ~PriceMatches(r, include) /\ Unpriced(r, include), "EXCLUDED_NO_PRICE")
\cup Warn(\E r \in Range(Priced(rows, include)) : Unpriced(r, include), "RETAINED_CONTACT_PRICE_ROWS")
\cup Warn(/\ include.formats # Null /\ "unknown" \notin include.formats
          /\ \E r \in Range(Priced(rows, include)) : ReadCandidateFormat(r) = Null, "EXCLUDED_UNKNOWN_FORMAT")

\* A field the caller names and no row carries, a field some row lacks.
FieldWarnings(considered, fields, sent) ==
  LET emitted == UNION {DOMAIN r : r \in Range(considered)}
  IN  Warn(/\ fields # Null /\ considered # <<>>
           /\ \E k \in Range(fields) : (Range(AliasesOf(k)) \cup {k}) \cap emitted = {}, "UNKNOWN_FIELDS_IGNORED")
 \cup Warn(\E r \in Range(sent) : Null \in Range(r), "CANDIDATE_FIELDS_NULL")

CompactedPage(page, options, cut, matched, sent, warnings) ==
  LET more == ~cut /\ options.offset + Len(sent) < matched
  IN  [candidates |-> sent, candidateCount |-> Len(page.candidates), matchedCount |-> matched,
       offset |-> options.offset, hasMore |-> more, nextOffset |-> IF more THEN options.offset + Len(sent) ELSE Null,
       hasNextPage |-> page.hasNextPage, nextPageUrl |-> page.nextPageUrl,
       warnings |->
            Warn(Len(page.candidates) > MaxScanned, "CANDIDATES_TRUNCATED")
       \cup Warn(cut, "SEARCH_FILTER_BUDGET_EXCEEDED")
       \cup warnings
       \cup FieldWarnings(Considered(page), options.fields, sent)
       \cup Warn(page.hasNextPage = TRUE /\ ~cut /\ ~more /\ Len(sent) < options.limit, "PAGE_LOCAL_LIMIT")]

CompactRows(page, options, rows, matched) ==
  CompactedPage(page, options, Len(rows) < Len(Considered(page)), Len(matched),
                SentRows(Window(matched, options), options, Allowed(page, options)),
                FilterWarnings(rows, options.include))

CompactScanned(page, options, rows) == CompactRows(page, options, rows, Matched(rows, options.include))

CompactSearchPage(page, options, scanned) == CompactScanned(page, options, Scanned(Considered(page), scanned))
=============================================================================
