----------------------------- MODULE PageReading -----------------------------
(***************************************************************************)
(* browser_extract on the agent: which reader runs on the page a tab is on *)
(* (executeExtract), what it adds to the reader's warnings, the reduction  *)
(* the caller asked for, and what a batch makes of the record.             *)
(*                                                                         *)
(* A document is the record its reader takes (KijijiCards, KijijiListing,  *)
(* EbayCards, MyEbay, EbayListing, ZazzleProduct) with                     *)
(*   site       the site of its url: "kijiji", "ebay", "zazzle", "roster"  *)
(*              for the hosts reachable without an extractor, "generic"    *)
(*   kind       what its path is classified as                             *)
(*   challenge  whether it is a bot wall                                   *)
(*   late       the document an empty seller page becomes while the reader *)
(*              waits for its first ad, Null when none appears in time     *)
(* options is the caller's reduction, Null for none; scanned as in         *)
(* Compaction, pinned whether the capture was already there.               *)
(***************************************************************************)
EXTENDS KijijiListing

CONSTANT MaxScanned

E == INSTANCE EbayOffers
L == INSTANCE EbayListing
Z == INSTANCE ZazzleProduct
C == INSTANCE Compaction

\* A record brings the warnings of what made it.
Answer(record, warnings) == [record |-> record, warnings |-> warnings \cup record.warnings]

\* Without a reduction the page is returned as it was read.
ApplySearchCompaction(page, warnings, options, scanned) ==
  IF options = Null THEN [record |-> page, warnings |-> warnings]
  ELSE Answer(C!CompactSearchPage(page, options, scanned), warnings)

\* A page of candidate rows, as the reduction takes it.
RowsPage(site, kind, rows, sold, has, next) ==
  [site |-> site, kind |-> kind, sold |-> sold, candidates |-> rows, hasNextPage |-> has, nextPageUrl |-> next]

\* Nothing of a bot wall or of a host without a reader is read.
Unread(warning) == [record |-> Null, warnings |-> {warning}]

(***************************************************************************)
(* Kijiji.  A seller page that reads empty on a fresh capture is read once *)
(* more when its client-rendered listings appear.                          *)
(***************************************************************************)
ReadOnceMore(doc, page, pinned) ==
  CASE page.results # <<>> \/ pinned \/ doc.kind # "seller" -> [page |-> page, waited |-> {}]
    [] OTHER -> IF doc.late = Null THEN [page |-> page, waited |-> {"LISTINGS_NOT_HYDRATED"}]
                ELSE [page |-> ExtractSearchResults(doc.late), waited |-> {"LISTINGS_HYDRATED_AFTER_WAIT"}]

KijijiWarnings(doc, page) ==
     KijijiSearchUrlWarnings(doc.url)
\cup KijijiKeywordWarnings(doc.url, page)
\cup page.warnings
\cup Warn(doc.kind = "other", "UNCLASSIFIED_PAGE")
\cup Warn(doc.kind = "seller", "SELLER_PAGE_UNVERIFIED")
\cup Warn(page.results = <<>>, "NO_LISTING_CANDIDATES")

KijijiAnswer(doc, read, options, scanned) ==
  [ApplySearchCompaction(
     RowsPage("kijiji", doc.kind, read.page.results, FALSE, read.page.hasNextPage, read.page.nextPageUrl),
     read.waited \cup KijijiWarnings(doc, read.page), options, scanned)
   EXCEPT !.record = @ ++ [removedAdId |-> read.page.removedAdId]]

ReadKijiji(doc, pinned, ask, options, scanned) ==
  IF doc.kind = "listing" THEN Answer(ExtractKijijiListing(doc, ask), {})
  ELSE KijijiAnswer(doc, ReadOnceMore(doc, ExtractSearchResults(doc), pinned), options, scanned)

(***************************************************************************)
(* Zazzle.  A search that matched nothing and a grid that was not served   *)
(* look alike; a curated category is never empty.                          *)
(***************************************************************************)
ZazzleAnswer(doc, page, options, scanned) ==
  ApplySearchCompaction(
    RowsPage("zazzle", doc.kind, page.results, FALSE, Null, Null),
    Warn(doc.kind = "other", "UNCLASSIFIED_PAGE")
      \cup (IF page.noResultsShell THEN {IF doc.category THEN "CATEGORY_EMPTY_SHELL" ELSE "SEARCH_EMPTY_SHELL"}
            ELSE Warn(page.results = <<>>, "NO_LISTING_CANDIDATES")),
    options, scanned)

ReadZazzle(doc, options, scanned) ==
  IF doc.kind = "product" THEN Answer(Z!ExtractZazzleProduct(doc), {})
  ELSE ZazzleAnswer(doc, Z!ExtractZazzleSearchResults(doc), options, scanned)

(***************************************************************************)
(* eBay.                                                                   *)
(***************************************************************************)
MyEbayAnswer(doc, page, options, scanned) ==
  ApplySearchCompaction(RowsPage("ebay", doc.kind, page.candidates, FALSE, page.hasNextPage, page.nextPageUrl),
                        page.warnings, options, scanned)

ReadMyEbay(doc, options, scanned) ==
  MyEbayAnswer(doc, IF doc.kind = "watchlist" THEN E!ExtractWatchlistPage(doc) ELSE E!ExtractOffersPage(doc),
               options, scanned)

\* What the sold captions answer to what the url asked for: a row without a
\* caption is no comp, whatever the url says.
SoldWarnings(doc, rows) ==
  LET sold == {n \in DOMAIN rows : rows[n].soldText # Null}
  IN  Warn(sold # {}, "SOLD_ROWS")
 \cup Warn(\E n \in sold : rows[n].soldAt = Null, "SOLD_CAPTION_UNDATED")
 \cup Warn(sold = {} /\ rows # <<>> /\ doc.soldAsked, "SOLD_FILTER_ROWS_UNMARKED")

RowWarnings(rows) ==
  LET some(P(_)) == \E n \in DOMAIN rows : P(rows[n])
  IN  Warn(some(LAMBDA r : r.snippetPriceSource = "text"), "SNIPPET_PRICE_FROM_CARD_TEXT")
 \cup Warn(some(LAMBDA r : /\ r.shippingSnippetAmount # Null /\ r.shippingSnippetAmount.value > 0
                           /\ ~r.shippingSnippetServiceNamed), "SHIPPING_SNIPPET_SERVICE_UNLABELLED")

PageWarnings(doc, rows) ==
     Warn(doc.kind = "other", IF doc.summary THEN "MYEBAY_SUMMARY_PAGE" ELSE "UNCLASSIFIED_PAGE")
\cup Warn(E!IsErrorStub(doc, Len(rows)), "SEARCH_ERROR_PAGE_STUB")
\cup Warn(rows = <<>>, IF doc.kind = "store" THEN "STORE_NO_CANDIDATES" ELSE "NO_LISTING_CANDIDATES")

\* Only a search or a store states a result set.
NoMeta == [hasNextPage |-> Null, nextPageUrl |-> Null, warnings |-> {}]

EbayRowsAnswer(doc, rows, meta, options, scanned) ==
  ApplySearchCompaction(
    RowsPage("ebay", doc.kind, rows, doc.soldAsked \/ (\E n \in DOMAIN rows : rows[n].soldText # Null),
             meta.hasNextPage, meta.nextPageUrl),
    PageWarnings(doc, rows) \cup RowWarnings(rows) \cup SoldWarnings(doc, rows) \cup meta.warnings,
    options, scanned)

MetaOf(doc, rows) == IF doc.kind \in {"search", "store"} THEN E!ExtractSearchPageMeta(doc, rows) ELSE NoMeta

EbayRows(doc, rows, options, scanned) == EbayRowsAnswer(doc, rows, MetaOf(doc, rows), options, scanned)

ReadEbayRows(doc, options, scanned) == EbayRows(doc, E!ExtractListingCandidates(doc), options, scanned)

\* An item page on eBay always has its destination looked at; the extractor's
\* own warning names the codes, the bare one is for a page without shipping.
EbayListingAnswer(doc, listing) ==
  Answer(listing,
         Warn(/\ doc.live # Null /\ ~(listing.shipping # Null /\ listing.shipping.destinationVerified)
              /\ listing.warnings \cap {"DESTINATION_UNSTATED", "DESTINATION_DIFFERS"} = {}, "DESTINATION_UNVERIFIED"))

ReadEbayListing(doc) == EbayListingAnswer(doc, L!ExtractListing(doc))

ReadEbay(doc, options, scanned) ==
  CASE doc.kind \in {"watchlist", "offers"}      -> ReadMyEbay(doc, options, scanned)
    [] doc.kind \in {"search", "store", "other"} -> ReadEbayRows(doc, options, scanned)
    [] doc.kind = "listing"                      -> ReadEbayListing(doc)

(***************************************************************************)
(* executeExtract: the page decides what runs, not the profile the caller  *)
(* declared, and a bot wall is named before any reader sees it.            *)
(***************************************************************************)
ExecuteExtract(doc, pinned, ask, options, scanned) ==
  IF doc.challenge THEN Unread("CHALLENGE_PAGE")
  ELSE CASE doc.site = "roster" -> Unread("NO_EXTRACTOR_FOR_HOST")
         [] doc.site = "kijiji" -> ReadKijiji(doc, pinned, ask, options, scanned)
         [] doc.site = "zazzle" -> ReadZazzle(doc, options, scanned)
         [] doc.site \in {"ebay", "generic"} -> ReadEbay(doc, options, scanned)

(***************************************************************************)
(* deadListingError: a page that answered and is no listing is no evidence *)
(* of one.  asked and landed are [site, page, ad]: where the batch was     *)
(* sent and where it ended.                                                *)
(***************************************************************************)
StatusOf(record) == IF record # Null /\ "listingStatus" \in DOMAIN record THEN record.listingStatus ELSE Null
RemovedOf(record) == IF record # Null /\ "removedAdId" \in DOMAIN record THEN record.removedAdId ELSE Null

DeadListing(asked, landed, record) ==
  /\ record # Null
  /\ \/ StatusOf(record) \in {"unavailable", "deleted"}
     \/ RemovedOf(record) # Null /\ RemovedOf(record) = asked.ad
     \/ /\ asked.site = "kijiji" /\ asked.page = "listing"
        /\ landed.site = "kijiji" /\ landed.page = "search"
=============================================================================
