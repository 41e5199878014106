----------------------------- MODULE SearchWalk ------------------------------
(***************************************************************************)
(* A caller walks a search to its end the way the answers tell it to: it   *)
(* follows nextOffset through the rows of a page and nextPageUrl to the    *)
(* next one (docs/ROUTINE.md:150-160), then reads the body of an ad window *)
(* by window.  Every page is visited under the composite profile of the    *)
(* session, and the site may answer a visit with a redirect of its own.    *)
(*                                                                         *)
(* The site is outside the repository: its listings are [id, title,        *)
(* amount, contact, shown] where contact says that it names no price and   *)
(* shown how its card renders one ("element", "text", "twice" for two      *)
(* amounts in the text); it serves some of them a page and states of its   *)
(* pages what a style states.                                              *)
(***************************************************************************)
EXTENDS PageReading

CONSTANTS Walks,      \* what may be walked: [site, listings, size, style, filter, limit, profiles]
          Detours, Bodies, MaxLoads, Broken, SecretTokens

\* A null is no number and no record.
ASSUME NullAssumption ==
  Null \notin Nat \cup [length : Nat, figures : {<<>>}, place : {Null}, mls : {FALSE}]
                \cup [offset : Nat, upTo : Nat, totalChars : Nat]
ASSUME BodiesAssumption ==
  {ExcerptChars, MaxChars} \subseteq Nat /\ Bodies \subseteq [length : Nat, maxChars : Nat \cup {Null}]

\* A walk is of one of the two sites, in a style the site has; its listings are
\* distinct, and a format filter takes a fixed price and an unnamed format.
ASSUME WalksAssumption ==
  /\ MaxScanned \in Nat
  /\ \A w \in Walks :
       /\ w.site \in {"kijiji", "ebay"} /\ w.size \in Nat \ {0} /\ w.limit \in Nat \ {0}
       /\ w.style \in (IF w.site = "kijiji" THEN {"linked", "ranged", "cached", "titled", "bare"}
                       ELSE {"linked", "button", "endless", "bare"})
       /\ w.listings # <<>> /\ w.listings \in Seq(Range(w.listings))
       /\ \A l \in Range(w.listings) : /\ l.id # Null /\ l.title # Null /\ l.amount \in Nat
                                       /\ l.contact \in BOOLEAN /\ l.shown \in {"element", "text", "twice"}
       /\ \A i, j \in DOMAIN w.listings : w.listings[i].id = w.listings[j].id => i = j
       /\ {w.filter.minPrice, w.filter.maxPrice} \subseteq Nat \cup {Null}
       /\ w.filter.formats = Null \/ {"fixed_price", "unknown"} \subseteq w.filter.formats

U == INSTANCE UrlPolicy

VARIABLES walk,      \* the walk being walked
          url,       \* the page to visit, or on show
          offset,    \* where in its rows the next answer starts
          state, retried, redirects, loads,
          returned,  \* the ids of the rows returned so far
          told,      \* the warnings given so far
          rest,      \* the url the tab rests on
          body       \* the ad whose body is read: [length, maxChars, covered]

walkVars == <<walk, url, offset, state, retried, redirects, loads, returned, told, rest, body>>

Total      == Len(walk.listings)
LastPage   == (Total + walk.size - 1) \div walk.size
PageNumber == Else(url.page, 1)
RowsOn(n)  == SubSeq(walk.listings, (n - 1) * walk.size + 1, Min({Total, n * walk.size}))

(***************************************************************************)
(* What the site serves.                                                   *)
(***************************************************************************)
KijijiCard(l) ==
  LET cell == [free |-> FALSE, contact |-> l.contact, swap |-> FALSE, amount |-> l.amount]
  IN  [title |-> l.title, linkText |-> Null, run |-> TRUE,
       price |-> IF l.shown = "element" THEN cell ELSE Null,
       amounts |-> CASE l.contact -> <<>>
                     [] ~l.contact /\ l.shown = "twice" -> <<l.amount, l.amount + 1>>
                     [] OTHER -> <<l.amount>>,
       titleAmounts |-> <<>>, label |-> IF l.contact THEN cell ELSE Null,
       place |-> Null, named |-> Null, details |-> Null, stamp |-> Null]

KijijiPage ==
  LET rows == RowsOn(PageNumber)
  IN  [site |-> "kijiji", kind |-> "search", challenge |-> FALSE, late |-> Null, url |-> url,
       anchors |-> [i \in DOMAIN rows |->
                      [onSite |-> TRUE, toSearch |-> FALSE, id |-> rows[i].id, card |-> KijijiCard(rows[i])]],
       next |-> <<IF walk.style = "linked" /\ PageNumber < LastPage THEN NextKijijiPageUrl(url) ELSE Null>>,
       counts |-> CASE walk.style = "ranged" ->
                         <<[range |-> [through |-> Min({Total, PageNumber * walk.size}), of |-> Total], total |-> Null]>>
                    [] walk.style = "titled" -> <<[range |-> Null, total |-> Total]>>
                    [] OTHER -> <<>>,
       cache |-> IF walk.style # "cached" THEN Null
                 ELSE [path |-> PathOf(url), keywords |-> Null, ads |-> <<>>,
                       pagination |-> [offset |-> (PageNumber - 1) * walk.size, totalCount |-> Total]],
       h1Term |-> Null, titleTerm |-> Null, observedAt |-> 0]

EbayCard(l) ==
  LET words(p, v) == [E!NoWords EXCEPT ![p] = v]
      quote  == [mark |-> "CAD", value |-> l.amount]
      amount == words("money", [quotes |-> <<quote>>, approx |-> Null, free |-> "no", to |-> FALSE])
  IN  [title |-> [name |-> l.title, badge |-> Null, seam |-> FALSE, says |-> E!NoWords], anchor |-> Null, wraps |-> FALSE,
       price |-> IF l.shown = "element" /\ ~l.contact THEN amount ELSE Null, ship |-> Null, bid |-> Null,
       place |-> words("place", [name |-> "ON", kept |-> 2, uncut |-> TRUE, digit |-> FALSE, letters |-> 2]),
       seller |-> words("seller", "s1"), badge |-> FALSE, format |-> <<>>, sold |-> <<>>,
       rest |-> IF l.shown = "text" /\ ~l.contact THEN amount ELSE E!NoWords]

\* Past its last page the site serves that page again and marks it.
EbayPage ==
  LET n    == Min({PageNumber, LastPage})
      rows == RowsOn(n)
      next(disabled, href) == <<[next |-> TRUE, disabled |-> disabled, href |-> href]>>
  IN  [site |-> "ebay", kind |-> "search", challenge |-> FALSE, url |-> url, soldAsked |-> FALSE, summary |-> FALSE,
       links |-> [i \in DOMAIN rows |-> [id |-> rows[i].id, groups |-> {1}, known |-> TRUE,
                                         rings |-> <<[ids |-> 1, card |-> EbayCard(rows[i])]>>]],
       divider |-> Null, count |-> IF walk.style = "bare" THEN Null ELSE [n |-> Total, plus |-> FALSE],
       controls |-> CASE walk.style = "linked" ->
                           next(n = LastPage, IF n = LastPage THEN Null ELSE E!WithPage(url, n + 1))
                      [] walk.style = "button"  -> next(n = LastPage, Null)
                      [] walk.style = "endless" -> next(FALSE, Null)
                      [] OTHER -> <<>>,
       selected |-> n, errorTitle |-> FALSE]

AdPage ==
  [site |-> "kijiji", kind |-> "listing", challenge |-> FALSE,
   urls |-> <<Null, [ad |-> 1, onSite |-> TRUE], Null, Null>>, sku |-> Null, ldName |-> Null, title |-> 1, ogTitle |-> Null,
   cache |-> Null, ldPrice |-> Null, ldCurrency |-> Null, priceEls |-> <<>>, ldPlaces |-> <<>>, places |-> <<>>,
   scopes |-> <<>>, locality |-> Null, ldPosted |-> <<>>, timeStamp |-> Null, timeText |-> Null, postedTexts |-> <<>>,
   ldSeller |-> Null, sellerEls |-> <<>>, profiles |-> <<>>,
   ldBody |-> [length |-> body.length, figures |-> <<>>, place |-> Null, mls |-> FALSE], bodies |-> <<>>, groups |-> <<>>,
   badge |-> Null, galleries |-> <<>>, ldImages |-> Null, banners |-> Null, lead |-> {}, replyForm |-> TRUE]

FirstUrl(site) ==
  IF site = "kijiji"
  THEN [kind |-> "b", page |-> Null, segments |-> 2, slugs |-> <<"lego">>, region |-> 1, q |-> Null, sort |-> Null,
        inert |-> {}, adRemoved |-> Null]
  ELSE [host |-> "ebay.ca", page |-> Null, size |-> walk.size, seller |-> Null]

\* A page's address as the policy sees it.
Address(site) == [scheme |-> "https", host |-> <<"www", site, "ca">>, literal |-> Null, hits |-> {}, raw |-> {}]

(***************************************************************************)
(* The walk.                                                               *)
(***************************************************************************)
Session == U!MergeSiteProfiles(walk.profiles)
Resolutions == {Null, {"public"}}

WalkInit ==
  /\ walk \in Walks
  /\ url = FirstUrl(walk.site)
  /\ offset = 0 /\ state = "navigate" /\ retried = FALSE /\ redirects = 0 /\ loads = 0
  /\ returned = {} /\ told = {} /\ rest = Null /\ body = Null

\* navigate: the url the caller names has to pass outright.
Navigate ==
  /\ state = "navigate" /\ loads < MaxLoads
  /\ \E resolved \in Resolutions :
       state' = IF U!CheckUrl(Address(walk.site), Session, "navigation", resolved).allowed THEN "landing" ELSE "refused"
  /\ retried' = FALSE /\ redirects' = 0 /\ loads' = loads + 1 /\ offset' = 0
  /\ UNCHANGED <<walk, url, returned, told, rest, body>>

InterstitialBlockCodes == {"SCHEME_DENIED", "ORIGIN_DENIED", "PRIVATE_NETWORK_DENIED"}

\* landOnce: the page is served, and the tab rests on it.
Land ==
  /\ state = "landing"
  /\ state' = "read" /\ rest' = Address(walk.site)
  /\ UNCHANGED <<walk, url, offset, retried, redirects, loads, returned, told, body>>

\* landOnce: the site sends the tab somewhere else.  A url that policy
\* refuses parks the tab; the requested one is tried once more unless the
\* refusal is of a protected page.
LandElsewhere ==
  /\ state = "landing"
  /\ \E detour \in Detours, resolved \in Resolutions :
       LET verdict == U!CheckUrl(detour, Session, "redirect", resolved)
           again   == verdict.code \in InterstitialBlockCodes /\ ~retried
       IN  /\ rest' = IF verdict.allowed THEN detour ELSE Null
           /\ state' = IF verdict.allowed THEN "elsewhere" ELSE IF again THEN "landing" ELSE "refused"
           /\ retried' = (retried \/ (~verdict.allowed /\ again))
           /\ redirects' = redirects + 1
  /\ UNCHANGED <<walk, url, offset, loads, returned, told, body>>

IdOf(row) == Else(C!ValueAt(row, "adId"), C!ValueAt(row, "itemId"))

\* Where the caller goes from an answer: on in its rows, to the next page, or
\* to the end of the walk.
Follow(record, warnings) ==
  LET onwards == record.hasNextPage = TRUE /\ record.nextPageUrl # Null
  IN  /\ returned' = returned \cup {IdOf(row) : row \in Range(record.candidates)}
      /\ told' = told \cup warnings
      /\ offset' = Else(record.nextOffset, 0)
      /\ url' = IF ~record.hasMore /\ onwards THEN record.nextPageUrl ELSE url
      /\ state' = IF record.hasMore THEN "read" ELSE IF onwards THEN "navigate" ELSE "done"

FollowAnswer(answer) == Follow(answer.record, answer.warnings)

Options == [offset |-> offset, limit |-> walk.limit, fields |-> Null, include |-> walk.filter, canonicalize |-> TRUE]

\* browser_extract of the page.
Extract ==
  /\ state = "read"
  /\ \E scanned \in {Null, 1} :
       FollowAnswer(ExecuteExtract(IF walk.site = "kijiji" THEN KijijiPage ELSE EbayPage, FALSE, Null, Options, scanned))
  /\ UNCHANGED <<walk, retried, redirects, loads, rest, body>>

\* The caller opens an ad it found.
OpenAd ==
  /\ state = "done" /\ walk.site = "kijiji"
  /\ \E b \in Bodies : body' = [length |-> b.length, maxChars |-> b.maxChars, covered |-> 0]
  /\ state' = "body"
  /\ UNCHANGED <<walk, url, offset, retried, redirects, loads, returned, told, rest>>

\* How far the body is covered; the excerpt is all a short body or a caller
\* without a window gets.
CoveredBy(window) ==
  IF window = Null THEN Max({body.covered, Min({ExcerptChars, body.length})})
  ELSE IF window.offset <= body.covered THEN window.upTo ELSE body.covered

\* The caller asks for another window while the answer says the body goes on.
KeepWindow(window, warnings) ==
  LET more == "DESCRIPTION_TRUNCATED" \in warnings /\ window # Null
  IN  /\ body' = [body EXCEPT !.covered = CoveredBy(window)]
      /\ state' = IF more THEN "body" ELSE "finished"
      /\ told' = IF more THEN told ELSE told \cup warnings

KeepAnswer(answer) == KeepWindow(answer.record.descriptionFull, answer.warnings)

\* browser_extract of the ad with the window that starts where the last one
\* ended.
ReadWindow ==
  /\ state = "body"
  /\ KeepAnswer(ExecuteExtract(AdPage, TRUE, [maxChars |-> body.maxChars, offset |-> body.covered], Null, Null))
  /\ UNCHANGED <<walk, url, offset, retried, redirects, loads, returned, rest>>

Ended == state \in {"finished", "refused", "elsewhere"} \/ (state = "done" /\ walk.site # "kijiji")
         \/ (state = "navigate" /\ loads = MaxLoads)

Stop == Ended /\ UNCHANGED walkVars

WalkNext == Navigate \/ Land \/ LandElsewhere \/ Extract \/ OpenAd \/ ReadWindow \/ Stop

WalkSpec == WalkInit /\ [][WalkNext]_walkVars

(***************************************************************************)
(* Properties.                                                             *)
(***************************************************************************)
\* What a listing is to the caller's filters.
Wanted(l) ==
  /\ walk.filter.titles = Null \/ l.title \in walk.filter.titles
  /\ \/ l.contact
     \/ /\ walk.filter.minPrice = Null \/ l.amount >= walk.filter.minPrice
        /\ walk.filter.maxPrice = Null \/ l.amount <= walk.filter.maxPrice

Ids(P(_)) == {l.id : l \in {m \in Range(walk.listings) : P(m)}}

\* The answers that say the walk is not the whole result set.
Shortfalls ==
  {"PAGINATION_METADATA_ABSENT", "SEARCH_PAGINATION_UNSTATED", "SEARCH_FILTER_BUDGET_EXCEEDED", "CANDIDATES_TRUNCATED",
   "EXCLUDED_NO_PRICE", "EXCLUDED_UNKNOWN_FORMAT"}

\* A caller that follows nextOffset and nextPageUrl to the end has been given
\* every listing that passes its filters, or was told on the way that it had
\* not; and at no time is it given one that does not pass them.
WalkReturnsEveryMatch ==
  /\ returned \subseteq Ids(Wanted)
  /\ state \in {"done", "body", "finished"} /\ told \cap Shortfalls = {} => Ids(Wanted) \subseteq returned

\* Wherever a session under several profiles comes to rest, each of them that
\* admits the host allows the page: composing profiles never opens a host or
\* a sign-in page one of them has closed (mergeProfiles.ts:10-13).
OwnProfileHolds ==
  rest # Null =>
    \A member \in walk.profiles :
      U!HostMatchesAllowlist(rest.host, member.allowedHosts) =>
        U!CheckUrl(rest, member, "redirect", {"public"}).allowed

\* The windows of an ad's body, each read where the one before it ended, make
\* up the whole of it, and none is asked for past its end; a body that was
\* not read whole is announced as cut (extract.ts:1150-1205).
WindowsReadWholeBody ==
  /\ "DESCRIPTION_OFFSET_BEYOND_END" \notin told
  /\ state = "finished" => body.covered = body.length \/ "DESCRIPTION_TRUNCATED" \in told
=============================================================================
