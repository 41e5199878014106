-------------------------- MODULE SearchWalk_proofs --------------------------
(***************************************************************************)
(* Where a walk may come to rest, for every roster of profiles, every site *)
(* and every detour: the composite profile is checked at the request and   *)
(* at each redirect, and what it lets through each member lets through.    *)
(* Then what a caller gets to read of an ad's body, for every body; what   *)
(* two of the readers never do, whatever a page shows; and, for every      *)
(* result set, page size and filter, that a walk misses no match.          *)
(***************************************************************************)
EXTENDS SearchWalk, RenderedPages, SequenceTheorems, FiniteSetTheorems, WellFoundedInduction, TLAPS

(* Both kinds of check, whatever the resolver said, let through no more     *)
(* than the check of a redirect to a public address.                        *)
LEMMA ChecksAgree ==
  ASSUME NEW address, NEW profile, NEW context \in {"navigation", "redirect"}, NEW resolved \in Resolutions,
         U!CheckUrl(address, profile, context, resolved).allowed
  PROVE  U!CheckUrl(address, profile, "redirect", {"public"}).allowed
<1>1. /\ U!SchemePermitted(address, profile)
      /\ ~U!HostMatchesAllowlist(address.host, profile.deniedHosts)
      /\ U!HostMatchesAllowlist(address.host, profile.allowedHosts)
      /\ ~(context \in U!AuthBlockedContexts /\ U!IsAuthPathBlocked(address, profile))
      /\ U!PublicAddress(address, profile, context, resolved)
  BY DEF U!CheckUrl, U!Denied, U!Allowed
<1>2. ~U!IsAuthPathBlocked(address, profile)
  BY <1>1 DEF U!AuthBlockedContexts
<1>3. U!PublicAddress(address, profile, "redirect", {"public"})
  <2>1. CASE address.literal # Null
    BY <1>1, <2>1 DEF U!PublicAddress
  <2>2. CASE address.literal = Null
    <3>1. resolved # Null /\ resolved # {} /\ (profile.privateNetworks \/ resolved \subseteq {"public"})
      BY <1>1, <2>2 DEF U!PublicAddress
    <3>2. resolved = {"public"}
      BY <3>1 DEF Resolutions
    <3> QED
      BY <2>2, <3>1, <3>2 DEF U!PublicAddress
  <2> QED
    BY <2>1, <2>2
<1> QED
  BY <1>1, <1>2, <1>3 DEF U!CheckUrl, U!Allowed

(* A redirect that passes the composite passes each member that admits its  *)
(* host.                                                                    *)
LEMMA MembersAgree ==
  ASSUME NEW profiles, NEW member \in profiles, NEW address,
         U!HostMatchesAllowlist(address.host, member.allowedHosts),
         U!CheckUrl(address, U!MergeSiteProfiles(profiles), "redirect", {"public"}).allowed
  PROVE  U!CheckUrl(address, member, "redirect", {"public"}).allowed
<1> DEFINE m == U!MergeSiteProfiles(profiles)
<1>1. CASE \E p \in profiles : profiles = {p}
  <2>1. m = member
    BY <1>1 DEF U!MergeSiteProfiles
  <2> QED
    BY <2>1
<1>2. CASE ~ \E p \in profiles : profiles = {p}
  <2>1. /\ member.deniedHosts \subseteq m.deniedHosts /\ member.auth \subseteq m.auth
        /\ m.insecureHttp = FALSE /\ m.privateNetworks = FALSE
    BY <1>2 DEF U!MergeSiteProfiles
  <2> HIDE DEF m
  <2>2. U!CheckUrl(address, m, "redirect", {"public"}).allowed
    BY DEF m
  <2>3. /\ U!SchemePermitted(address, m)
        /\ ~U!HostMatchesAllowlist(address.host, m.deniedHosts)
        /\ ~("redirect" \in U!AuthBlockedContexts /\ U!IsAuthPathBlocked(address, m))
        /\ U!PublicAddress(address, m, "redirect", {"public"})
    BY <2>2 DEF U!CheckUrl, U!Denied, U!Allowed
  <2>4. U!SchemePermitted(address, member)
    BY <2>1, <2>3 DEF U!SchemePermitted
  <2>5. ~U!HostMatchesAllowlist(address.host, member.deniedHosts)
    BY <2>1, <2>3 DEF U!HostMatchesAllowlist
  <2>6. ~("redirect" \in U!AuthBlockedContexts /\ U!IsAuthPathBlocked(address, member))
    BY <2>1, <2>3 DEF U!IsAuthPathBlocked
  <2>7. U!PublicAddress(address, member, "redirect", {"public"})
    BY <2>1, <2>3 DEF U!PublicAddress
  <2> QED
    BY <2>4, <2>5, <2>6, <2>7 DEF U!CheckUrl, U!Allowed
<1> QED
  BY <1>1, <1>2

(* What the composite lets a redirect do.                                   *)
Admitted(address) == U!CheckUrl(address, Session, "redirect", {"public"}).allowed

(* While a page is requested its address has passed; where the tab rests,   *)
(* too.                                                                     *)
WalkInv ==
  /\ state = "landing" => Admitted(Address(walk.site))
  /\ rest # Null => Admitted(rest)

LEMMA WalkStep == WalkInv /\ [WalkNext]_walkVars => WalkInv'
<1> SUFFICES ASSUME WalkInv, [WalkNext]_walkVars PROVE WalkInv'
  OBVIOUS
<1>1. CASE Navigate
  <2>1. PICK resolved \in Resolutions :
          state' = IF U!CheckUrl(Address(walk.site), Session, "navigation", resolved).allowed THEN "landing" ELSE "refused"
    BY <1>1 DEF Navigate
  <2>2. state' = "landing" => Admitted(Address(walk.site))
    BY <2>1, ChecksAgree DEF Admitted
  <2>3. walk' = walk /\ rest' = rest
    BY <1>1 DEF Navigate
  <2> QED
    BY <2>2, <2>3 DEF WalkInv, Admitted, Session, Address
<1>2. CASE Land
  <2>1. state = "landing" /\ state' = "read" /\ rest' = Address(walk.site) /\ walk' = walk
    BY <1>2 DEF Land
  <2>2. Admitted(Address(walk.site))
    BY <2>1 DEF WalkInv
  <2> QED
    BY <2>1, <2>2 DEF WalkInv, Admitted, Session
<1>3. CASE LandElsewhere
  <2>1. PICK detour \in Detours, resolved \in Resolutions :
          LET verdict == U!CheckUrl(detour, Session, "redirect", resolved)
          IN  rest' = IF verdict.allowed THEN detour ELSE Null
    BY <1>3 DEF LandElsewhere
  <2>2. state = "landing" /\ walk' = walk
    BY <1>3 DEF LandElsewhere
  <2>3. Admitted(Address(walk.site))
    BY <2>2 DEF WalkInv
  <2>4. rest' # Null => Admitted(detour) /\ rest' = detour
    BY <2>1, ChecksAgree DEF Admitted
  <2> QED
    BY <2>2, <2>3, <2>4 DEF WalkInv, Admitted, Session, Address
<1>4. CASE Extract
  <2>1. walk' = walk /\ rest' = rest
    BY <1>4 DEF Extract
  <2>2. PICK answer : FollowAnswer(answer)
    BY <1>4 DEF Extract
  <2>3. state' # "landing"
    BY <2>2 DEF FollowAnswer, Follow
  <2> QED
    BY <2>1, <2>3 DEF WalkInv, Admitted, Session
<1>5. CASE OpenAd
  BY <1>5 DEF OpenAd, WalkInv, Admitted, Session
<1>6. CASE ReadWindow
  <2>1. walk' = walk /\ rest' = rest
    BY <1>6 DEF ReadWindow
  <2>2. PICK answer : KeepAnswer(answer)
    BY <1>6 DEF ReadWindow
  <2>3. state' # "landing"
    BY <2>2 DEF KeepAnswer, KeepWindow
  <2> QED
    BY <2>1, <2>3 DEF WalkInv, Admitted, Session
<1>7. CASE UNCHANGED walkVars
  BY <1>7 DEF walkVars, WalkInv, Admitted, Session, Address
<1> QED
  BY <1>1, <1>2, <1>3, <1>4, <1>5, <1>6, <1>7 DEF WalkNext, Stop

(* "The composite is therefore never more permissive on any one site than   *)
(* that site's own profile" (mergeProfiles.ts:10-13), at every page a walk  *)
(* comes to rest on, redirected or not.                                     *)
THEOREM OwnProfileAlwaysHolds == WalkSpec => []OwnProfileHolds
<1>1. WalkInit => WalkInv
  BY DEF WalkInit, WalkInv
<1>2. WalkInv /\ [WalkNext]_walkVars => WalkInv'
  BY WalkStep
<1>3. WalkInv => OwnProfileHolds
  <2> SUFFICES ASSUME WalkInv, rest # Null, NEW member \in walk.profiles,
                      U!HostMatchesAllowlist(rest.host, member.allowedHosts)
               PROVE  U!CheckUrl(rest, member, "redirect", {"public"}).allowed
    BY DEF OwnProfileHolds
  <2>1. U!CheckUrl(rest, U!MergeSiteProfiles(walk.profiles), "redirect", {"public"}).allowed
    BY DEF WalkInv, Admitted, Session
  <2> QED
    BY <2>1, MembersAgree
<1> QED
  BY <1>1, <1>2, <1>3, PTL DEF WalkSpec

-----------------------------------------------------------------------------
(* Only the reader of an ad speaks of its body.                              *)

Beyond == "DESCRIPTION_OFFSET_BEYOND_END"
Cut == "DESCRIPTION_TRUNCATED"
Silence(warnings) == Beyond \notin warnings /\ Cut \notin warnings

LEMMA WarnsOf ==
  ASSUME NEW name, NEW on, name \notin {Beyond, Cut}
  PROVE  Silence(Warn(on, name))
BY DEF Silence, Warn

LEMMA Silences ==
  ASSUME NEW a, NEW b, Silence(a), Silence(b)
  PROVE  Silence(a \cup b)
BY DEF Silence

LEMMA KijijiSearchSilent ==
  ASSUME NEW doc, NEW rows, NEW total, NEW more, NEW next
  PROVE  Silence(SearchPage(doc, rows, total, more, next).warnings)
<1>1. Silence(SearchWarnings(doc, rows))
  BY DEF SearchWarnings, Silence, Warn, Beyond, Cut
<1>2. SearchPage(doc, rows, total, more, next).warnings = SearchWarnings(doc, rows)
        \cup (IF rows # <<>> /\ total = Null /\ next = Null THEN {"PAGINATION_METADATA_ABSENT"} ELSE {})
  BY DEF SearchPage
<1> QED
  BY <1>1, <1>2 DEF Silence, Beyond, Cut

LEMMA EbayMetaSilent ==
  ASSUME NEW doc, NEW rows
  PROVE  Silence(E!ExtractSearchPageMeta(doc, rows).warnings)
<1>1. Silence(E!CardProvenanceWarnings(rows))
  BY DEF E!CardProvenanceWarnings, Silence, Beyond, Cut
<1>2. ASSUME NEW seller PROVE Silence(E!SellerWarnings(rows, seller))
  BY DEF E!SellerWarnings, Silence, Beyond, Cut
<1> QED
  BY <1>1, <1>2 DEF E!ExtractSearchPageMeta, Silence, E!Warn, Beyond, Cut

LEMMA CompactionSilent ==
  ASSUME NEW page, NEW options, NEW scanned
  PROVE  Silence(C!CompactSearchPage(page, options, scanned).warnings)
<1>1. ASSUME NEW rows, NEW include PROVE Silence(C!FilterWarnings(rows, include))
  BY DEF C!FilterWarnings, Silence, C!Warn, Beyond, Cut
<1>2. ASSUME NEW considered, NEW fields, NEW sent PROVE Silence(C!FieldWarnings(considered, fields, sent))
  BY DEF C!FieldWarnings, Silence, C!Warn, Beyond, Cut
<1>3. ASSUME NEW cut, NEW matched, NEW sent, NEW warnings, Silence(warnings)
      PROVE  Silence(C!CompactedPage(page, options, cut, matched, sent, warnings).warnings)
  BY <1>2, <1>3 DEF C!CompactedPage, Silence, C!Warn, Beyond, Cut
<1> QED
  BY <1>1, <1>3 DEF C!CompactSearchPage, C!CompactScanned, C!CompactRows

\* The answer about a page of search results says nothing of a body.
LEMMA ReducedSilent ==
  ASSUME NEW page, NEW warnings, NEW options, NEW scanned, Silence(warnings)
  PROVE  LET answer == ApplySearchCompaction(page, warnings, options, scanned) IN
         Silence(answer.warnings) /\ "warnings" \in DOMAIN answer
<1>1. CASE options = Null
  BY <1>1 DEF ApplySearchCompaction
<1>2. CASE options # Null
  <2>1. Silence(C!CompactSearchPage(page, options, scanned).warnings)
    BY CompactionSilent
  <2> QED
    BY <1>2, <2>1 DEF ApplySearchCompaction, Answer, Silence
<1> QED
  BY <1>1, <1>2

LEMMA KijijiAnswerSilent ==
  ASSUME NEW doc, NEW options, NEW scanned, doc.site = "kijiji", doc.kind = "search", doc.challenge = FALSE
  PROVE  Silence(ExecuteExtract(doc, FALSE, Null, options, scanned).warnings)
<1> DEFINE page == ExtractSearchResults(doc)
           read == [page |-> page, waited |-> {}]
<1>1. ExecuteExtract(doc, FALSE, Null, options, scanned) = KijijiAnswer(doc, read, options, scanned)
  <2>1. ReadOnceMore(doc, page, FALSE) = read
    BY DEF ReadOnceMore
  <2> HIDE DEF page, read
  <2>2. ReadKijiji(doc, FALSE, Null, options, scanned) = KijijiAnswer(doc, read, options, scanned)
    BY <2>1 DEF ReadKijiji, page
  <2> QED
    BY <2>2 DEF ExecuteExtract
<1>2. Silence(page.warnings)
  BY KijijiSearchSilent DEF ExtractSearchResults, ResultSet, CountedPage
<1>3. read.page = page /\ read.waited = {}
  OBVIOUS
<1> HIDE DEF page, read
<1>4. Silence(KijijiWarnings(doc, page))
  BY <1>2 DEF KijijiWarnings, KijijiSearchUrlWarnings, KijijiKeywordWarnings, Silence, Warn, Beyond, Cut
<1>5. Silence(read.waited \cup KijijiWarnings(doc, read.page))
  BY <1>3, <1>4 DEF Silence
<1> DEFINE rows == RowsPage("kijiji", doc.kind, read.page.results, FALSE, read.page.hasNextPage, read.page.nextPageUrl)
           answer == ApplySearchCompaction(rows, read.waited \cup KijijiWarnings(doc, read.page), options, scanned)
<1>6. Silence(answer.warnings) /\ "warnings" \in DOMAIN answer
  BY <1>5, ReducedSilent
<1>7. KijijiAnswer(doc, read, options, scanned) =
        [answer EXCEPT !.record = @ ++ [removedAdId |-> read.page.removedAdId]]
  BY DEF KijijiAnswer
<1> HIDE DEF answer
<1>8. KijijiAnswer(doc, read, options, scanned).warnings = answer.warnings
  BY <1>6, <1>7
<1> QED
  BY <1>1, <1>6, <1>8

LEMMA EbayAnswerSilent ==
  ASSUME NEW doc, NEW options, NEW scanned, doc.site = "ebay", doc.kind = "search", doc.challenge = FALSE
  PROVE  Silence(ExecuteExtract(doc, FALSE, Null, options, scanned).warnings)
<1> DEFINE rows == E!ExtractListingCandidates(doc)
           meta == MetaOf(doc, rows)
<1>1. ExecuteExtract(doc, FALSE, Null, options, scanned) = EbayRowsAnswer(doc, rows, meta, options, scanned)
  <2>1. ReadEbay(doc, options, scanned) = EbayRowsAnswer(doc, rows, meta, options, scanned)
    BY DEF ReadEbay, ReadEbayRows, EbayRows
  <2> HIDE DEF rows, meta
  <2> QED
    BY <2>1 DEF ExecuteExtract
<1>2. Silence(meta.warnings)
  BY EbayMetaSilent DEF MetaOf
<1> HIDE DEF rows, meta
<1>3. Silence(PageWarnings(doc, rows))
  BY DEF PageWarnings, Silence, Warn, Beyond, Cut
<1>4. Silence(RowWarnings(rows))
  BY DEF RowWarnings, Silence, Warn, Beyond, Cut
<1>5. Silence(SoldWarnings(doc, rows))
  BY DEF SoldWarnings, Silence, Warn, Beyond, Cut
<1>6. Silence(PageWarnings(doc, rows) \cup RowWarnings(rows) \cup SoldWarnings(doc, rows) \cup meta.warnings)
  BY <1>2, <1>3, <1>4, <1>5 DEF Silence
<1> QED
  BY <1>1, <1>6, ReducedSilent DEF EbayRowsAnswer

\* The answer about an ad carries the window asked for and what there is to say of it.
LEMMA AdAnswer ==
  ASSUME NEW doc, NEW ask, doc.site = "kijiji", doc.kind = "listing", doc.challenge = FALSE, Body(doc) # Null
  PROVE  LET answer == ExecuteExtract(doc, TRUE, ask, Null, Null) IN
         /\ answer.record.descriptionFull = DescriptionFull(Body(doc), ask)
         /\ Beyond \in answer.warnings <=> BeyondEnd(Body(doc), ask)
         /\ Cut \in answer.warnings <=>
              Body(doc).length > ReturnedEnd(Body(doc), ask) /\ ~ BeyondEnd(Body(doc), ask)
<1> DEFINE listing == ExtractKijijiListing(doc, ask)
<1>1. ExecuteExtract(doc, TRUE, ask, Null, Null) = [record |-> listing, warnings |-> {} \cup listing.warnings]
  <2>1. ReadKijiji(doc, TRUE, ask, Null, Null) = [record |-> listing, warnings |-> {} \cup listing.warnings]
    BY DEF ReadKijiji, Answer
  <2> HIDE DEF listing
  <2> QED
    BY <2>1 DEF ExecuteExtract
<1>2. ASSUME NEW price, NEW location, NEW rows, NEW seller
      PROVE  LET l == KijijiListing(doc, ask, Body(doc), price, location, rows, seller) IN
             /\ l.descriptionFull = DescriptionFull(Body(doc), ask)
             /\ Beyond \in l.warnings <=> BeyondEnd(Body(doc), ask)
             /\ Cut \in l.warnings <=>
                  Body(doc).length > ReturnedEnd(Body(doc), ask) /\ ~ BeyondEnd(Body(doc), ask)
  <2> DEFINE figures == BodyPriceFigures(Body(doc))
             listed == IF In(price, "kind") = "amount" THEN price.value ELSE Null
             l == KijijiListing(doc, ask, Body(doc), price, location, rows, seller)
             others == IdWarnings(doc) \cup PriceWarnings(doc, price) \cup PlaceWarnings(location, Body(doc))
                         \cup Warn(PostedAt(doc) = Null /\ PostedText(doc) # Null, "POSTED_AT_UNPARSED")
                         \cup SellerWarnings(doc, Body(doc), seller) \cup SizeWarnings(rows, SizeSqft(rows))
  <2>1. l.descriptionFull = DescriptionFull(Body(doc), ask)
    BY DEF KijijiListing
  <2>2. l.warnings = BodyWarnings(Body(doc), ask, figures, listed) \cup others
    BY DEF KijijiListing
  <2>3. Silence(others)
    <3>1. Silence(IdWarnings(doc))
      BY DEF IdWarnings, Silence, Warn, Beyond, Cut
    <3>2. Silence(PriceWarnings(doc, price))
      BY DEF PriceWarnings, Silence, Warn, Beyond, Cut
    <3>3. Silence(PlaceWarnings(location, Body(doc)))
      BY DEF PlaceWarnings, Silence, Warn, Beyond, Cut
    <3>4. Silence(Warn(PostedAt(doc) = Null /\ PostedText(doc) # Null, "POSTED_AT_UNPARSED"))
      BY DEF Silence, Warn, Beyond, Cut
    <3>5. Silence(SellerWarnings(doc, Body(doc), seller))
      BY DEF SellerWarnings, Silence, Warn, Beyond, Cut
    <3>6. Silence(SizeWarnings(rows, SizeSqft(rows)))
      BY DEF SizeWarnings, Silence, Warn, Beyond, Cut
    <3> QED
      BY <3>1, <3>2, <3>3, <3>4, <3>5, <3>6 DEF Silence
  <2> HIDE DEF figures, listed, l, others
  <2>4. /\ Beyond \in BodyWarnings(Body(doc), ask, figures, listed) <=> BeyondEnd(Body(doc), ask)
        /\ Cut \in BodyWarnings(Body(doc), ask, figures, listed) <=>
             Body(doc).length > ReturnedEnd(Body(doc), ask) /\ ~ BeyondEnd(Body(doc), ask)
    BY DEF BodyWarnings, Warn, Beyond, Cut
  <2> QED
    BY <2>1, <2>2, <2>3, <2>4 DEF Silence, l
<1>3. PICK price, location, rows, seller : listing = KijijiListing(doc, ask, Body(doc), price, location, rows, seller)
  BY DEF ExtractKijijiListing
<1> HIDE DEF listing
<1>4. /\ listing.descriptionFull = DescriptionFull(Body(doc), ask)
      /\ Beyond \in listing.warnings <=> BeyondEnd(Body(doc), ask)
      /\ Cut \in listing.warnings <=>
           Body(doc).length > ReturnedEnd(Body(doc), ask) /\ ~ BeyondEnd(Body(doc), ask)
  BY <1>2, <1>3
<1> DEFINE answer == ExecuteExtract(doc, TRUE, ask, Null, Null)
           made == [record |-> listing, warnings |-> {} \cup listing.warnings]
<1>5. answer.record = listing /\ answer.warnings = {} \cup listing.warnings
  <2>1. answer = made /\ made.record = listing /\ made.warnings = {} \cup listing.warnings
    BY <1>1
  <2> HIDE DEF answer, made
  <2> QED
    BY <2>1
<1> HIDE DEF answer
<1>6. /\ answer.record.descriptionFull = DescriptionFull(Body(doc), ask)
      /\ Beyond \in answer.warnings <=> BeyondEnd(Body(doc), ask)
      /\ Cut \in answer.warnings <=>
           Body(doc).length > ReturnedEnd(Body(doc), ask) /\ ~ BeyondEnd(Body(doc), ask)
  BY <1>4, <1>5
<1> QED
  BY <1>6 DEF answer

-----------------------------------------------------------------------------
(* The windows of a body                                                     *)

LEMMA MinOfTwo ==
  ASSUME NEW a \in Nat, NEW b \in Nat
  PROVE  Min({a, b}) \in {a, b} /\ Min({a, b}) <= a /\ Min({a, b}) <= b
<1>1. \E x \in {a, b} : \A y \in {a, b} : x <= y
  <2>1. CASE a <= b
    BY <2>1
  <2>2. CASE b <= a
    BY <2>2
  <2> QED
    BY <2>1, <2>2
<1> DEFINE m == CHOOSE x \in {a, b} : \A y \in {a, b} : x <= y
<1>2. m \in {a, b} /\ \A y \in {a, b} : m <= y
  BY <1>1
<1> QED
  BY <1>2 DEF Min

LEMMA MaxOfTwo ==
  ASSUME NEW a \in Nat, NEW b \in Nat
  PROVE  Max({a, b}) \in {a, b} /\ a <= Max({a, b}) /\ b <= Max({a, b})
<1>1. \E x \in {a, b} : \A y \in {a, b} : x >= y
  <2>1. CASE a <= b
    BY <2>1
  <2>2. CASE b <= a
    BY <2>2
  <2> QED
    BY <2>1, <2>2
<1> DEFINE m == CHOOSE x \in {a, b} : \A y \in {a, b} : x >= y
<1>2. m \in {a, b} /\ \A y \in {a, b} : m >= y
  BY <1>1
<1> QED
  BY <1>2 DEF Max

\* What an answer that starts where the last one ended covers: a window of what is
\* left, or, of a body served without one, its excerpt.
BodyType == [length : Nat, maxChars : Nat \cup {Null}, covered : Nat]
Ask == [maxChars |-> body.maxChars, offset |-> body.covered]

LEMMA WindowServed ==
  ASSUME body \in BodyType, body.covered < body.length \/ body.covered = 0
  PROVE  /\ ~ BeyondEnd(body, Ask)
         /\ \/ DescriptionFull(body, Ask) = Null /\ ReturnedEnd(body, Ask) = ExcerptChars
            \/ \E upTo \in Nat :
                 /\ DescriptionFull(body, Ask) = [offset |-> body.covered, upTo |-> upTo, totalChars |-> body.length]
                 /\ upTo <= body.length /\ ReturnedEnd(body, Ask) = upTo
                 /\ DescriptionFull(body, Ask) # Null
<1>1. /\ body.length \in Nat /\ body.covered \in Nat /\ body.maxChars \in Nat \cup {Null}
      /\ ExcerptChars \in Nat /\ MaxChars \in Nat /\ Null \notin Nat
  BY NullAssumption, BodiesAssumption DEF BodyType
<1>2. Ask.maxChars = body.maxChars /\ Ask.offset = body.covered
  BY DEF Ask
<1>3. RequestedDescriptionOffset(Ask) = body.covered
  <2>1. Else(Ask.offset, 0) = body.covered
    BY <1>1, <1>2 DEF Else
  <2>2. Max({0, body.covered}) = body.covered
    BY <1>1, MaxOfTwo
  <2> QED
    BY <2>1, <2>2 DEF RequestedDescriptionOffset
<1>4. ~ BeyondEnd(body, Ask)
  BY <1>1, <1>3 DEF BeyondEnd, Pages
<1>5. CASE ~ Pages(body, Ask)
  <2>1. DescriptionFull(body, Ask) = Null
    BY <1>5 DEF DescriptionFull
  <2> QED
    BY <1>4, <2>1 DEF ReturnedEnd
<1>6. CASE Pages(body, Ask)
  <2> DEFINE chars == RequestedDescriptionChars(Ask)
             upTo == Min({body.length, body.covered + chars})
  <2>1. chars \in Nat
    <3>1. body.maxChars # Null /\ chars = Min({MaxChars, Max({ExcerptChars, body.maxChars})})
      BY <1>2, <1>6 DEF Pages, RequestedDescriptionChars
    <3>2. Max({ExcerptChars, body.maxChars}) \in Nat
      BY <1>1, <3>1, MaxOfTwo
    <3> QED
      BY <1>1, <3>1, <3>2, MinOfTwo
  <2>2. upTo \in Nat /\ upTo <= body.length
    <3> HIDE DEF chars
    <3>1. body.covered + chars \in Nat
      BY <1>1, <2>1
    <3> QED
      BY <1>1, <3>1, MinOfTwo
  <2>3. DescriptionFull(body, Ask) = [offset |-> body.covered, upTo |-> upTo, totalChars |-> body.length]
    BY <1>3, <1>4, <1>6 DEF DescriptionFull
  <2> HIDE DEF upTo
  <2>4. DescriptionFull(body, Ask) \in [offset : Nat, upTo : Nat, totalChars : Nat]
    BY <1>1, <2>2, <2>3
  <2>5. DescriptionFull(body, Ask) # Null
    BY <2>4, NullAssumption
  <2>6. ReturnedEnd(body, Ask) = upTo
    BY <2>3, <2>5 DEF ReturnedEnd
  <2> QED
    BY <1>4, <2>2, <2>3, <2>5, <2>6
<1> QED
  BY <1>5, <1>6

\* How far the windows read so far reach, and what the caller has been told.
BodyInv ==
  /\ Beyond \notin told
  /\ state \in {"body", "finished"} => body \in BodyType /\ body.covered <= body.length
  /\ state = "body" => body.covered < body.length \/ body.covered = 0
  /\ state = "finished" => body.covered = body.length \/ Cut \in told

LEMMA WindowRead == BodyInv /\ ReadWindow => BodyInv'
<1> SUFFICES ASSUME BodyInv, ReadWindow PROVE BodyInv'
  OBVIOUS
<1>1. /\ body \in BodyType /\ body.covered <= body.length /\ (body.covered < body.length \/ body.covered = 0)
      /\ Beyond \notin told
  BY DEF BodyInv, ReadWindow
<1>2. body.length \in Nat /\ body.covered \in Nat /\ ExcerptChars \in Nat
  BY <1>1, BodiesAssumption DEF BodyType
<1> DEFINE answer == ExecuteExtract(AdPage, TRUE, Ask, Null, Null)
           window == answer.record.descriptionFull
           more == Cut \in answer.warnings /\ window # Null
<1>3. /\ body' = [body EXCEPT !.covered = CoveredBy(window)]
      /\ state' = IF more THEN "body" ELSE "finished"
      /\ told' = IF more THEN told ELSE told \cup answer.warnings
  BY DEF ReadWindow, KeepAnswer, KeepWindow, Ask, Cut
<1>4. /\ window = DescriptionFull(Body(AdPage), Ask)
      /\ Beyond \in answer.warnings <=> BeyondEnd(Body(AdPage), Ask)
      /\ Cut \in answer.warnings <=>
           Body(AdPage).length > ReturnedEnd(Body(AdPage), Ask) /\ ~ BeyondEnd(Body(AdPage), Ask)
      /\ Body(AdPage).length = body.length
  <2> DEFINE text == [length |-> body.length, figures |-> <<>>, place |-> Null, mls |-> FALSE]
  <2>1. text # Null
    <3>1. text \in [length : Nat, figures : {<<>>}, place : {Null}, mls : {FALSE}]
      BY <1>2
    <3> QED
      BY <3>1, NullAssumption
  <2>2. AdPage.site = "kijiji" /\ AdPage.kind = "listing" /\ AdPage.challenge = FALSE /\ AdPage.ldBody = text
    BY DEF AdPage
  <2>3. Body(AdPage) = text
    BY <2>1, <2>2 DEF Body, Else
  <2>4. text.length = body.length
    OBVIOUS
  <2> HIDE DEF text
  <2> QED
    BY <2>1, <2>2, <2>3, <2>4, AdAnswer
<1> HIDE DEF answer, window
<1>5. /\ BeyondEnd(Body(AdPage), Ask) <=> BeyondEnd(body, Ask)
      /\ DescriptionFull(Body(AdPage), Ask) = DescriptionFull(body, Ask)
      /\ ReturnedEnd(Body(AdPage), Ask) = ReturnedEnd(body, Ask)
  BY <1>4 DEF BeyondEnd, DescriptionFull, ReturnedEnd, Pages
<1>6. Beyond \notin answer.warnings /\ (Cut \in answer.warnings <=> body.length > ReturnedEnd(body, Ask))
  BY <1>1, <1>4, <1>5, WindowServed
<1>7. Beyond \notin told'
  BY <1>1, <1>3, <1>6
<1>8. CASE window = Null
  <2>1. ReturnedEnd(body, Ask) = ExcerptChars
    BY <1>1, <1>4, <1>5, <1>8, WindowServed
  <2> DEFINE part == Min({ExcerptChars, body.length})
             covered == Max({body.covered, part})
  <2>2. part \in Nat /\ part <= body.length /\ (body.length <= ExcerptChars => part = body.length)
    BY <1>2, MinOfTwo
  <2>3. covered \in Nat /\ covered <= body.length /\ (part = body.length => covered = body.length)
    <3> HIDE DEF part
    <3>1. covered \in {body.covered, part} /\ part <= covered
      BY <1>2, <2>2, MaxOfTwo
    <3> HIDE DEF covered
    <3> QED
      BY <1>1, <1>2, <2>2, <3>1
  <2>4. CoveredBy(window) = covered
    BY <1>8 DEF CoveredBy
  <2> HIDE DEF part, covered
  <2>5. state' = "finished" /\ told' = told \cup answer.warnings /\ body' = [body EXCEPT !.covered = covered]
    BY <1>3, <1>8, <2>4
  <2>6. body' \in BodyType /\ body'.covered = covered /\ body'.length = body.length
    BY <1>1, <2>3, <2>5 DEF BodyType
  <2>7. covered = body.length \/ Cut \in answer.warnings
    BY <1>2, <1>6, <2>1, <2>2, <2>3
  <2> QED
    BY <1>7, <2>3, <2>5, <2>6, <2>7 DEF BodyInv
<1>9. CASE window # Null
  <2>1. PICK upTo \in Nat : /\ window = [offset |-> body.covered, upTo |-> upTo, totalChars |-> body.length]
                            /\ upTo <= body.length /\ ReturnedEnd(body, Ask) = upTo
    BY <1>1, <1>4, <1>5, <1>9, WindowServed
  <2>2. window.offset = body.covered /\ window.upTo = upTo
    BY <2>1
  <2>3. CoveredBy(window) = upTo
    BY <1>2, <1>9, <2>2 DEF CoveredBy
  <2>4. body' = [body EXCEPT !.covered = upTo]
    BY <1>3, <2>3
  <2>5. body' \in BodyType /\ body'.covered = upTo /\ body'.length = body.length
    BY <1>1, <2>4 DEF BodyType
  <2>6. CASE body.length > upTo
    <3>1. state' = "body"
      BY <1>3, <1>6, <1>9, <2>1, <2>6
    <3> QED
      BY <1>2, <1>7, <2>1, <2>5, <2>6, <3>1 DEF BodyInv
  <2>7. CASE ~ (body.length > upTo)
    <3>1. upTo = body.length
      BY <1>2, <2>1, <2>7
    <3> QED
      BY <1>2, <1>3, <1>6, <1>7, <1>9, <2>1, <2>5, <2>7, <3>1 DEF BodyInv
  <2> QED
    BY <2>6, <2>7
<1> QED
  BY <1>8, <1>9

LEMMA BodyStep == BodyInv /\ [WalkNext]_walkVars => BodyInv'
<1> SUFFICES ASSUME BodyInv, [WalkNext]_walkVars PROVE BodyInv'
  OBVIOUS
<1>1. CASE Navigate
  BY <1>1 DEF Navigate, BodyInv
<1>2. CASE Land
  BY <1>2 DEF Land, BodyInv
<1>3. CASE LandElsewhere
  BY <1>3 DEF LandElsewhere, BodyInv
<1>4. CASE Extract
  <2> DEFINE page == IF walk.site = "kijiji" THEN KijijiPage ELSE EbayPage
  <2>1. PICK scanned \in {Null, 1} : FollowAnswer(ExecuteExtract(page, FALSE, Null, Options, scanned))
    BY <1>4 DEF Extract
  <2> DEFINE answer == ExecuteExtract(page, FALSE, Null, Options, scanned)
  <2>2. Silence(answer.warnings)
    <3>1. CASE walk.site = "kijiji"
      <4>1. KijijiPage.site = "kijiji" /\ KijijiPage.kind = "search" /\ KijijiPage.challenge = FALSE
        BY DEF KijijiPage
      <4> QED
        BY <3>1, <4>1, KijijiAnswerSilent
    <3>2. CASE walk.site # "kijiji"
      <4>1. EbayPage.site = "ebay" /\ EbayPage.kind = "search" /\ EbayPage.challenge = FALSE
        BY DEF EbayPage
      <4> QED
        BY <3>2, <4>1, EbayAnswerSilent
    <3> QED
      BY <3>1, <3>2
  <2> HIDE DEF answer
  <2>3. told' = told \cup answer.warnings /\ state' \in {"read", "navigate", "done"}
    BY <2>1 DEF answer, FollowAnswer, Follow
  <2> QED
    BY <2>2, <2>3 DEF BodyInv, Silence
<1>5. CASE OpenAd
  <2>1. PICK b \in Bodies : body' = [length |-> b.length, maxChars |-> b.maxChars, covered |-> 0]
    BY <1>5 DEF OpenAd
  <2>2. b.length \in Nat /\ b.maxChars \in Nat \cup {Null}
    BY <2>1, BodiesAssumption
  <2>3. body' \in BodyType /\ body'.covered = 0 /\ body'.length = b.length
    BY <2>1, <2>2 DEF BodyType
  <2> QED
    BY <1>5, <2>2, <2>3 DEF OpenAd, BodyInv
<1>6. CASE ReadWindow
  BY <1>6, WindowRead
<1>7. CASE UNCHANGED walkVars
  BY <1>7 DEF walkVars, BodyInv
<1> QED
  BY <1>1, <1>2, <1>3, <1>4, <1>5, <1>6, <1>7 DEF WalkNext, Stop

\* The windows of an ad's body, each asked for where the one before it ended, make up
\* the whole of it, whatever its length and the size asked for: no window is asked for
\* past the end, and a body not read whole is announced as cut.
THEOREM BodyIsReadWhole == WalkSpec => []WindowsReadWholeBody
<1>1. WalkInit => BodyInv
  BY DEF WalkInit, BodyInv
<1>2. BodyInv /\ [WalkNext]_walkVars => BodyInv'
  BY BodyStep
<1>3. BodyInv => WindowsReadWholeBody
  BY DEF BodyInv, WindowsReadWholeBody, Beyond, Cut
<1> QED
  BY <1>1, <1>2, <1>3, PTL DEF WalkSpec

-----------------------------------------------------------------------------
(* The pages as they are read                                                *)

\* The reading is of the page that is shown, whose things have the places of its kind's plain page.
PagesInv ==
  /\ kind \in DOMAIN Plain /\ DOMAIN features = Things(kind)
  /\ \A n \in Things(kind) : DOMAIN features[n] = DOMAIN Plain[kind]
  /\ reading = Reading(kind, features)

LEMMA PagesInvHolds == PagesSpec => []PagesInv
<1>1. PagesInit => PagesInv
  BY DEF PagesInit, PagesInv
<1>2. PagesInv /\ [Render]_pageVars => PagesInv'
  <2> SUFFICES ASSUME PagesInv, [Render]_pageVars PROVE PagesInv'
    OBVIOUS
  <2>1. CASE Render
    <3>1. PICK some, f, way : Show(some, f, way)
      BY <2>1 DEF Render
    <3>2. kind' = kind /\ reading' = Reading(kind, features')
      BY <2>1, <3>1 DEF Render, Show
    <3>3. features' = [n \in DOMAIN features |-> IF n \in some THEN [features[n] EXCEPT ![f] = way] ELSE features[n]]
      BY <3>1 DEF Show
    <3>4. DOMAIN features' = Things(kind)
      BY <3>3 DEF PagesInv
    <3>5. ASSUME NEW n \in Things(kind) PROVE DOMAIN features'[n] = DOMAIN Plain[kind]
      BY <3>3, <3>5 DEF PagesInv
    <3> QED
      BY <3>2, <3>4, <3>5 DEF PagesInv
  <2>2. CASE UNCHANGED pageVars
    BY <2>2 DEF pageVars, PagesInv
  <2> QED
    BY <2>1, <2>2
<1> QED
  BY <1>1, <1>2, PTL DEF PagesSpec

LEMMA TogetherKeeps ==
  ASSUME NEW f, NEW g
  PROVE  /\ DOMAIN (f ++ g) = DOMAIN f \cup DOMAIN g
         /\ \A x \in DOMAIN f : (f ++ g)[x] = f[x]
         /\ \A x \in DOMAIN g \ DOMAIN f : (f ++ g)[x] = g[x]
BY DEF ++

\* The document of an item page, and of an ad's, is the features of its one thing and says what it is.
LEMMA ItemDocument ==
  ASSUME PagesInv, kind = "item"
  PROVE  LET doc == Document(kind, features) IN
         /\ doc.site = "ebay" /\ doc.kind = "listing" /\ doc.challenge = FALSE
         /\ \A x \in {"live", "expected", "delivery", "shipTo"} : doc[x] = features[1][x]
<1> DEFINE about == [site |-> "ebay", kind |-> "listing", challenge |-> FALSE]
           thing == features[1]
<1>1. Document(kind, features) = thing ++ about
  BY DEF Document
<1>2. DOMAIN thing \cap DOMAIN about = {} /\ {"live", "expected", "delivery", "shipTo"} \subseteq DOMAIN thing
  BY PlainAssumption DEF PagesInv, Things
<1> HIDE DEF thing
<1>3. \A x \in DOMAIN about : (thing ++ about)[x] = about[x]
  BY <1>2 DEF ++
<1>4. \A x \in DOMAIN thing : (thing ++ about)[x] = thing[x]
  BY TogetherKeeps
<1>5. about.site = "ebay" /\ about.kind = "listing" /\ about.challenge = FALSE
      /\ {"site", "kind", "challenge"} \subseteq DOMAIN about
  OBVIOUS
<1> HIDE DEF about
<1> QED
  BY <1>1, <1>2, <1>3, <1>4, <1>5 DEF thing

LEMMA AdDocument ==
  ASSUME PagesInv, kind = "ad"
  PROVE  LET doc == Document(kind, features) IN
         /\ doc.site = "kijiji" /\ doc.kind = "listing" /\ doc.challenge = FALSE
         /\ \A x \in {"banners", "lead", "replyForm", "priceEls", "title"} : doc[x] = features[1][x]
<1> DEFINE about == [site |-> "kijiji", kind |-> "listing", challenge |-> FALSE]
           thing == features[1]
<1>1. Document(kind, features) = thing ++ about
  BY DEF Document
<1>2. DOMAIN thing \cap DOMAIN about = {}
      /\ {"banners", "lead", "replyForm", "priceEls", "title"} \subseteq DOMAIN thing
  BY PlainAssumption DEF PagesInv, Things
<1> HIDE DEF thing
<1>3. \A x \in DOMAIN about : (thing ++ about)[x] = about[x]
  BY <1>2 DEF ++
<1>4. \A x \in DOMAIN thing : (thing ++ about)[x] = thing[x]
  BY TogetherKeeps
<1>5. about.site = "kijiji" /\ about.kind = "listing" /\ about.challenge = FALSE
      /\ {"site", "kind", "challenge"} \subseteq DOMAIN about
  OBVIOUS
<1> HIDE DEF about
<1> QED
  BY <1>1, <1>2, <1>3, <1>4, <1>5 DEF thing

\* The quote of an item page is the one its reader makes.
LEMMA ItemShipping ==
  ASSUME NEW doc, doc.site = "ebay", doc.kind = "listing", doc.challenge = FALSE,
         NEW ask, NEW options, NEW scanned
  PROVE  ExecuteExtract(doc, FALSE, ask, options, scanned).record.shipping = L!Shipping(doc)
<1> DEFINE listing == L!ExtractListing(doc)
<1>1. listing.shipping = L!Shipping(doc)
  BY DEF L!ExtractListing, L!ListingOf
<1>2. ExecuteExtract(doc, FALSE, ask, options, scanned) = EbayListingAnswer(doc, listing)
  BY DEF ExecuteExtract, ReadEbay, ReadEbayListing
<1> HIDE DEF listing
<1>3. EbayListingAnswer(doc, listing).record = listing
  BY DEF EbayListingAnswer, Answer
<1> QED
  BY <1>1, <1>2, <1>3

LEMMA NormalizedIsItself ==
  ASSUME NEW raw, L!NormalizePostalCode(raw) # Null
  PROVE  L!NormalizePostalCode(raw) = raw /\ raw \in L!PostalCodes
BY DEF L!NormalizePostalCode

\* A verified destination is the buyer's code, as the flow read it back where it did, and
\* as the page shows it.
LEMMA VerifiedDestination ==
  ASSUME NEW doc, L!Destination(doc).verified
  PROVE  /\ doc.expected \in L!PostalCodes
         /\ L!Destination(doc).postal = doc.expected
         /\ doc.live = Null \/ doc.live.code = Null \/ doc.live.verified
         /\ (IF doc.live # Null /\ doc.live.code # Null THEN doc.live.code
             ELSE FirstThat(doc.delivery \o doc.shipTo, LAMBDA code : code # Null)) = doc.expected
<1> DEFINE live == IF doc.live = Null \/ doc.live.code = Null THEN Null
                   ELSE L!Else(L!NormalizePostalCode(doc.live.code), doc.live.code)
           dom == L!ReadDestinationPostal(doc)
           shown == FirstThat(doc.delivery \o doc.shipTo, LAMBDA code : code # Null)
<1>1. /\ L!Destination(doc).postal = L!Else(live, dom)
      /\ L!NormalizePostalCode(doc.expected) # Null
      /\ IF live # Null THEN doc.live.verified /\ L!PostalCodesMatch(live, doc.expected)
         ELSE dom # Null /\ L!PostalCodesMatch(dom, doc.expected)
  BY DEF L!Destination
<1>2. doc.live # Null /\ doc.live.code # Null => live = doc.live.code
  BY DEF L!Else, L!NormalizePostalCode
<1>3. dom = IF shown = Null THEN Null ELSE L!NormalizePostalCode(shown)
  BY DEF L!ReadDestinationPostal, L!FirstThat, FirstThat, L!Min, Min
<1>4. doc.live = Null \/ doc.live.code = Null => live = Null
  OBVIOUS
<1> HIDE DEF live, dom, shown
<1>5. doc.expected \in L!PostalCodes /\ L!NormalizePostalCode(doc.expected) = doc.expected
  BY <1>1, NormalizedIsItself
<1>6. \A code : L!PostalCodesMatch(code, doc.expected) => code = doc.expected
  BY <1>5, NormalizedIsItself DEF L!PostalCodesMatch
<1>7. CASE live # Null
  <2>1. doc.live # Null /\ doc.live.code # Null /\ live = doc.live.code
    BY <1>2, <1>4, <1>7
  <2>2. doc.live.verified /\ live = doc.expected
    BY <1>1, <1>6, <1>7
  <2>3. L!Else(live, dom) = live
    BY <1>7 DEF L!Else
  <2> QED
    BY <1>1, <1>5, <2>1, <2>2, <2>3
<1>8. CASE live = Null
  <2>1. dom = doc.expected /\ dom # Null
    BY <1>1, <1>6, <1>8
  <2>2. shown = dom
    BY <1>3, <2>1, NormalizedIsItself
  <2>3. doc.live = Null \/ doc.live.code = Null
    BY <1>2, <1>8
  <2> QED
    BY <1>1, <1>5, <1>8, <2>1, <2>2, <2>3 DEF L!Else, shown
<1> QED
  BY <1>7, <1>8

\* Whatever the site shows in any of its places: a quote is verified only when it was made to the buyer's own code.
THEOREM VerifiedAlwaysNamesTheBuyersCode == PagesSpec => []VerifiedNamesTheBuyersCode
<1>1. PagesInv => VerifiedNamesTheBuyersCode
  <2> DEFINE shipping == reading.record.shipping
             doc == Document(kind, features)
  <2> SUFFICES ASSUME PagesInv, kind = "item", shipping # Null, shipping.destinationVerified
               PROVE  /\ features[1].expected \in L!PostalCodes
                      /\ ShownDestination = features[1].expected
                      /\ shipping.destinationPostalCode = features[1].expected
                      /\ features[1].live = Null \/ features[1].live.code = Null \/ features[1].live.verified
    BY DEF VerifiedNamesTheBuyersCode
  <2>1. /\ doc.site = "ebay" /\ doc.kind = "listing" /\ doc.challenge = FALSE
        /\ doc.live = features[1].live /\ doc.expected = features[1].expected
        /\ doc.delivery = features[1].delivery /\ doc.shipTo = features[1].shipTo
    BY ItemDocument
  <2> HIDE DEF doc
  <2>2. shipping = L!Shipping(doc)
    BY <2>1, ItemShipping DEF PagesInv, Reading, doc
  <2> HIDE DEF shipping
  <2>3. L!Destination(doc).verified /\ shipping.destinationPostalCode = L!Destination(doc).postal
    BY <2>2 DEF L!Shipping, L!ShippingTo
  <2> QED
    BY <2>1, <2>3, VerifiedDestination DEF ShownDestination
<1> QED
  BY <1>1, PagesInvHolds, PTL

\* The status of an ad is what its reader makes of its banners and its text.
LEMMA AdStatus ==
  ASSUME NEW doc, doc.site = "kijiji", doc.kind = "listing", doc.challenge = FALSE,
         NEW ask, NEW options, NEW scanned
  PROVE  LET record == ExecuteExtract(doc, FALSE, ask, options, scanned).record IN
         /\ "listingStatus" \in DOMAIN record /\ "removedAdId" \notin DOMAIN record
         /\ record.listingStatus = DetectKijijiListingStatus(doc)
<1> DEFINE listing == ExtractKijijiListing(doc, ask)
<1>1. /\ "listingStatus" \in DOMAIN listing /\ "removedAdId" \notin DOMAIN listing
      /\ listing.listingStatus = DetectKijijiListingStatus(doc)
  BY DEF ExtractKijijiListing, KijijiListing
<1>2. ExecuteExtract(doc, FALSE, ask, options, scanned) = Answer(listing, {})
  BY DEF ExecuteExtract, ReadKijiji
<1> HIDE DEF listing
<1>3. Answer(listing, {}).record = listing
  BY DEF Answer
<1> QED
  BY <1>1, <1>2, <1>3

\* A status element that speaks of deletion decides; nothing else does of an ad that can be answered.
LEMMA StatusOfAd ==
  ASSUME NEW doc
  PROVE  LET says == doc.banners # Null /\ "deleted" \in doc.banners
             live == doc.replyForm /\ \E n \in DOMAIN doc.priceEls : doc.priceEls[n].cell # Null
             status == DetectKijijiListingStatus(doc)
         IN  /\ says => status = "deleted"
             /\ status \in {"unavailable", "deleted"} => says \/ ~live
<1> DEFINE priced == \E n \in DOMAIN doc.priceEls : doc.priceEls[n].cell # Null
<1> HIDE DEF priced
<1>1. CASE doc.banners # Null
  BY <1>1, PlainAssumption DEF DetectKijijiListingStatus, Else, priced
<1>2. CASE doc.banners = Null
  BY <1>2, PlainAssumption DEF DetectKijijiListingStatus, Else, priced
<1> QED
  BY <1>1, <1>2

\* Whatever an ad's page shows: a batch retires it for what a status element says, and never
\* one that can be answered for its prose.  A null has no fields.
THEOREM OnlyDeadAdsAreEverRetired ==
  ASSUME DOMAIN Null = {}
  PROVE  PagesSpec => []OnlyDeadAdsAreRetired
<1>1. PagesInv => OnlyDeadAdsAreRetired
  <2> DEFINE record == reading.record
             doc == Document(kind, features)
             says == features[1].banners # Null /\ "deleted" \in features[1].banners
             live == features[1].replyForm /\ \E n \in DOMAIN features[1].priceEls : features[1].priceEls[n].cell # Null
  <2> SUFFICES ASSUME PagesInv, kind = "ad"
               PROVE  /\ DeadListing(AskedFor, AskedFor, record) => says \/ ~live
                      /\ says => DeadListing(AskedFor, AskedFor, record)
    BY DEF OnlyDeadAdsAreRetired
  <2>1. /\ doc.site = "kijiji" /\ doc.kind = "listing" /\ doc.challenge = FALSE
        /\ doc.banners = features[1].banners /\ doc.replyForm = features[1].replyForm /\ doc.priceEls = features[1].priceEls
    BY AdDocument
  <2> HIDE DEF doc
  <2>2. /\ "listingStatus" \in DOMAIN record /\ "removedAdId" \notin DOMAIN record
        /\ record.listingStatus = DetectKijijiListingStatus(doc)
    BY <2>1, AdStatus DEF PagesInv, Reading, doc
  <2> HIDE DEF record
  <2>3. DeadListing(AskedFor, AskedFor, record) <=> DetectKijijiListingStatus(doc) \in {"unavailable", "deleted"}
    <3>1. record # Null
      BY <2>2
    <3>2. StatusOf(record) = DetectKijijiListingStatus(doc) /\ RemovedOf(record) = Null
      BY <2>2, <3>1 DEF StatusOf, RemovedOf
    <3>3. AskedFor.page = "listing"
      BY DEF AskedFor
    <3> QED
      BY <3>1, <3>2, <3>3 DEF DeadListing
  <2> QED
    BY <2>1, <2>3, StatusOfAd
<1> QED
  BY <1>1, PagesInvHolds, PTL

-----------------------------------------------------------------------------
(* The entries of a sequence that are kept, and texts run together.  Both are*)
(* recursive functions: by a least counterexample each has a value, and it is*)
(* what is said of it.                                                       *)

\* Some naturals have a least one among them.
LEMMA LeastOfNaturals ==
  ASSUME NEW S \in SUBSET Nat, S # {}
  PROVE  \E m \in S : \A n \in S : m <= n
<1>1. PICK m \in S : \A n \in S : ~ (<<n, m>> \in OpToRel(<, Nat))
  BY NatLessThanWellFounded, WFMin
<1>2. \A n \in S : ~ (n < m)
  BY <1>1 DEF OpToRel
<1> QED
  BY <1>2

\* What is kept of the first n entries is the value of a recursive function.
Keeping(g, seq, at, n) == IF n = 0 THEN <<>> ELSE IF n \in at THEN Append(g[n - 1], seq[n]) ELSE g[n - 1]
KeptFcn(seq, at) == CHOOSE g : g = [n \in 0 .. Len(seq) |-> Keeping(g, seq, at, n)]

\* What is kept of a sequence is the last value of that function.
LEMMA KeptIs ==
  ASSUME NEW seq, NEW at PROVE KeptAt(seq, at) = KeptFcn(seq, at)[Len(seq)]
BY DEF KeptAt, KeptFcn, Keeping

\* There is such a function.
LEMMA KeptFcnExists ==
  ASSUME NEW T, NEW seq \in Seq(T), NEW at
  PROVE  \A n \in 0 .. Len(seq) : KeptFcn(seq, at)[n] = Keeping(KeptFcn(seq, at), seq, at, n)
<1> DEFINE Upto(g, n) == \A k \in 0 .. n : g[k] = Keeping(g, seq, at, k)
           Bad == {n \in Nat : ~ \E g : Upto(g, n)}
<1>1. Bad = {}
  <2> SUFFICES ASSUME Bad # {} PROVE FALSE
    OBVIOUS
  <2>1. PICK m \in Bad : \A n \in Bad : m <= n
    BY LeastOfNaturals
  <2>2. PICK g : m > 0 => Upto(g, m - 1)
    <3>1. CASE m > 0
      <4>1. m - 1 \in Nat /\ ~ (m <= m - 1)
        BY <2>1, <3>1
      <4>2. m - 1 \notin Bad
        BY <2>1, <4>1
      <4> QED
        BY <4>1, <4>2
    <3> QED
      BY <3>1, <2>1
  <2> DEFINE h == [k \in 0 .. m |-> Keeping(g, seq, at, k)]
  <2>3. ASSUME NEW k \in 0 .. m PROVE h[k] = Keeping(h, seq, at, k)
    <3>1. CASE k = 0
      BY <3>1 DEF Keeping
    <3>2. CASE k # 0
      <4>1. k - 1 \in 0 .. m - 1 /\ k - 1 \in 0 .. m /\ m > 0
        BY <3>2
      <4>2. h[k - 1] = g[k - 1]
        BY <2>2, <4>1
      <4>3. h[k] = Keeping(g, seq, at, k)
        OBVIOUS
      <4> HIDE DEF h
      <4> QED
        BY <3>2, <4>2, <4>3 DEF Keeping
    <3> QED
      BY <3>1, <3>2
  <2>4. Upto(h, m)
    BY <2>3
  <2> QED
    BY <2>1, <2>4
<1>2. Len(seq) \in Nat
  OBVIOUS
<1>3. PICK g : Upto(g, Len(seq))
  BY <1>1, <1>2
<1> DEFINE h == [n \in 0 .. Len(seq) |-> g[n]]
<1>4. ASSUME NEW n \in 0 .. Len(seq) PROVE Keeping(h, seq, at, n) = g[n]
  <2>1. g[n] = Keeping(g, seq, at, n)
    BY <1>3
  <2>2. n # 0 => n - 1 \in 0 .. Len(seq)
    BY <1>2
  <2>3. Keeping(g, seq, at, n) = Keeping(h, seq, at, n)
    BY <2>2 DEF Keeping
  <2> QED
    BY <2>1, <2>3
<1>5. h = [n \in 0 .. Len(seq) |-> Keeping(h, seq, at, n)]
  BY <1>4
<1> HIDE DEF h
<1>6. KeptFcn(seq, at) = [n \in 0 .. Len(seq) |-> Keeping(KeptFcn(seq, at), seq, at, n)]
  BY <1>5 DEF KeptFcn
<1> QED
  BY <1>6

\* The kept entries, n of the sequence looked at: they are those at the places named, and
\* all of them where every place is.
LEMMA KeptUpto ==
  ASSUME NEW T, NEW seq \in Seq(T), NEW at
  PROVE  \A n \in 0 .. Len(seq) :
           LET kept == KeptFcn(seq, at)[n] IN
           /\ kept \in Seq(T)
           /\ \A i \in DOMAIN kept : \E k \in at \cap 1 .. n : kept[i] = seq[k]
           /\ \A k \in at \cap 1 .. n : \E i \in DOMAIN kept : kept[i] = seq[k]
           /\ 1 .. n \subseteq at => Len(kept) = n /\ \A i \in 1 .. n : kept[i] = seq[i]
<1> DEFINE f == KeptFcn(seq, at)
           Good(n) == /\ f[n] \in Seq(T)
                      /\ \A i \in DOMAIN f[n] : \E k \in at \cap 1 .. n : f[n][i] = seq[k]
                      /\ \A k \in at \cap 1 .. n : \E i \in DOMAIN f[n] : f[n][i] = seq[k]
                      /\ 1 .. n \subseteq at => Len(f[n]) = n /\ \A i \in 1 .. n : f[n][i] = seq[i]
           Bad == {n \in 0 .. Len(seq) : ~ Good(n)}
<1>1. Len(seq) \in Nat /\ \A n \in 0 .. Len(seq) : f[n] = Keeping(f, seq, at, n)
  BY KeptFcnExists
<1> HIDE DEF f
<1>2. Bad = {}
  <2> SUFFICES ASSUME Bad # {} PROVE FALSE
    OBVIOUS
  <2>0. Bad \subseteq Nat
    BY <1>1
  <2>1. PICK m \in Bad : \A n \in Bad : m <= n
    <3> HIDE DEF Bad
    <3> QED
      BY <2>0, LeastOfNaturals
  <2>2. CASE m = 0
    <3>1. f[0] = <<>>
      BY <1>1, <2>2 DEF Keeping
    <3>2. Good(0)
      BY <3>1
    <3> QED
      BY <2>1, <2>2, <3>2
  <2>3. CASE m # 0
    <3>1. m - 1 \in 0 .. Len(seq) /\ m \in 1 .. Len(seq) /\ m - 1 \notin Bad /\ seq[m] \in T
      BY <1>1, <2>1, <2>3
    <3> DEFINE before == f[m - 1]
    <3>2. Good(m - 1)
      BY <3>1
    <3>3. /\ before \in Seq(T)
          /\ \A i \in DOMAIN before : \E k \in at \cap 1 .. m - 1 : before[i] = seq[k]
          /\ \A k \in at \cap 1 .. m - 1 : \E i \in DOMAIN before : before[i] = seq[k]
          /\ 1 .. m - 1 \subseteq at => Len(before) = m - 1 /\ \A i \in 1 .. m - 1 : before[i] = seq[i]
      BY <3>2
    <3>4. f[m] = IF m \in at THEN Append(before, seq[m]) ELSE before
      BY <1>1, <2>3, <3>1 DEF Keeping
    <3> HIDE DEF before
    <3>5. 1 .. m = 1 .. m - 1 \cup {m}
      BY <3>1
    <3>6. CASE m \notin at
      <4>1. at \cap 1 .. m = at \cap 1 .. m - 1 /\ ~ (1 .. m \subseteq at) /\ f[m] = before
        BY <3>1, <3>4, <3>5, <3>6
      <4>2. Good(m)
        BY <3>3, <4>1
      <4> QED
        BY <2>1, <4>2
    <3>7. CASE m \in at
      <4>1. /\ f[m] \in Seq(T) /\ Len(f[m]) = Len(before) + 1 /\ Len(before) \in Nat
            /\ DOMAIN f[m] = 1 .. Len(before) + 1 /\ DOMAIN before = 1 .. Len(before)
            /\ f[m][Len(before) + 1] = seq[m]
            /\ \A i \in 1 .. Len(before) : f[m][i] = before[i]
        BY <3>1, <3>3, <3>4, <3>7
      <4>2. \A i \in DOMAIN f[m] : \E k \in at \cap 1 .. m : f[m][i] = seq[k]
        <5> SUFFICES ASSUME NEW i \in DOMAIN f[m] PROVE \E k \in at \cap 1 .. m : f[m][i] = seq[k]
          OBVIOUS
        <5>1. CASE i = Len(before) + 1
          BY <3>5, <3>7, <4>1, <5>1
        <5>2. CASE i \in DOMAIN before
          <6>1. PICK k \in at \cap 1 .. m - 1 : before[i] = seq[k]
            BY <3>3, <5>2
          <6>2. f[m][i] = seq[k] /\ k \in at \cap 1 .. m
            BY <3>5, <4>1, <5>2, <6>1
          <6> QED
            BY <6>2
        <5> QED
          BY <4>1, <5>1, <5>2
      <4>3. \A k \in at \cap 1 .. m : \E i \in DOMAIN f[m] : f[m][i] = seq[k]
        <5> SUFFICES ASSUME NEW k \in at \cap 1 .. m PROVE \E i \in DOMAIN f[m] : f[m][i] = seq[k]
          OBVIOUS
        <5>1. CASE k = m
          BY <4>1, <5>1
        <5>2. CASE k \in 1 .. m - 1
          <6>1. PICK i \in DOMAIN before : before[i] = seq[k]
            BY <3>3, <5>2
          <6>2. f[m][i] = seq[k] /\ i \in DOMAIN f[m]
            BY <4>1, <6>1
          <6> QED
            BY <6>2
        <5> QED
          BY <3>5, <5>1, <5>2
      <4>4. 1 .. m \subseteq at => Len(f[m]) = m /\ \A i \in 1 .. m : f[m][i] = seq[i]
        BY <3>1, <3>3, <3>5, <4>1
      <4>5. Good(m)
        BY <4>1, <4>2, <4>3, <4>4
      <4> QED
        BY <2>1, <4>5
    <3> QED
      BY <3>6, <3>7
  <2> QED
    BY <2>2, <2>3
<1> HIDE DEF Bad
<1>3. \A n \in 0 .. Len(seq) : Good(n)
  BY <1>2 DEF Bad
<1> QED
  BY <1>3 DEF f

\* What is kept of a sequence are its entries at the places named.
LEMMA KeptEntries ==
  ASSUME NEW T, NEW seq \in Seq(T), NEW at
  PROVE  /\ KeptAt(seq, at) \in Seq(T)
         /\ Range(KeptAt(seq, at)) = {seq[k] : k \in at \cap DOMAIN seq}
<1> DEFINE kept == KeptAt(seq, at)
<1>0. Len(seq) \in 0 .. Len(seq) /\ kept = KeptFcn(seq, at)[Len(seq)]
  BY KeptIs
<1> HIDE DEF kept
<1>1. /\ kept \in Seq(T)
      /\ \A i \in DOMAIN kept : \E k \in at \cap 1 .. Len(seq) : kept[i] = seq[k]
      /\ \A k \in at \cap 1 .. Len(seq) : \E i \in DOMAIN kept : kept[i] = seq[k]
  BY <1>0, KeptUpto
<1>2. DOMAIN seq = 1 .. Len(seq)
  OBVIOUS
<1> HIDE DEF kept
<1>3. Range(kept) = {seq[k] : k \in at \cap DOMAIN seq}
  BY <1>1, <1>2 DEF Range
<1> QED
  BY <1>1, <1>3 DEF kept

\* A sequence that is kept at every place is kept as it is.
LEMMA KeptWhole ==
  ASSUME NEW T, NEW seq \in Seq(T), NEW at, DOMAIN seq \subseteq at
  PROVE  KeptAt(seq, at) = seq
<1> DEFINE kept == KeptAt(seq, at)
<1>1. /\ kept \in Seq(T)
      /\ Len(kept) = Len(seq) /\ \A i \in 1 .. Len(seq) : kept[i] = seq[i]
  BY KeptIs, KeptUpto
<1> HIDE DEF kept
<1>2. kept = seq
  BY <1>1
<1> QED
  BY <1>2 DEF kept

\* The texts of a card run together: the value of a recursive function on their places.
JoiningTexts(g, texts, silent, s) ==
  IF s = {} THEN silent
  ELSE LET x == Max(s) IN IF texts[x] = Null THEN g[s \ {x}] ELSE Join(g[s \ {x}], texts[x])
TextsFcn(texts, silent) == CHOOSE g : g = [s \in SUBSET DOMAIN texts |-> JoiningTexts(g, texts, silent, s)]

\* Texts run together are that function's value on all their places.
LEMMA JoinAllIs ==
  ASSUME NEW texts, NEW silent PROVE JoinAll(texts, silent) = TextsFcn(texts, silent)[DOMAIN texts]
BY DEF JoinAll, FoldLeft, MapThenFoldSet, TextsFcn, JoiningTexts

\* A set of places has a last one.
LEMMA MaxOfPlaces ==
  ASSUME NEW n \in Nat, NEW s \in SUBSET (1 .. n), s # {}
  PROVE  /\ Max(s) \in s /\ \A y \in s : y <= Max(s)
         /\ IsFiniteSet(s \ {Max(s)}) /\ Cardinality(s \ {Max(s)}) = Cardinality(s) - 1
         /\ Cardinality(s) \in Nat /\ Cardinality(s) > 0 /\ Cardinality(s) <= n
<1>1. \E x \in s : \A y \in s : x >= y
  <2> DEFINE above == {k \in Nat : \A y \in s : y <= k}
  <2>1. n \in above /\ above \in SUBSET Nat
    OBVIOUS
  <2>2. PICK m \in above : \A k \in above : m <= k
    <3> HIDE DEF above
    <3> QED
      BY <2>1, LeastOfNaturals
  <2>3. m \in Nat /\ \A y \in s : y \in Nat /\ y >= 1 /\ y <= m
    BY <2>2
  <2>4. m \in s
    <3> SUFFICES ASSUME m \notin s PROVE FALSE
      OBVIOUS
    <3>1. m > 0
      <4>1. PICK y \in s : TRUE
        OBVIOUS
      <4>2. y \in Nat /\ y >= 1 /\ y <= m
        BY <2>3
      <4> QED
        BY <2>3, <4>2
    <3>2. m - 1 \in Nat /\ \A y \in s : y <= m - 1
      <4>1. ASSUME NEW y \in s PROVE y <= m - 1
        <5>1. y \in Nat /\ y <= m /\ y # m
          BY <2>3
        <5> QED
          BY <2>3, <5>1
      <4> QED
        BY <2>3, <3>1, <4>1
    <3>3. m - 1 \in above
      BY <3>2
    <3> HIDE DEF above
    <3>4. m <= m - 1
      BY <2>2, <3>3
    <3> QED
      BY <2>3, <3>4
  <2> QED
    BY <2>3, <2>4
<1>2. Max(s) \in s /\ \A y \in s : Max(s) >= y
  BY <1>1 DEF Max
<1>3. IsFiniteSet(1 .. n) /\ Cardinality(1 .. n) = n
  BY FS_Interval
<1>4. IsFiniteSet(s) /\ Cardinality(s) <= n
  BY <1>3, FS_Subset
<1>5. Cardinality(s) \in Nat /\ Cardinality(s) # 0
  BY <1>4, FS_CardinalityType, FS_EmptySet
<1>6. IsFiniteSet(s \ {Max(s)}) /\ Cardinality(s \ {Max(s)}) = Cardinality(s) - 1
  BY <1>2, <1>4, FS_RemoveElement
<1>7. \A y \in s : y \in Nat
  OBVIOUS
<1> QED
  BY <1>2, <1>4, <1>5, <1>6, <1>7

\* There is such a function.
LEMMA TextsFcnExists ==
  ASSUME NEW texts, NEW last \in Nat, DOMAIN texts = 1 .. last, NEW silent
  PROVE  \A s \in SUBSET (1 .. last) :
           TextsFcn(texts, silent)[s] = JoiningTexts(TextsFcn(texts, silent), texts, silent, s)
<1> DEFINE All == SUBSET (1 .. last)
           Made(g, s) == JoiningTexts(g, texts, silent, s)
           Upto(g, n) == \A s \in All : Cardinality(s) <= n => g[s] = Made(g, s)
           Bad == {n \in Nat : ~ \E g : Upto(g, n)}
<1>0. \A s \in All : Cardinality(s) \in Nat /\ Cardinality(s) <= last /\ (s = {} => Cardinality(s) = 0)
  <2> SUFFICES ASSUME NEW s \in All
               PROVE  Cardinality(s) \in Nat /\ Cardinality(s) <= last /\ (s = {} => Cardinality(s) = 0)
    OBVIOUS
  <2>1. CASE s = {}
    <3>1. Cardinality(s) = 0
      BY <2>1, FS_EmptySet
    <3> QED
      BY <3>1
  <2>2. CASE s # {}
    BY <2>2, MaxOfPlaces
  <2> QED
    BY <2>1, <2>2
<1>1. Bad = {}
  <2> SUFFICES ASSUME Bad # {} PROVE FALSE
    OBVIOUS
  <2>1. PICK m \in Bad : \A n \in Bad : m <= n
    BY LeastOfNaturals
  <2>2. PICK g : m > 0 => Upto(g, m - 1)
    <3>1. CASE m > 0
      <4>1. m - 1 \in Nat /\ ~ (m <= m - 1)
        BY <2>1, <3>1
      <4>2. m - 1 \notin Bad
        BY <2>1, <4>1
      <4> QED
        BY <4>1, <4>2
    <3> QED
      BY <3>1, <2>1
  <2> DEFINE h == [s \in All |-> Made(g, s)]
  <2>3. ASSUME NEW s \in All, Cardinality(s) <= m PROVE h[s] = Made(h, s)
    <3>1. CASE s = {}
      BY <3>1 DEF JoiningTexts
    <3>2. CASE s # {}
      <4> DEFINE left == s \ {Max(s)}
      <4>1. left \in All /\ Cardinality(left) = Cardinality(s) - 1 /\ Cardinality(s) \in Nat /\ Cardinality(s) > 0
        BY <3>2, MaxOfPlaces
      <4>2. m \in Nat /\ m > 0 /\ Cardinality(left) <= m - 1
        BY <2>1, <2>3, <4>1
      <4>3. g[left] = Made(g, left)
        BY <2>2, <4>1, <4>2
      <4>4. h[left] = g[left]
        BY <4>1, <4>3
      <4>5. h[s] = Made(g, s)
        OBVIOUS
      <4> HIDE DEF h
      <4>6. Made(g, s) = Made(h, s)
        BY <3>2, <4>4 DEF JoiningTexts
      <4> QED
        BY <4>5, <4>6
    <3> QED
      BY <3>1, <3>2
  <2>4. Upto(h, m)
    BY <2>3
  <2> QED
    BY <2>1, <2>4
<1>2. PICK g : Upto(g, last)
  BY <1>1
<1> DEFINE h == [s \in All |-> g[s]]
<1>3. ASSUME NEW s \in All PROVE Made(h, s) = g[s]
  <2>1. g[s] = Made(g, s)
    BY <1>0, <1>2
  <2>2. s # {} => h[s \ {Max(s)}] = g[s \ {Max(s)}]
    OBVIOUS
  <2> HIDE DEF h
  <2>3. Made(g, s) = Made(h, s)
    BY <2>2 DEF JoiningTexts
  <2> QED
    BY <2>1, <2>3
<1>4. h = [s \in All |-> Made(h, s)]
  BY <1>3
<1> HIDE DEF h
<1>5. TextsFcn(texts, silent) = [s \in All |-> Made(TextsFcn(texts, silent), s)]
  BY <1>4 DEF TextsFcn
<1> QED
  BY <1>5

\* What the first n texts say, one after the other.
Joined(texts, silent, n) == TextsFcn(texts, silent)[1 .. n]

\* Texts of some patterns, absent ones among them, and a text of them to start from.
AreTexts(P, last, texts, silent) ==
  /\ last \in Nat /\ DOMAIN texts = 1 .. last /\ DOMAIN silent = P
  /\ \A n \in 1 .. last : texts[n] # Null => DOMAIN texts[n] = P

\* One text after the other: each pattern keeps what it found first.
LEMMA JoinSteps ==
  ASSUME NEW P, NEW last, NEW texts, NEW silent, AreTexts(P, last, texts, silent)
  PROVE  /\ Joined(texts, silent, 0) = silent
         /\ \A n \in 1 .. last :
              DOMAIN Joined(texts, silent, n - 1) = P =>
                /\ DOMAIN Joined(texts, silent, n) = P
                /\ \A p \in P : Joined(texts, silent, n)[p] = Else(Joined(texts, silent, n - 1)[p], In(texts[n], p))
<1> DEFINE f == TextsFcn(texts, silent)
<1> USE DEF AreTexts
<1>1. \A s \in SUBSET (1 .. last) : f[s] = JoiningTexts(f, texts, silent, s)
  BY TextsFcnExists
<1> HIDE DEF f
<1>2. f[1 .. 0] = silent
  <2>1. 1 .. 0 = {}
    OBVIOUS
  <2> QED
    BY <1>1, <2>1 DEF JoiningTexts
<1>3. ASSUME NEW n \in 1 .. last PROVE f[1 .. n] = IF texts[n] = Null THEN f[1 .. n - 1] ELSE Join(f[1 .. n - 1], texts[n])
  <2>1. 1 .. n \in SUBSET (1 .. last) /\ 1 .. n # {} /\ n \in 1 .. n
    OBVIOUS
  <2>2. Max(1 .. n) \in 1 .. n /\ n <= Max(1 .. n)
    BY <2>1, MaxOfPlaces
  <2>3. Max(1 .. n) = n
    BY <2>2
  <2>4. (1 .. n) \ {n} = 1 .. n - 1
    OBVIOUS
  <2> QED
    BY <1>1, <2>1, <2>3, <2>4 DEF JoiningTexts
<1>4. ASSUME NEW n \in 1 .. last, DOMAIN f[1 .. n - 1] = P
      PROVE  DOMAIN f[1 .. n] = P /\ \A p \in P : f[1 .. n][p] = Else(f[1 .. n - 1][p], In(texts[n], p))
  <2>1. CASE texts[n] = Null
    BY <1>3, <1>4, <2>1 DEF Else, In
  <2>2. CASE texts[n] # Null
    BY <1>3, <1>4, <2>2 DEF Join, In
  <2> QED
    BY <2>1, <2>2
<1> QED
  BY <1>2, <1>4 DEF f, Joined

-----------------------------------------------------------------------------
(* What of a page's rows is sent.                                            *)

\* What a row says to the filters is what its listing is; a row whose amount was not
\* read says nothing of it, unless that its card names none on purpose.
Tells(row, l) ==
  LET price == C!ReadCandidatePrice(row)
  IN  /\ C!ValueAt(row, "title") = l.title
      /\ price = Null \/ (price = l.amount /\ ~l.contact)
      /\ C!IsContactPriceRow(row) => l.contact
      /\ C!ReadCandidateFormat(row) \in {Null, "fixed_price", "unknown"}

Passes(row, include) ==
  C!TitleMatches(row, include) /\ C!PriceMatches(row, include) /\ C!FormatMatches(row, include)

\* A row passes for what its listing is; where its listing passes and it does not, the
\* price bounds could not judge it.
LEMMA RowsAreJudged ==
  ASSUME walk \in Walks, NEW l \in Range(walk.listings), NEW row, Tells(row, l)
  PROVE  /\ Passes(row, walk.filter) => Wanted(l)
         /\ Wanted(l) => \/ Passes(row, walk.filter)
                         \/ /\ C!TitleMatches(row, walk.filter) /\ ~C!PriceMatches(row, walk.filter)
                            /\ C!Unpriced(row, walk.filter)
<1> DEFINE f == walk.filter
           price == C!ReadCandidatePrice(row)
           format == C!ReadCandidateFormat(row)
<1>1. /\ l.amount \in Nat /\ l.contact \in BOOLEAN
      /\ f.minPrice \in Nat \cup {Null} /\ f.maxPrice \in Nat \cup {Null}
      /\ f.formats = Null \/ {"fixed_price", "unknown"} \subseteq f.formats
  BY WalksAssumption
<1>2. Null \notin Nat
  BY NullAssumption
<1>3. /\ C!ValueAt(row, "title") = l.title
      /\ price = Null \/ (price = l.amount /\ ~l.contact)
      /\ C!IsContactPriceRow(row) => l.contact
      /\ format \in {Null, "fixed_price", "unknown"}
  BY DEF Tells
<1>4. C!TitleMatches(row, f) <=> f.titles = Null \/ l.title \in f.titles
  BY <1>3 DEF C!TitleMatches
<1>5. C!FormatMatches(row, f)
  BY <1>1, <1>3 DEF C!FormatMatches
<1>6. Wanted(l) <=> /\ f.titles = Null \/ l.title \in f.titles
                    /\ \/ l.contact
                       \/ /\ f.minPrice = Null \/ l.amount >= f.minPrice
                          /\ f.maxPrice = Null \/ l.amount <= f.maxPrice
  BY DEF Wanted
<1>7. C!PriceMatches(row, f) <=>
        \/ f.minPrice = Null /\ f.maxPrice = Null
        \/ price = Null /\ C!IsContactPriceRow(row)
        \/ /\ price # Null
           /\ f.minPrice = Null \/ price >= f.minPrice
           /\ f.maxPrice = Null \/ price <= f.maxPrice
  BY DEF C!PriceMatches, C!Bounded
<1>8. C!Unpriced(row, f) <=> (f.minPrice # Null \/ f.maxPrice # Null) /\ price = Null
  BY DEF C!Unpriced, C!Bounded
<1> HIDE DEF f, price, format
<1> QED
  BY <1>1, <1>2, <1>3, <1>4, <1>5, <1>6, <1>7, <1>8 DEF Passes, f

\* The operators that the modules share are the same in each of them.
LEMMA KeptOfCompaction ==
  ASSUME NEW seq, NEW at PROVE C!KeptAt(seq, at) = KeptAt(seq, at)
BY DEF C!KeptAt, KeptAt

\* The rows the filters leave are those that pass all three.
LEMMA MatchedRows ==
  ASSUME NEW T, NEW rows \in Seq(T), NEW include
  PROVE  /\ C!Matched(rows, include) \in Seq(T)
         /\ Range(C!Matched(rows, include)) = {r \in Range(rows) : Passes(r, include)}
         /\ Range(C!Titled(rows, include)) = {r \in Range(rows) : C!TitleMatches(r, include)}
<1> DEFINE titled == C!Titled(rows, include)
           priced == C!Priced(rows, include)
           matched == C!Matched(rows, include)
           ByTitle(r) == C!TitleMatches(r, include)
           ByPrice(r) == C!PriceMatches(r, include)
           ByFormat(r) == C!FormatMatches(r, include)
<1>1. titled = KeptAt(rows, {n \in DOMAIN rows : ByTitle(rows[n])})
  BY KeptOfCompaction DEF C!Titled, C!Kept
<1>2. priced = KeptAt(titled, {n \in DOMAIN titled : ByPrice(titled[n])})
  BY KeptOfCompaction DEF C!Priced, C!Kept
<1>3. matched = KeptAt(priced, {n \in DOMAIN priced : ByFormat(priced[n])})
  BY KeptOfCompaction DEF C!Matched, C!Kept
<1>4. \A r : Passes(r, include) <=> ByTitle(r) /\ ByPrice(r) /\ ByFormat(r)
  BY DEF Passes
<1> HIDE DEF titled, priced, matched, ByTitle, ByPrice, ByFormat
<1>6. titled \in Seq(T) /\ Range(titled) = {r \in Range(rows) : ByTitle(r)}
  <2>1. /\ titled \in Seq(T)
        /\ Range(titled) = {rows[k] : k \in {n \in DOMAIN rows : ByTitle(rows[n])} \cap DOMAIN rows}
    BY <1>1, KeptEntries
  <2> QED
    BY <2>1 DEF Range
<1>7. priced \in Seq(T) /\ Range(priced) = {r \in Range(titled) : ByPrice(r)}
  <2>1. /\ priced \in Seq(T)
        /\ Range(priced) = {titled[k] : k \in {n \in DOMAIN titled : ByPrice(titled[n])} \cap DOMAIN titled}
    BY <1>2, <1>6, KeptEntries
  <2> QED
    BY <2>1 DEF Range
<1>8. matched \in Seq(T) /\ Range(matched) = {r \in Range(priced) : ByFormat(r)}
  <2>1. /\ matched \in Seq(T)
        /\ Range(matched) = {priced[k] : k \in {n \in DOMAIN priced : ByFormat(priced[n])} \cap DOMAIN priced}
    BY <1>3, <1>7, KeptEntries
  <2> QED
    BY <2>1 DEF Range
<1>9. /\ matched \in Seq(T)
      /\ Range(matched) = {r \in Range(rows) : Passes(r, include)}
      /\ Range(titled) = {r \in Range(rows) : ByTitle(r)}
  BY <1>4, <1>6, <1>7, <1>8
<1> QED
  BY <1>9 DEF matched, titled, ByTitle

\* The part of a sequence between two places.
LEMMA PartOf ==
  ASSUME NEW T, NEW seq \in Seq(T), NEW from \in Nat \ {0}, NEW to \in Nat, to <= Len(seq)
  PROVE  /\ SubSeq(seq, from, to) \in Seq(T)
         /\ Len(SubSeq(seq, from, to)) = IF from <= to THEN to - from + 1 ELSE 0
         /\ \A i \in 1 .. Len(SubSeq(seq, from, to)) : SubSeq(seq, from, to)[i] = seq[from + i - 1]
         /\ Range(SubSeq(seq, from, to)) = {seq[k] : k \in from .. to}
<1> DEFINE part == SubSeq(seq, from, to)
<1>1. /\ part \in Seq(T)
      /\ Len(part) = IF from <= to THEN to - from + 1 ELSE 0
      /\ \A i \in 1 .. to - from + 1 : part[i] = seq[from + i - 1]
  <2>1. \A i \in from .. to : seq[i] \in T
    OBVIOUS
  <2> QED
    BY <2>1, SubSeqProperties
<1> HIDE DEF part
<1>2. DOMAIN part = 1 .. Len(part) /\ Len(part) \in Nat
  BY <1>1
<1>3. \A i \in 1 .. Len(part) : part[i] = seq[from + i - 1] /\ from + i - 1 \in from .. to
  BY <1>1
<1>4. \A k \in from .. to : k - from + 1 \in 1 .. Len(part) /\ part[k - from + 1] = seq[k]
  <2> SUFFICES ASSUME NEW k \in from .. to
               PROVE  k - from + 1 \in 1 .. Len(part) /\ part[k - from + 1] = seq[k]
    OBVIOUS
  <2>1. k - from + 1 \in 1 .. Len(part) /\ from + (k - from + 1) - 1 = k
    BY <1>1
  <2> QED
    BY <1>3, <2>1
<1>5. Range(part) = {seq[k] : k \in from .. to}
  <2>1. Range(part) = {part[i] : i \in 1 .. Len(part)}
    BY <1>2 DEF Range
  <2>2. \A i \in 1 .. Len(part) : part[i] \in {seq[k] : k \in from .. to}
    BY <1>3
  <2>3. \A k \in from .. to : seq[k] \in {part[i] : i \in 1 .. Len(part)}
    BY <1>4
  <2> QED
    BY <2>1, <2>2, <2>3
<1> QED
  BY <1>1, <1>3, <1>5 DEF part

\* Its beginning.
LEMMA BeginningOf ==
  ASSUME NEW T, NEW seq \in Seq(T), NEW n \in Nat, n <= Len(seq)
  PROVE  /\ SubSeq(seq, 1, n) \in Seq(T) /\ Len(SubSeq(seq, 1, n)) = n
         /\ Range(SubSeq(seq, 1, n)) \subseteq Range(seq)
<1>1. /\ SubSeq(seq, 1, n) \in Seq(T)
      /\ Len(SubSeq(seq, 1, n)) = IF 1 <= n THEN n - 1 + 1 ELSE 0
      /\ Range(SubSeq(seq, 1, n)) = {seq[k] : k \in 1 .. n}
  BY PartOf
<1>2. 1 .. n \subseteq DOMAIN seq
  OBVIOUS
<1> QED
  BY <1>1, <1>2 DEF Range

LEMMA MinOfCompaction == ASSUME NEW s PROVE C!Min(s) = Min(s)
BY DEF C!Min, Min

\* A page in which nothing was cut off is scanned whole; whatever is scanned are rows of the page.
LEMMA ScannedRows ==
  ASSUME NEW T, NEW page, page.candidates \in Seq(T), NEW scanned \in {Null, 1}, MaxScanned \in Nat,
         NEW considered, considered = C!Considered(page), NEW rows, rows = C!Scanned(considered, scanned)
  PROVE  /\ rows \in Seq(T) /\ Range(rows) \subseteq Range(page.candidates)
         /\ considered \in Seq(T) /\ Len(rows) <= Len(considered)
         /\ Len(page.candidates) <= MaxScanned /\ ~(Len(rows) < Len(considered)) => rows = page.candidates
<1> DEFINE all == page.candidates
<1>1. all \in Seq(T) /\ Len(all) \in Nat
  OBVIOUS
<1>2. considered = SubSeq(all, 1, Min({MaxScanned, Len(all)}))
  BY MinOfCompaction DEF C!Considered
<1> DEFINE upTo == C!Else(scanned, MaxScanned)
<1>3. upTo \in Nat
  BY DEF C!Else
<1>4. rows = SubSeq(considered, 1, Min({Len(considered), upTo}))
  BY MinOfCompaction DEF C!Scanned
<1> HIDE DEF upTo, all
<1> DEFINE m == Min({MaxScanned, Len(all)})
<1>5. m \in {MaxScanned, Len(all)} /\ m <= MaxScanned /\ m <= Len(all)
  BY <1>1, MinOfTwo
<1> HIDE DEF m
<1>6. considered \in Seq(T) /\ Len(considered) = m /\ Range(considered) \subseteq Range(all)
  <2>1. considered = SubSeq(all, 1, m) /\ m \in Nat
    BY <1>1, <1>2, <1>5 DEF m
  <2> QED
    BY <1>1, <1>5, <2>1, BeginningOf
<1> DEFINE n == Min({Len(considered), upTo})
<1>7. n \in {Len(considered), upTo} /\ n <= Len(considered)
  BY <1>3, <1>6, MinOfTwo
<1>11. rows = SubSeq(considered, 1, n)
  BY <1>4
<1> HIDE DEF n
<1>8. rows \in Seq(T) /\ Len(rows) = n /\ Range(rows) \subseteq Range(considered)
  <2>1. n \in Nat
    BY <1>3, <1>6, <1>7
  <2> QED
    BY <1>6, <1>7, <1>11, <2>1, BeginningOf
<1>10. ASSUME Len(all) <= MaxScanned, ~(Len(rows) < Len(considered)) PROVE rows = all
  <2>1. m = Len(all) /\ n = Len(considered)
    BY <1>1, <1>3, <1>5, <1>6, <1>7, <1>8, <1>10
  <2>2. considered = all
    BY <1>1, <1>2, <2>1, SubSeqFull DEF m
  <2>3. rows = considered
    BY <1>11, <1>6, <2>1, SubSeqFull
  <2> QED
    BY <2>2, <2>3
<1> QED
  BY <1>6, <1>7, <1>8, <1>10 DEF all

\* What a page's answer sends are rows of the page that pass; unless it says that it falls short, it
\* sends every one of them from its offset to the next, and every one after it when there is no next.
LEMMA RowsSent ==
  ASSUME NEW T, NEW page, page.candidates \in Seq(T), MaxScanned \in Nat, NEW scanned \in {Null, 1},
         NEW options, options.offset \in Nat, options.limit \in Nat, options.fields = Null
  PROVE  LET answer == C!CompactSearchPage(page, options, scanned)
             matched == C!Matched(page.candidates, options.include)
             Sent(row) == C!ProjectCandidate(row, options, C!DefaultFields(page))
         IN  /\ answer.hasNextPage = page.hasNextPage /\ answer.nextPageUrl = page.nextPageUrl
             /\ {"candidates", "hasMore", "nextOffset", "hasNextPage", "nextPageUrl", "warnings"} \subseteq DOMAIN answer
             /\ \A r \in Range(answer.candidates) :
                  \E row \in Range(page.candidates) : Passes(row, options.include) /\ r = Sent(row)
             /\ answer.hasMore \in BOOLEAN
             /\ answer.nextOffset \in IF answer.hasMore THEN Nat ELSE {Null}
             /\ answer.warnings \cap Shortfalls = {} =>
                  /\ \A row \in Range(page.candidates) :
                       C!TitleMatches(row, options.include) /\ C!Unpriced(row, options.include)
                         => C!PriceMatches(row, options.include)
                  /\ \A i \in DOMAIN matched :
                       i > options.offset /\ (answer.hasMore => i <= answer.nextOffset)
                         => Sent(matched[i]) \in Range(answer.candidates)
<1> DEFINE answer == C!CompactSearchPage(page, options, scanned)
           Sent(row) == C!ProjectCandidate(row, options, C!DefaultFields(page))
           considered == C!Considered(page)
           rows == C!Scanned(considered, scanned)
           kept == C!Matched(rows, options.include)
           window == C!Window(kept, options)
           sent == [n \in DOMAIN window |-> Sent(window[n])]
           cut == Len(rows) < Len(considered)
           said == C!FilterWarnings(rows, options.include)
           more == ~cut /\ options.offset + Len(sent) < Len(kept)
<1>1. answer = C!CompactedPage(page, options, cut, Len(kept), sent, said)
  <2>1. C!Allowed(page, options) = C!DefaultFields(page)
    BY DEF C!Allowed
  <2> QED
    BY <2>1 DEF C!CompactSearchPage, C!CompactScanned, C!CompactRows, C!SentRows
<1>2. /\ rows \in Seq(T) /\ Range(rows) \subseteq Range(page.candidates)
      /\ Len(page.candidates) <= MaxScanned /\ ~cut => rows = page.candidates
  BY ScannedRows
<1>3. /\ kept \in Seq(T) /\ Range(kept) = {r \in Range(rows) : Passes(r, options.include)}
      /\ Range(C!Titled(rows, options.include)) = {r \in Range(rows) : C!TitleMatches(r, options.include)}
  <2> HIDE DEF rows
  <2> QED
    BY <1>2, MatchedRows
<1> HIDE DEF considered, rows, kept
<1> DEFINE from == options.offset + 1
           upTo == Min({Len(kept), options.offset + options.limit})
<1>4. window = SubSeq(kept, from, upTo) /\ from \in Nat \ {0} /\ upTo \in Nat /\ upTo <= Len(kept) /\ Len(kept) \in Nat
  <2>1. Len(kept) \in Nat /\ options.offset + options.limit \in Nat
    BY <1>3
  <2>2. upTo \in {Len(kept), options.offset + options.limit} /\ upTo <= Len(kept)
    BY <2>1, MinOfTwo
  <2>3. C!Min({Len(kept), options.offset + options.limit}) = upTo
    BY MinOfCompaction
  <2>4. window = SubSeq(kept, from, upTo)
    BY <2>3 DEF C!Window
  <2> QED
    BY <2>1, <2>2, <2>4, SMTT(30)
<1> HIDE DEF from, upTo
<1>5. /\ window \in Seq(T) /\ Len(window) = IF from <= upTo THEN upTo - from + 1 ELSE 0
      /\ \A i \in 1 .. Len(window) : window[i] = kept[from + i - 1]
      /\ Range(window) = {kept[k] : k \in from .. upTo}
  BY <1>3, <1>4, PartOf
<1> HIDE DEF window
<1>6. Len(sent) = Len(window) /\ Len(window) \in Nat /\ Range(sent) = {Sent(r) : r \in Range(window)}
  <2>1. DOMAIN window = 1 .. Len(window) /\ Len(window) \in Nat
    BY <1>5
  <2> HIDE DEF Sent
  <2>2. DOMAIN sent = 1 .. Len(window)
    BY <2>1
  <2>3. Len(sent) = Len(window)
    BY <2>1, <2>2
  <2> QED
    BY <2>1, <2>3 DEF Range
<1> HIDE DEF Sent, sent, said
<1>7. /\ answer.candidates = sent /\ answer.hasMore = more
      /\ answer.nextOffset = IF more THEN options.offset + Len(sent) ELSE Null
      /\ answer.hasNextPage = page.hasNextPage /\ answer.nextPageUrl = page.nextPageUrl
      /\ {"candidates", "hasMore", "nextOffset", "hasNextPage", "nextPageUrl", "warnings"} \subseteq DOMAIN answer
      /\ said \subseteq answer.warnings
      /\ cut => "SEARCH_FILTER_BUDGET_EXCEEDED" \in answer.warnings
      /\ Len(page.candidates) > MaxScanned => "CANDIDATES_TRUNCATED" \in answer.warnings
  <2> HIDE DEF answer
  <2> QED
    BY <1>1 DEF C!CompactedPage, C!Warn
<1> HIDE DEF answer
<1>8. ASSUME NEW r \in Range(answer.candidates)
      PROVE  \E row \in Range(page.candidates) : Passes(row, options.include) /\ r = Sent(row)
  <2>1. PICK k \in from .. upTo : r = Sent(kept[k])
    BY <1>5, <1>6, <1>7, <1>8
  <2>2. k \in DOMAIN kept
    BY <1>3, <1>4, <2>1
  <2>3. kept[k] \in Range(kept)
    BY <2>2 DEF Range
  <2> QED
    BY <1>2, <1>3, <2>1, <2>3
<1>9. more \in BOOLEAN /\ (more => options.offset + Len(sent) \in Nat)
  BY <1>6
<1>10. ASSUME answer.warnings \cap Shortfalls = {}
       PROVE  /\ rows = page.candidates /\ ~cut
              /\ \A row \in Range(page.candidates) :
                   C!TitleMatches(row, options.include) /\ C!Unpriced(row, options.include)
                     => C!PriceMatches(row, options.include)
  <2>1. {"SEARCH_FILTER_BUDGET_EXCEEDED", "CANDIDATES_TRUNCATED", "EXCLUDED_NO_PRICE"} \subseteq Shortfalls
    BY DEF Shortfalls
  <2>2. ~cut /\ ~(Len(page.candidates) > MaxScanned) /\ "EXCLUDED_NO_PRICE" \notin said
    BY <1>7, <1>10, <2>1
  <2>3. rows = page.candidates
    BY <1>2, <2>2
  <2>4. ~ \E r \in Range(C!Titled(rows, options.include)) :
            ~C!PriceMatches(r, options.include) /\ C!Unpriced(r, options.include)
    BY <2>2 DEF said, C!FilterWarnings, C!Warn, C!Range, Range
  <2> QED
    BY <1>3, <2>2, <2>3, <2>4
<1>11. ASSUME answer.warnings \cap Shortfalls = {}, NEW i \in DOMAIN kept, i > options.offset,
              answer.hasMore => i <= answer.nextOffset
       PROVE  Sent(kept[i]) \in Range(answer.candidates)
  <2>1. i \in Nat /\ i <= Len(kept) /\ Len(kept) \in Nat /\ i >= from
    BY <1>3, <1>11 DEF from
  <2>2. i <= options.offset + Len(window)
    <3>1. ~cut
      BY <1>10, <1>11
    <3>2. answer.hasMore <=> options.offset + Len(sent) < Len(kept)
      BY <1>7, <3>1
    <3>3. answer.hasMore => answer.nextOffset = options.offset + Len(sent)
      BY <1>7
    <3> HIDE DEF cut
    <3>4. CASE answer.hasMore
      BY <1>6, <1>11, <3>3, <3>4
    <3>5. CASE ~answer.hasMore
      BY <1>6, <2>1, <3>2, <3>5
    <3> QED
      BY <3>4, <3>5
  <2>3. i <= upTo
    BY <1>4, <1>5, <2>1, <2>2 DEF from
  <2>4. kept[i] \in Range(window)
    BY <1>4, <1>5, <2>1, <2>3
  <2> QED
    BY <1>6, <1>7, <2>4
<1>12. answer.warnings \cap Shortfalls = {} => kept = C!Matched(page.candidates, options.include)
  BY <1>10 DEF kept
<1> HIDE DEF more
<1>13. answer.hasMore \in BOOLEAN /\ answer.nextOffset \in IF answer.hasMore THEN Nat ELSE {Null}
  BY <1>7, <1>9
<1> QED
  BY <1>7, <1>8, <1>10, <1>11, <1>12, <1>13 DEF answer, Sent

\* The entries of a sequence and of one more.
LEMMA RangeOfAppend ==
  ASSUME NEW T, NEW seq \in Seq(T), NEW e \in T
  PROVE  Range(Append(seq, e)) = Range(seq) \cup {e}
<1> DEFINE t == Append(seq, e)
<1>1. /\ DOMAIN t = 1 .. Len(seq) + 1 /\ DOMAIN seq = 1 .. Len(seq) /\ Len(seq) \in Nat
      /\ t[Len(seq) + 1] = e /\ \A i \in 1 .. Len(seq) : t[i] = seq[i]
  OBVIOUS
<1> HIDE DEF t
<1>2. Range(t) = Range(seq) \cup {e}
  BY <1>1 DEF Range
<1> QED
  BY <1>2 DEF t

\* A row that is sent keeps the name of its listing.
LEMMA KijijiNameIsSent ==
  ASSUME NEW page, page.site = "kijiji", NEW options, options.fields = Null,
         NEW row, "adId" \in DOMAIN row, row["adId"] # Null
  PROVE  IdOf(C!ProjectCandidate(row, options, C!DefaultFields(page))) = row["adId"]
<1> DEFINE fields == C!DefaultFields(page)
           sent == C!ProjectCandidate(row, options, fields)
<1>1. "adId" \in Range(fields)
  <2>1. fields = <<"adId", "url", "title", "price", "priceSource", "locationText", "postedText">>
    BY DEF C!DefaultFields
  <2> QED
    BY <2>1 DEF Range
<1> HIDE DEF fields
<1>2. "adId" \in DOMAIN sent /\ sent["adId"] = row["adId"]
  BY <1>1 DEF C!ProjectCandidate, C!ValueAt, C!DefaultValuedMarkers, C!Range, Range
<1> HIDE DEF sent
<1>3. IdOf(sent) = row["adId"]
  BY <1>2 DEF IdOf, Else, C!ValueAt
<1> QED
  BY <1>3 DEF sent, fields

\* So does a row of eBay.
LEMMA EbayNameIsSent ==
  ASSUME NEW page, page.site = "ebay", page.kind = "search", page.sold \in BOOLEAN, NEW options, options.fields = Null,
         NEW row, "itemId" \in DOMAIN row, row["itemId"] # Null
  PROVE  IdOf(C!ProjectCandidate(row, options, C!DefaultFields(page))) = row["itemId"]
<1> DEFINE fields == C!DefaultFields(page)
           sent == C!ProjectCandidate(row, options, fields)
           search == <<"itemId", "url", "title", "snippetPrice", "sellingFormat", "bidCount", "itemLocationText",
                       "isNewListing", "seller", "matchScope">>
<1>1. "itemId" \in Range(fields) /\ "adId" \notin Range(fields)
  <2>1. fields = IF page.sold THEN Append(search, "soldAt") ELSE search
    BY DEF C!DefaultFields
  <2>2. "itemId" \in Range(search) /\ "adId" \notin Range(search)
    BY DEF Range
  <2>3. Range(Append(search, "soldAt")) = Range(search) \cup {"soldAt"}
    <3> DEFINE names == {"itemId", "url", "title", "snippetPrice", "sellingFormat", "bidCount", "itemLocationText",
                         "isNewListing", "seller", "matchScope", "soldAt"}
    <3>1. search \in Seq(names) /\ "soldAt" \in names
      OBVIOUS
    <3> HIDE DEF search, names
    <3> QED
      BY <3>1, RangeOfAppend
  <2> HIDE DEF search, fields
  <2>4. CASE page.sold
    BY <2>1, <2>2, <2>3, <2>4
  <2>5. CASE ~page.sold
    BY <2>1, <2>2, <2>5
  <2> QED
    BY <2>4, <2>5
<1> HIDE DEF fields
<1>2. "itemId" \in DOMAIN sent /\ sent["itemId"] = row["itemId"] /\ "adId" \notin DOMAIN sent
  BY <1>1 DEF C!ProjectCandidate, C!ValueAt, C!DefaultValuedMarkers, C!Range, Range
<1> HIDE DEF sent
<1>3. IdOf(sent) = row["itemId"]
  BY <1>2 DEF IdOf, Else, C!ValueAt
<1> QED
  BY <1>3 DEF sent, fields

-----------------------------------------------------------------------------
(* The pages of Kijiji.                                                      *)

\* A null has no fields; so no record is null.
NullIsBare == DOMAIN Null = {}

\* A card of Kijiji states its listing's amount, or that it names none, or nothing.
LEMMA KijijiCardPrice ==
  ASSUME NullIsBare, NEW l, l.amount \in Nat, l.contact \in BOOLEAN
  PROVE  LET card == KijijiCard(l)
             element == ParseKijijiPrice(card.price)
             text == IF card.price = Null THEN PriceFromCardText(card) ELSE Null
             price == Else(element, text)
         IN  \/ price = Null
             \/ ~l.contact /\ price = [kind |-> "amount", value |-> l.amount]
             \/ l.contact /\ price = [kind |-> "contact", value |-> Null]
<1> DEFINE card == KijijiCard(l)
           cell == [free |-> FALSE, contact |-> l.contact, swap |-> FALSE, amount |-> l.amount]
           stated == ParseKijijiPrice(cell)
           element == ParseKijijiPrice(card.price)
           text == PriceFromCardText(card)
<1>1. Null \notin Nat /\ cell # Null
  <2>1. DOMAIN cell # {}
    OBVIOUS
  <2> HIDE DEF cell
  <2> QED
    BY <2>1, NullAssumption DEF NullIsBare
<1>2. /\ card.price = IF l.shown = "element" THEN cell ELSE Null
      /\ card.label = IF l.contact THEN cell ELSE Null
      /\ card.amounts = IF l.contact THEN <<>> ELSE IF l.shown = "twice" THEN <<l.amount, l.amount + 1>> ELSE <<l.amount>>
      /\ card.title = l.title /\ card.run = TRUE
  <2>1. CASE l.contact
    BY <2>1 DEF KijijiCard
  <2>2. CASE ~l.contact /\ l.shown = "twice"
    BY <2>2 DEF KijijiCard
  <2>3. CASE ~l.contact /\ l.shown # "twice"
    BY <2>3 DEF KijijiCard
  <2> QED
    BY <2>1, <2>2, <2>3
<1> HIDE DEF card
<1>3. stated = IF l.contact THEN [kind |-> "contact", value |-> Null] ELSE [kind |-> "amount", value |-> l.amount]
  BY <1>1 DEF ParseKijijiPrice
<1>4. element = IF l.shown = "element" THEN stated ELSE Null
  BY <1>2 DEF ParseKijijiPrice
<1>5. text = IF l.contact THEN stated ELSE IF l.shown = "twice" THEN Null ELSE [kind |-> "amount", value |-> l.amount]
  <2> DEFINE amounts == card.amounts \o (IF TitleOf(card) # Null /\ ~card.run THEN card.titleAmounts ELSE <<>>)
  <2>1. text = CASE Len(amounts) = 1 -> [kind |-> "amount", value |-> amounts[1]]
                 [] Len(amounts) > 1 -> Null
                 [] OTHER -> ParseKijijiPrice(card.label)
    BY DEF PriceFromCardText
  <2>2. amounts = IF l.contact THEN <<>> ELSE IF l.shown = "twice" THEN <<l.amount, l.amount + 1>> ELSE <<l.amount>>
    <3>1. amounts = card.amounts \o <<>>
      BY <1>2
    <3>2. card.amounts \in Seq(Nat)
      BY <1>2
    <3>3. amounts = card.amounts
      BY <3>1, <3>2, ConcatEmptySeq
    <3> QED
      BY <1>2, <3>3
  <2> HIDE DEF amounts, stated, text, cell
  <2>3. CASE l.contact
    <3>1. Len(amounts) = 0
      BY <2>2, <2>3
    <3>2. ~(Len(amounts) = 1) /\ ~(Len(amounts) > 1)
      BY <3>1
    <3> QED
      BY <1>2, <2>1, <2>3, <3>2 DEF stated
  <2>4. CASE ~l.contact /\ l.shown = "twice"
    <3>1. Len(amounts) = 2
      BY <2>2, <2>4
    <3>2. ~(Len(amounts) = 1) /\ Len(amounts) > 1
      BY <3>1
    <3> QED
      BY <2>1, <2>4, <3>2
  <2>5. CASE ~l.contact /\ l.shown # "twice"
    <3>1. Len(amounts) = 1 /\ amounts[1] = l.amount
      BY <2>2, <2>5
    <3>2. ~(Len(amounts) > 1)
      BY <3>1
    <3> QED
      BY <2>1, <2>5, <3>1, <3>2
  <2> QED
    BY <2>3, <2>4, <2>5
<1> HIDE DEF element, text, stated, cell
<1>6. Else(element, IF card.price = Null THEN text ELSE Null) \in {Null, stated}
  BY <1>1, <1>2, <1>3, <1>4, <1>5 DEF Else
<1> QED
  BY <1>3, <1>6 DEF element, text, card

\* A row of Kijiji tells of the listing its link is to.
LEMMA KijijiRow ==
  ASSUME NullIsBare, NEW l, l.id # Null, l.amount \in Nat, l.contact \in BOOLEAN, l.title # Null,
         NEW doc, NEW anchor, anchor.id = l.id, anchor.card = KijijiCard(l)
  PROVE  LET row == SearchResult(doc, anchor) IN
         Tells(row, l) /\ "adId" \in DOMAIN row /\ row["adId"] = l.id /\ IdOf(row) = l.id
<1> DEFINE card == KijijiCard(l)
           element == ParseKijijiPrice(card.price)
           text == IF card.price = Null THEN PriceFromCardText(card) ELSE Null
           price == Else(element, text)
           row == SearchResult(doc, anchor)
           times == {"postedAt", "postedAtSource", "postedAtPrecision"}
           names == {"adId", "title", "price", "priceSource", "locationText", "postedText"}
<1>1. \/ price = Null
      \/ ~l.contact /\ price = [kind |-> "amount", value |-> l.amount]
      \/ l.contact /\ price = [kind |-> "contact", value |-> Null]
  BY KijijiCardPrice
<1>2. TitleOf(card) = l.title
  BY DEF KijijiCard, TitleOf, Else
<1> HIDE DEF card
<1>3. \E base, at : /\ row = base ++ at /\ DOMAIN base = names /\ DOMAIN at = times
                    /\ base.adId = l.id /\ base.title = l.title /\ base.price = price
  <2> DEFINE posted == CardPostedText(card, doc.observedAt)
             label == IF posted = Null THEN Null ELSE ParseKijijiPostedLabel(posted, doc.observedAt)
             cached == ApolloActivationDate(doc.cache, anchor.id)
             Stamp(t, from, precision) == [postedAt |-> t, postedAtSource |-> from, postedAtPrecision |-> precision]
             at == IF card.stamp # Null THEN Stamp(card.stamp, "card_datetime", "exact")
                   ELSE IF cached # Null THEN Stamp(cached, "hydration", "exact")
                   ELSE IF label # Null THEN Stamp(label.postedAt, "relative_text", label.precision)
                   ELSE Stamp(Null, Null, Null)
             base == [adId |-> anchor.id, title |-> TitleOf(card), price |-> price,
                      priceSource |-> IF element # Null THEN "card_element" ELSE IF text # Null THEN "card_text" ELSE Null,
                      locationText |-> card.place, postedText |-> posted]
  <2>1. row = base ++ at
    BY DEF SearchResult, card
  <2>2. DOMAIN at = times
    <3> HIDE DEF label, cached
    <3> QED
      OBVIOUS
  <2>3. DOMAIN base = names /\ base.adId = l.id /\ base.title = l.title /\ base.price = price
    BY <1>2
  <2> HIDE DEF base, at, price
  <2> QED
    BY <2>1, <2>2, <2>3
<1>4. PICK base, at : /\ row = base ++ at /\ DOMAIN base = names /\ DOMAIN at = times
                      /\ base.adId = l.id /\ base.title = l.title /\ base.price = price
  BY <1>3
<1> HIDE DEF row, price
<1>5. /\ DOMAIN row = names \cup times
      /\ row["adId"] = l.id /\ row["title"] = l.title /\ row["price"] = price
  BY <1>4 DEF ++
<1>6. /\ C!ValueAt(row, "adId") = l.id /\ C!ValueAt(row, "title") = l.title /\ C!ValueAt(row, "price") = price
      /\ \A k \in {"itemId", "snippetPrice", "priceValue", "sellingFormat", "listingType"} : C!ValueAt(row, k) = Null
  BY <1>5 DEF C!ValueAt
<1>7. C!ReadCandidateFormat(row) = Null
  BY <1>6 DEF C!ReadCandidateFormat, C!Else
<1>8. C!ReadCandidatePrice(row) = IF price = Null THEN Null ELSE price.value
  BY <1>5, <1>6 DEF C!ReadCandidatePrice, C!Else
<1>9. C!IsContactPriceRow(row) <=> price # Null /\ price.kind = "contact" /\ price.value = Null
  BY <1>5, <1>6 DEF C!IsContactPriceRow
<1>10. IdOf(row) = l.id
  BY <1>6 DEF IdOf, Else
<1>11. Tells(row, l)
  <2>1. price # Null => price.kind \in {"amount", "contact"} /\ (price.kind = "contact" <=> l.contact)
                        /\ (l.contact => price.value = Null) /\ (~l.contact => price.value = l.amount)
    BY <1>1
  <2> QED
    BY <1>6, <1>7, <1>8, <1>9, <2>1 DEF Tells
<1> QED
  BY <1>5, <1>10, <1>11 DEF row

\* A page whose links are to distinct ads has one row for each of them.
LEMMA KijijiRows ==
  ASSUME NEW T, NEW doc, doc.anchors \in Seq(T),
         \A i \in DOMAIN doc.anchors : /\ doc.anchors[i].onSite = TRUE /\ doc.anchors[i].toSearch = FALSE
                                       /\ doc.anchors[i].id # Null,
         \A i, j \in DOMAIN doc.anchors : doc.anchors[i].id = doc.anchors[j].id => i = j
  PROVE  SearchResults(doc) = [n \in DOMAIN doc.anchors |-> SearchResult(doc, doc.anchors[n])]
<1> DEFINE all == doc.anchors
           ads == Kept(doc.anchors, LAMBDA a : a.onSite /\ ~a.toSearch /\ a.id # Null)
           places == [n \in DOMAIN ads |-> n]
           first == Kept(places, LAMBDA n : \A m \in 1..(n - 1) : ads[m].id # ads[n].id)
<1>1. ads = all
  <2>1. ads = KeptAt(all, {n \in DOMAIN all : all[n].onSite /\ ~all[n].toSearch /\ all[n].id # Null})
    BY DEF Kept
  <2>2. DOMAIN all \subseteq {n \in DOMAIN all : all[n].onSite /\ ~all[n].toSearch /\ all[n].id # Null}
    OBVIOUS
  <2> HIDE DEF ads, all
  <2>3. all \in Seq(T)
    BY DEF all
  <2> QED
    BY <2>1, <2>2, <2>3, KeptWhole
<1>2. first = places
  <2> DEFINE at == {k \in DOMAIN places : \A m \in 1..(places[k] - 1) : ads[m].id # ads[places[k]].id}
  <2>1. first = KeptAt(places, at)
    BY DEF Kept
  <2> HIDE DEF ads
  <2>2. DOMAIN all = 1 .. Len(all) /\ Len(all) \in Nat
    OBVIOUS
  <2>3. places \in Seq(Nat) /\ DOMAIN places = DOMAIN all /\ \A k \in DOMAIN places : places[k] = k
    <3>1. places = [n \in 1 .. Len(all) |-> n]
      BY <1>1, <2>2
    <3> HIDE DEF places, all
    <3>2. places \in Seq(Nat)
      BY <2>2, <3>1
    <3> QED
      BY <2>2, <3>1, <3>2
  <2>4. ASSUME NEW k \in DOMAIN places, NEW m \in 1 .. (places[k] - 1) PROVE ads[m].id # ads[places[k]].id
    <3>1. k \in DOMAIN all /\ m \in DOMAIN all /\ m # k /\ places[k] = k
      BY <2>2, <2>3, <2>4
    <3> HIDE DEF places
    <3> QED
      BY <1>1, <3>1
  <2> HIDE DEF places
  <2>5. DOMAIN places \subseteq at
    BY <2>4
  <2> HIDE DEF at, first
  <2> QED
    BY <2>1, <2>3, <2>5, KeptWhole
<1>3. SearchResults(doc) = [n \in DOMAIN first |-> SearchResult(doc, ads[first[n]])]
  BY DEF SearchResults
<1> HIDE DEF first, ads
<1>4. DOMAIN first = DOMAIN all /\ \A n \in DOMAIN first : first[n] = n
  BY <1>1, <1>2
<1> HIDE DEF places
<1> QED
  BY <1>1, <1>3, <1>4

-----------------------------------------------------------------------------
(* The pages of a walk.                                                      *)

\* The listings of a page are those between its bounds, each once.
LEMMA RowsOnPage ==
  ASSUME walk \in Walks, NEW n \in Nat \ {0}
  PROVE  LET before == (n - 1) * walk.size
             upTo == Min({Total, n * walk.size})
             rows == RowsOn(n)
         IN  /\ Total \in Nat \ {0} /\ before \in Nat /\ n * walk.size = before + walk.size
             /\ upTo \in {Total, n * walk.size} /\ upTo <= Total /\ upTo <= n * walk.size
             /\ rows \in Seq(Range(walk.listings))
             /\ Len(rows) = IF before < upTo THEN upTo - before ELSE 0
             /\ \A i \in 1 .. Len(rows) : rows[i] = walk.listings[before + i] /\ before + i \in 1 .. Total
             /\ Range(rows) = {walk.listings[k] : k \in before + 1 .. upTo}
             /\ \A i, j \in 1 .. Len(rows) : rows[i].id = rows[j].id => i = j
<1> DEFINE before == (n - 1) * walk.size
           through == n * walk.size
           upTo == Min({Total, through})
           rows == RowsOn(n)
           listings == walk.listings
<1>1. /\ walk.size \in Nat \ {0} /\ listings # <<>> /\ listings \in Seq(Range(listings))
      /\ \A i, j \in DOMAIN listings : listings[i].id = listings[j].id => i = j
  BY WalksAssumption
<1>2. before \in Nat /\ through = before + walk.size /\ through \in Nat
  <2>1. walk.size \in Nat \ {0} /\ listings # <<>> /\ listings \in Seq(Range(listings))
    BY WalksAssumption, SMTT(30)
  <2>2. \A i, j \in DOMAIN listings : listings[i].id = listings[j].id => i = j
    BY WalksAssumption, SMTT(30)
  <2> HIDE DEF listings
  <2> QED
    BY <2>1, <2>2
<1>3. Total \in Nat \ {0} /\ DOMAIN listings = 1 .. Total
  BY <1>1 DEF Total
<1> HIDE DEF through
<1>4. upTo \in {Total, through} /\ upTo <= Total /\ upTo <= through
  BY <1>2, <1>3, MinOfTwo
<1>5. rows = SubSeq(listings, before + 1, upTo)
  BY DEF RowsOn, through
<1> HIDE DEF before, upTo, rows, listings
<1>6. before + 1 \in Nat \ {0} /\ upTo \in Nat /\ upTo <= Len(listings)
  BY <1>2, <1>3, <1>4 DEF Total, listings
<1>7. /\ rows \in Seq(Range(listings))
      /\ Len(rows) = IF before + 1 <= upTo THEN upTo - (before + 1) + 1 ELSE 0
      /\ \A i \in 1 .. Len(rows) : rows[i] = listings[before + 1 + i - 1]
      /\ Range(rows) = {listings[k] : k \in before + 1 .. upTo}
  BY <1>1, <1>5, <1>6, PartOf
<1>8. Len(rows) = IF before < upTo THEN upTo - before ELSE 0
  BY <1>2, <1>6, <1>7
<1>9. \A i \in 1 .. Len(rows) : rows[i] = listings[before + i] /\ before + i \in 1 .. Total
  <2> SUFFICES ASSUME NEW i \in 1 .. Len(rows) PROVE rows[i] = listings[before + i] /\ before + i \in 1 .. Total
    OBVIOUS
  <2>1. before + 1 + i - 1 = before + i /\ before + i \in 1 .. Total
    BY <1>2, <1>3, <1>4, <1>6, <1>8
  <2> QED
    BY <1>7, <2>1
<1>10. \A i, j \in 1 .. Len(rows) : rows[i].id = rows[j].id => i = j
  <2> SUFFICES ASSUME NEW i \in 1 .. Len(rows), NEW j \in 1 .. Len(rows), rows[i].id = rows[j].id PROVE i = j
    OBVIOUS
  <2>1. before + i = before + j
    BY <1>1, <1>3, <1>9
  <2> QED
    BY <1>2, <1>6, <1>8, <2>1
<1> QED
  BY <1>2, <1>3, <1>4, <1>7, <1>8, <1>9, <1>10 DEF before, through, upTo, rows, listings

\* The rows of a page of Kijiji tell of the listings the site has on it.
LEMMA KijijiPageRows ==
  ASSUME NullIsBare, walk \in Walks, PageNumber \in Nat \ {0}
  PROVE  LET rows == RowsOn(PageNumber)
             found == SearchResults(KijijiPage)
         IN  /\ found \in Seq(Range(found)) /\ DOMAIN found = 1 .. Len(rows) /\ Len(found) = Len(rows)
             /\ \A i \in 1 .. Len(rows) : /\ Tells(found[i], rows[i]) /\ IdOf(found[i]) = rows[i].id
                                          /\ "adId" \in DOMAIN found[i] /\ found[i]["adId"] = rows[i].id
                                          /\ found[i]["adId"] # Null
<1> DEFINE rows == RowsOn(PageNumber)
           found == SearchResults(KijijiPage)
           page == KijijiPage
           anchors == [i \in DOMAIN rows |->
                         [onSite |-> TRUE, toSearch |-> FALSE, id |-> rows[i].id, card |-> KijijiCard(rows[i])]]
<1>1. page.anchors = anchors
  BY DEF KijijiPage
<1>2. /\ rows \in Seq(Range(walk.listings)) /\ DOMAIN rows = 1 .. Len(rows) /\ Len(rows) \in Nat
      /\ \A i, j \in 1 .. Len(rows) : rows[i].id = rows[j].id => i = j
      /\ \A i \in 1 .. Len(rows) : rows[i] \in Range(walk.listings)
  <2>1. rows \in Seq(Range(walk.listings)) /\ \A i, j \in 1 .. Len(rows) : rows[i].id = rows[j].id => i = j
    BY RowsOnPage
  <2> HIDE DEF rows
  <2> QED
    BY <2>1
<1>3. \A l \in Range(walk.listings) : l.id # Null /\ l.title # Null /\ l.amount \in Nat /\ l.contact \in BOOLEAN
  BY WalksAssumption
<1> HIDE DEF rows, page
<1>4. /\ anchors \in Seq(Range(anchors)) /\ DOMAIN anchors = 1 .. Len(rows)
      /\ \A i \in 1 .. Len(rows) : /\ anchors[i].onSite = TRUE /\ anchors[i].toSearch = FALSE
                                   /\ anchors[i].id = rows[i].id /\ anchors[i].card = KijijiCard(rows[i])
  <2>1. /\ DOMAIN anchors = 1 .. Len(rows)
        /\ \A i \in 1 .. Len(rows) : /\ anchors[i].onSite = TRUE /\ anchors[i].toSearch = FALSE
                                     /\ anchors[i].id = rows[i].id /\ anchors[i].card = KijijiCard(rows[i])
    BY <1>2
  <2>2. anchors = [i \in 1 .. Len(rows) |-> anchors[i]]
    BY <1>2
  <2> HIDE DEF anchors
  <2>3. \A i \in 1 .. Len(rows) : anchors[i] \in Range(anchors)
    BY <2>1 DEF Range
  <2>4. anchors \in Seq(Range(anchors))
    BY <1>2, <2>2, <2>3
  <2> QED
    BY <2>1, <2>4
<1> HIDE DEF anchors
<1>5. found = [n \in 1 .. Len(rows) |-> SearchResult(page, anchors[n])]
  <2>1. /\ page.anchors \in Seq(Range(anchors))
        /\ \A i \in DOMAIN page.anchors : /\ page.anchors[i].onSite = TRUE /\ page.anchors[i].toSearch = FALSE
                                          /\ page.anchors[i].id # Null
    BY <1>1, <1>2, <1>3, <1>4
  <2>2. \A i, j \in DOMAIN page.anchors : page.anchors[i].id = page.anchors[j].id => i = j
    BY <1>1, <1>2, <1>4
  <2>3. SearchResults(page) = [n \in DOMAIN page.anchors |-> SearchResult(page, page.anchors[n])]
    BY <2>1, <2>2, KijijiRows, ZenonT(60)
  <2> QED
    BY <1>1, <1>4, <2>3 DEF page
<1>6. ASSUME NEW i \in 1 .. Len(rows)
      PROVE  /\ Tells(found[i], rows[i]) /\ IdOf(found[i]) = rows[i].id
             /\ "adId" \in DOMAIN found[i] /\ found[i]["adId"] = rows[i].id /\ found[i]["adId"] # Null
  <2>1. found[i] = SearchResult(page, anchors[i])
    BY <1>5
  <2>2. rows[i] \in Range(walk.listings)
    BY <1>2
  <2> HIDE DEF found
  <2> QED
    BY <1>3, <1>4, <2>1, <2>2, KijijiRow
<1>7. DOMAIN found = 1 .. Len(rows)
  BY <1>5
<1> HIDE DEF found
<1>8. found \in Seq(Range(found)) /\ Len(found) = Len(rows)
  <2>1. found = [i \in 1 .. Len(rows) |-> found[i]]
    BY <1>5
  <2>2. \A i \in 1 .. Len(rows) : found[i] \in Range(found)
    BY <1>7 DEF Range
  <2> QED
    BY <1>2, <1>7, <2>1, <2>2
<1> QED
  BY <1>6, <1>7, <1>8 DEF found, rows

LEMMA MinOfOne == Min({1}) = 1
BY MinOfTwo

\* What follows a page of Kijiji.
UrlInv ==
  /\ "page" \in DOMAIN url /\ url.page \in (Nat \ {0}) \cup {Null}
  /\ walk.site = "kijiji" => /\ {"kind", "segments"} \subseteq DOMAIN url
                             /\ url.kind = "b" /\ url.segments \in Nat /\ url.segments >= 2
  /\ walk.site = "ebay" => "size" \in DOMAIN url /\ url.size = walk.size

\* The address of the next page is that of a search, and of the page after this one.
LEMMA NextOfKijiji ==
  ASSUME UrlInv, walk.site = "kijiji", NullIsBare
  PROVE  LET next == NextKijijiPageUrl(url) IN
         /\ PageNumber \in Nat \ {0} /\ next # Null
         /\ {"page", "kind", "segments"} \subseteq DOMAIN next
         /\ next.page = PageNumber + 1 /\ next.kind = "b" /\ next.segments \in Nat /\ next.segments >= 2
<1> DEFINE next == NextKijijiPageUrl(url)
<1>1. /\ {"page", "kind", "segments"} \subseteq DOMAIN url
      /\ url.page \in (Nat \ {0}) \cup {Null} /\ url.kind = "b" /\ url.segments \in Nat /\ url.segments >= 2
  BY DEF UrlInv
<1>2. PageNumber = IF url.page = Null THEN 1 ELSE url.page
  BY DEF PageNumber, Else
<1>3. next = IF url.page # Null THEN [url EXCEPT !.page = url.page + 1]
             ELSE [url EXCEPT !.page = 2, !.segments = url.segments + 1]
  BY <1>1 DEF NextKijijiPageUrl
<1> HIDE DEF next
<1>4. /\ PageNumber \in Nat \ {0} /\ {"page", "kind", "segments"} \subseteq DOMAIN next
      /\ next.page = PageNumber + 1 /\ next.kind = "b" /\ next.segments \in Nat /\ next.segments >= 2
  <2>1. CASE url.page # Null
    BY <1>1, <1>2, <1>3, <2>1
  <2>2. CASE url.page = Null
    BY <1>1, <1>2, <1>3, <2>2
  <2> QED
    BY <2>1, <2>2
<1>5. next # Null
  BY <1>4 DEF NullIsBare
<1> QED
  BY <1>4, <1>5 DEF next

\* What a page of Kijiji says of the result set, in every style: nothing, or how many listings there are and
\* where among them it is.
LEMMA KijijiStates ==
  ASSUME NullIsBare, Total \in Nat, NEW rows, Len(rows) \in Nat, PageNumber \in Nat, walk.size \in Nat
  PROVE  LET page == KijijiPage
             stated == StatedCount(page)
             cached == ApolloPagination(page.cache, page.url)
             shown == Else(ShownThrough(stated, cached, rows), Len(rows))
         IN  \/ TotalResults(stated, cached) = Null
             \/ /\ TotalResults(stated, cached) = Total
                /\ shown \in {Min({Total, PageNumber * walk.size}), Len(rows), (PageNumber - 1) * walk.size + Len(rows)}
<1> DEFINE page == KijijiPage
           through == Min({Total, PageNumber * walk.size})
           before == (PageNumber - 1) * walk.size
           range == [through |-> through, of |-> Total]
           ranged == FirstThat(page.counts, LAMBDA c : c.range # Null)
           total == FirstThat(page.counts, LAMBDA c : c.total # Null)
           rangedAt == {i \in DOMAIN page.counts : page.counts[i].range # Null}
           totalAt == {i \in DOMAIN page.counts : page.counts[i].total # Null}
           stated == StatedCount(page)
           cached == ApolloPagination(page.cache, page.url)
           shown == Else(ShownThrough(stated, cached, rows), Len(rows))
<1>1. /\ page.url = url
      /\ page.cache = IF walk.style # "cached" THEN Null
                      ELSE [path |-> PathOf(url), keywords |-> Null, ads |-> <<>>,
                            pagination |-> [offset |-> before, totalCount |-> Total]]
  BY DEF KijijiPage
<1>2. page.counts = IF walk.style = "ranged" THEN <<[range |-> range, total |-> Null]>>
                    ELSE IF walk.style = "titled" THEN <<[range |-> Null, total |-> Total]>> ELSE <<>>
  <2>1. CASE walk.style = "ranged"
    BY <2>1 DEF KijijiPage
  <2>2. CASE walk.style = "titled"
    BY <2>2 DEF KijijiPage
  <2>3. CASE walk.style \notin {"ranged", "titled"}
    BY <2>3 DEF KijijiPage
  <2> QED
    BY <2>1, <2>2, <2>3
<1> HIDE DEF page
<1>3. through \in Nat /\ before \in Int /\ Null \notin Nat
  <2>1. PageNumber * walk.size \in Nat /\ before \in Int
    OBVIOUS
  <2> QED
    BY <2>1, MinOfTwo, NullAssumption
<1> HIDE DEF through, before
<1>4. stated = IF ranged # Null THEN [of |-> ranged.range.of, through |-> ranged.range.through]
               ELSE [of |-> IF total = Null THEN Null ELSE total.total, through |-> Null]
  BY DEF StatedCount
<1>5. /\ ranged = IF rangedAt = {} THEN Null ELSE page.counts[Min(rangedAt)]
      /\ total = IF totalAt = {} THEN Null ELSE page.counts[Min(totalAt)]
  BY DEF FirstThat
<1> HIDE DEF ranged, total, rangedAt, totalAt
<1>6. cached = IF walk.style = "cached" THEN [offset |-> before, totalCount |-> Total] ELSE Null
  <2>1. CASE walk.style = "cached"
    <3>1. page.cache # Null
      BY <1>1, <2>1 DEF NullIsBare
    <3> QED
      BY <1>1, <2>1, <3>1 DEF ApolloPagination
  <2>2. CASE walk.style # "cached"
    BY <1>1, <2>2 DEF ApolloPagination
  <2> QED
    BY <2>1, <2>2
<1>7. CASE walk.style = "ranged"
  <2> DEFINE count == [range |-> range, total |-> Null]
  <2>1. page.counts = <<count>> /\ count.range # Null /\ count # Null
    BY <1>2, <1>7 DEF NullIsBare
  <2>2. rangedAt = {1}
    BY <2>1 DEF rangedAt
  <2>3. ranged = count
    BY <1>5, <2>1, <2>2, MinOfOne
  <2>4. stated.of = Total /\ stated.through = through
    <3>1. ranged # Null /\ ranged.range = range /\ range.of = Total /\ range.through = through
      BY <2>1, <2>3
    <3> HIDE DEF range
    <3> QED
      BY <1>4, <3>1
  <2> HIDE DEF stated, cached
  <2>5. TotalResults(stated, cached) = Total
    BY <1>3, <2>4 DEF TotalResults, Else
  <2>6. shown = through
    BY <1>3, <2>4 DEF ShownThrough, Else
  <2> QED
    BY <2>5, <2>6 DEF stated, cached, page, through
<1>8. CASE walk.style # "ranged"
  <2>1. rangedAt = {}
    <3>1. CASE walk.style = "titled"
      BY <1>2, <3>1 DEF rangedAt
    <3>2. CASE walk.style # "titled"
      BY <1>2, <1>8, <3>2 DEF rangedAt
    <3> QED
      BY <3>1, <3>2
  <2>2. ranged = Null /\ stated.through = Null /\ stated.of = IF total = Null THEN Null ELSE total.total
    BY <1>4, <1>5, <2>1
  <2>3. CASE walk.style = "cached"
    <3>1. page.counts = <<>>
      BY <1>2, <2>3
    <3>2. stated.of = Null
      <4>1. totalAt = {}
        BY <3>1 DEF totalAt
      <4> QED
        BY <1>5, <2>2, <4>1
    <3>3. cached.totalCount = Total /\ cached.offset = before /\ cached # Null
      BY <1>6, <2>3 DEF NullIsBare
    <3> HIDE DEF stated, cached
    <3>4. TotalResults(stated, cached) = Total
      BY <3>2, <3>3 DEF TotalResults, Else
    <3>5. shown = before + Len(rows) \/ shown = Len(rows)
      BY <2>2, <3>3 DEF ShownThrough, Else
    <3> QED
      BY <3>4, <3>5 DEF stated, cached, page, before
  <2>4. CASE walk.style # "cached"
    <3>1. cached = Null
      BY <1>6, <2>4
    <3>2. total = Null \/ total.total = Total
      <4>1. CASE walk.style = "titled"
        <5>1. totalAt = {1}
          <6>1. page.counts = <<[range |-> Null, total |-> Total]>>
            BY <1>2, <4>1
          <6>2. Total # Null
            BY <1>3
          <6> QED
            BY <6>1, <6>2 DEF totalAt
        <5>2. total = page.counts[1] /\ page.counts[1].total = Total
          BY <1>2, <1>5, <4>1, <5>1, MinOfOne
        <5> QED
          BY <5>2
      <4>2. CASE walk.style # "titled"
        <5>1. totalAt = {}
          BY <1>2, <1>8, <4>2 DEF totalAt
        <5> QED
          BY <1>5, <5>1
      <4> QED
        BY <4>1, <4>2
    <3>3. stated.of \in {Null, Total}
      BY <2>2, <3>2
    <3> HIDE DEF stated, cached
    <3>4. TotalResults(stated, cached) \in {Null, Total}
      BY <3>1, <3>3 DEF TotalResults, Else
    <3>5. shown = Len(rows)
      BY <2>2, <3>1 DEF ShownThrough, Else
    <3> QED
      BY <3>4, <3>5 DEF stated, cached, page
  <2> QED
    BY <2>3, <2>4
<1> QED
  BY <1>7, <1>8

\* A page of Kijiji leads on to the page after it; or it says that it does not know what follows; or nothing does.
LEMMA KijijiFollows ==
  ASSUME NullIsBare, walk \in Walks, walk.site = "kijiji", UrlInv
  PROVE  LET set == ExtractSearchResults(KijijiPage)
             onwards == set.hasNextPage = TRUE /\ set.nextPageUrl # Null
         IN  /\ set.results = SearchResults(KijijiPage) /\ "warnings" \in DOMAIN set
             /\ onwards => set.nextPageUrl = NextKijijiPageUrl(url)
             /\ ~onwards => "PAGINATION_METADATA_ABSENT" \in set.warnings \/ Total <= PageNumber * walk.size
<1> DEFINE page == KijijiPage
           rows == SearchResults(page)
           stated == StatedCount(page)
           cached == ApolloPagination(page.cache, page.url)
           total == TotalResults(stated, cached)
           shown == ShownThrough(stated, cached, rows)
           more == total # Null /\ Else(shown, Len(rows)) < total
           after == NextKijijiPageUrl(url)
           next == NextPageUrl(page, more)
           set == ExtractSearchResults(page)
           size == walk.size
           before == (PageNumber - 1) * size
           through == PageNumber * size
           shownTo == Min({Total, through})
<1>1. set = SearchPage(page, rows, total, more, next)
  BY DEF ExtractSearchResults, ResultSet, CountedPage
<1>2. PageNumber \in Nat \ {0} /\ after # Null /\ Null \notin Nat /\ size \in Nat \ {0}
  BY NextOfKijiji, NullAssumption, WalksAssumption
<1>3. /\ Total \in Nat \ {0} /\ before \in Nat /\ through = before + size /\ Len(rows) \in Nat
      /\ shownTo \in {Total, through} /\ shownTo <= Total /\ shownTo <= through
      /\ Len(rows) = IF before < shownTo THEN shownTo - before ELSE 0
  <2>1. Len(rows) = Len(RowsOn(PageNumber))
    BY <1>2, KijijiPageRows
  <2> HIDE DEF rows
  <2>2. /\ Total \in Nat \ {0} /\ before \in Nat /\ through = before + size
        /\ shownTo \in {Total, through} /\ shownTo <= Total /\ shownTo <= through
        /\ Len(RowsOn(PageNumber)) = IF before < shownTo THEN shownTo - before ELSE 0
    BY <1>2, RowsOnPage
  <2> HIDE DEF before, through, shownTo
  <2>3. before \in Nat /\ shownTo \in Nat
    BY <1>2, <2>2
  <2> QED
    BY <2>1, <2>2, <2>3
<1>4. total = Null \/ (total = Total /\ Else(shown, Len(rows)) \in {shownTo, Len(rows), before + Len(rows)})
  <2> HIDE DEF rows
  <2> QED
    BY <1>2, <1>3, KijijiStates
<1> HIDE DEF rows, stated, cached, total, shown, after, set
<1>5. page.url = url /\ page.next = <<IF walk.style = "linked" /\ PageNumber < LastPage THEN after ELSE Null>>
  BY DEF KijijiPage, after
<1> HIDE DEF page, before, through, shownTo
<1>6. next \in {after, Null} /\ (more => next = after)
  <2> DEFINE link == FirstThat(page.next, LAMBDA href : href # Null)
             at == {i \in DOMAIN page.next : page.next[i] # Null}
  <2>1. next = Else(link, IF more THEN after ELSE Null)
    BY <1>5 DEF NextPageUrl, after
  <2>2. link = IF at = {} THEN Null ELSE page.next[Min(at)]
    BY DEF FirstThat
  <2>3. DOMAIN page.next = {1} /\ page.next[1] \in {after, Null}
    BY <1>5
  <2>4. at = {} \/ at = {1}
    BY <2>3
  <2> HIDE DEF link, at
  <2>5. link \in {after, Null}
    BY <2>2, <2>3, <2>4, MinOfOne
  <2> HIDE DEF next, more
  <2> QED
    BY <2>1, <2>5 DEF Else
<1>7. /\ set.results = rows /\ set.hasNextPage = (next # Null \/ more) /\ set.nextPageUrl = next
      /\ "warnings" \in DOMAIN set
      /\ rows # <<>> /\ total = Null /\ next = Null => "PAGINATION_METADATA_ABSENT" \in set.warnings
  <2> HIDE DEF next, more
  <2> QED
    BY <1>1 DEF SearchPage
<1>8. ASSUME next = Null PROVE "PAGINATION_METADATA_ABSENT" \in set.warnings \/ Total <= through
  <2>1. ~more
    BY <1>2, <1>6, <1>8
  <2>2. CASE total = Null
    <3>1. CASE rows # <<>>
      BY <1>7, <1>8, <2>2, <3>1
    <3>2. CASE rows = <<>>
      <4>1. Len(rows) = 0
        BY <3>2
      <4> QED
        BY <1>2, <1>3, <4>1
    <3> QED
      BY <3>1, <3>2
  <2>3. CASE total # Null
    <3>1. total = Total /\ Else(shown, Len(rows)) \in {shownTo, Len(rows), before + Len(rows)}
      BY <1>4, <2>3
    <3>2. ~(Else(shown, Len(rows)) < Total)
      BY <2>1, <2>3, <3>1
    <3> QED
      BY <1>2, <1>3, <3>1, <3>2
  <2> QED
    BY <2>2, <2>3
<1>9. next # Null => set.hasNextPage = TRUE /\ set.nextPageUrl = after
  BY <1>6, <1>7
<1> HIDE DEF next, more
<1> QED
  BY <1>7, <1>8, <1>9 DEF set, rows, page, after, through

-----------------------------------------------------------------------------
(* The rows of a page and the listings of a walk.                            *)

PageRows == IF walk.site = "kijiji" THEN SearchResults(KijijiPage) ELSE E!ExtractListingCandidates(EbayPage)

\* The rows of the page on show that pass the caller's filters.
Matches == C!Matched(PageRows, walk.filter)

\* Unless the caller was told that it falls short: what it passed of the search, and of the page, it has got.
MatchInv ==
  /\ walk \in Walks /\ UrlInv /\ offset \in Nat
  /\ returned \subseteq Ids(Wanted)
  /\ told \cap Shortfalls = {} =>
       /\ \A k \in DOMAIN walk.listings :
            k <= (PageNumber - 1) * walk.size /\ Wanted(walk.listings[k]) => walk.listings[k].id \in returned
       /\ \A i \in 1 .. offset : i \in DOMAIN Matches => IdOf(Matches[i]) \in returned
       /\ state \in {"done", "body", "finished"} => Ids(Wanted) \subseteq returned

\* The rows that match are those of the walk and of the page.
LEMMA UnchangedMatches ==
  ASSUME walk' = walk
  PROVE  url' = url => Matches' = Matches /\ PageNumber' = PageNumber
<1> SUFFICES ASSUME url' = url PROVE Matches' = Matches /\ PageNumber' = PageNumber
  OBVIOUS
<1>0. PageNumber' = PageNumber /\ LastPage' = LastPage /\ Total' = Total
  BY DEF PageNumber, LastPage, Total, Else
<1>1. \A n : RowsOn(n)' = RowsOn(n)
  BY <1>0 DEF RowsOn
<1>2. KijijiPage' = KijijiPage
  BY <1>0, <1>1 DEF KijijiPage
<1>3. EbayPage' = EbayPage
  BY <1>0, <1>1 DEF EbayPage
<1>4. PageRows' = PageRows
  BY <1>2, <1>3 DEF PageRows
<1> QED
  BY <1>0, <1>4 DEF Matches

\* What is wanted depends on the walk alone.
LEMMA UnchangedWants ==
  ASSUME walk' = walk
  PROVE  (\A l : Wanted(l)' <=> Wanted(l)) /\ Ids(Wanted)' = Ids(Wanted)
<1>1. \A l : Wanted(l)' <=> Wanted(l)
  BY DEF Wanted
<1> QED
  BY <1>1 DEF Ids, Wanted

\* A page of rows, each telling of its own listing and sent under its name, that has every listing of its
\* number.
Shows(page, rows) ==
  /\ page.candidates = PageRows /\ PageRows \in Seq(Range(PageRows)) /\ DOMAIN PageRows = DOMAIN rows
  /\ \A i \in DOMAIN rows :
       /\ rows[i] \in Range(walk.listings) /\ Tells(PageRows[i], rows[i])
       /\ IdOf(PageRows[i]) = rows[i].id
       /\ IdOf(C!ProjectCandidate(PageRows[i], Options, C!DefaultFields(page))) = rows[i].id
  /\ \A k \in DOMAIN walk.listings :
       (PageNumber - 1) * walk.size < k /\ k <= PageNumber * walk.size => \E i \in DOMAIN rows : rows[i] = walk.listings[k]

\* After an answer that falls short of nothing the caller has what matches up to where it goes on, and all
\* of the page when it does not go on.
LEMMA AnswerCovers ==
  ASSUME MatchInv, NEW page, NEW rows, Shows(page, rows), NEW scanned \in {Null, 1}
  PROVE  LET answer == C!CompactSearchPage(page, Options, scanned)
             got == returned \cup {IdOf(r) : r \in Range(answer.candidates)}
         IN  /\ got \subseteq Ids(Wanted)
             /\ answer.hasMore \in BOOLEAN /\ answer.nextOffset \in IF answer.hasMore THEN Nat ELSE {Null}
             /\ (told \cup answer.warnings) \cap Shortfalls = {} =>
                  /\ answer.hasMore =>
                       \A i \in 1 .. answer.nextOffset : i \in DOMAIN Matches => IdOf(Matches[i]) \in got
                  /\ ~answer.hasMore =>
                       \A k \in DOMAIN walk.listings :
                         k <= PageNumber * walk.size /\ Wanted(walk.listings[k]) => walk.listings[k].id \in got
<1> DEFINE answer == C!CompactSearchPage(page, Options, scanned)
           got == returned \cup {IdOf(r) : r \in Range(answer.candidates)}
           Sent(row) == C!ProjectCandidate(row, Options, C!DefaultFields(page))
           T == Range(PageRows)
           f == walk.filter
<1>1. /\ walk \in Walks /\ offset \in Nat /\ returned \subseteq Ids(Wanted)
      /\ walk.limit \in Nat /\ walk.size \in Nat /\ walk.listings \in Seq(Range(walk.listings)) /\ MaxScanned \in Nat
      /\ PageNumber \in Nat \ {0}
  <2>1. walk \in Walks /\ offset \in Nat /\ returned \subseteq Ids(Wanted) /\ UrlInv
    BY DEF MatchInv
  <2>2. PageNumber \in Nat \ {0}
    BY <2>1 DEF UrlInv, PageNumber, Else
  <2> QED
    BY <2>1, <2>2, WalksAssumption
<1>2. /\ Options.offset = offset /\ Options.limit = walk.limit /\ Options.fields = Null /\ Options.include = f
  BY DEF Options
<1>3. /\ page.candidates = PageRows /\ PageRows \in Seq(T) /\ DOMAIN PageRows = DOMAIN rows
      /\ \A i \in DOMAIN rows : /\ rows[i] \in Range(walk.listings) /\ Tells(PageRows[i], rows[i])
                                /\ IdOf(PageRows[i]) = rows[i].id /\ IdOf(Sent(PageRows[i])) = rows[i].id
      /\ \A k \in DOMAIN walk.listings :
           (PageNumber - 1) * walk.size < k /\ k <= PageNumber * walk.size =>
             \E i \in DOMAIN rows : rows[i] = walk.listings[k]
  BY DEF Shows
<1> HIDE DEF Sent, T
<1>4. /\ \A r \in Range(answer.candidates) : \E row \in Range(PageRows) : Passes(row, f) /\ r = Sent(row)
      /\ answer.hasMore \in BOOLEAN /\ answer.nextOffset \in IF answer.hasMore THEN Nat ELSE {Null}
      /\ answer.warnings \cap Shortfalls = {} =>
           /\ \A row \in Range(PageRows) : C!TitleMatches(row, f) /\ C!Unpriced(row, f) => C!PriceMatches(row, f)
           /\ \A i \in DOMAIN Matches :
                i > offset /\ (answer.hasMore => i <= answer.nextOffset) => Sent(Matches[i]) \in Range(answer.candidates)
  <2> DEFINE o == Options
             all == page.candidates
  <2>1. all \in Seq(T) /\ o.offset \in Nat /\ o.limit \in Nat /\ o.fields = Null
    BY <1>1, <1>2, <1>3
  <2> HIDE DEF o
  <2>2. /\ \A r \in Range(C!CompactSearchPage(page, o, scanned).candidates) :
             \E row \in Range(all) : Passes(row, o.include) /\ r = C!ProjectCandidate(row, o, C!DefaultFields(page))
        /\ C!CompactSearchPage(page, o, scanned).hasMore \in BOOLEAN
        /\ C!CompactSearchPage(page, o, scanned).nextOffset
             \in IF C!CompactSearchPage(page, o, scanned).hasMore THEN Nat ELSE {Null}
        /\ C!CompactSearchPage(page, o, scanned).warnings \cap Shortfalls = {} =>
             /\ \A row \in Range(all) :
                  C!TitleMatches(row, o.include) /\ C!Unpriced(row, o.include) => C!PriceMatches(row, o.include)
             /\ \A i \in DOMAIN C!Matched(all, o.include) :
                  i > o.offset /\ (C!CompactSearchPage(page, o, scanned).hasMore
                                    => i <= C!CompactSearchPage(page, o, scanned).nextOffset)
                    => C!ProjectCandidate(C!Matched(all, o.include)[i], o, C!DefaultFields(page))
                         \in Range(C!CompactSearchPage(page, o, scanned).candidates)
    BY <1>1, <2>1, RowsSent, ZenonT(60)
  <2>3. C!Matched(all, o.include) = Matches
    BY <1>2, <1>3 DEF Matches, o
  <2>4. \A row : C!ProjectCandidate(row, o, C!DefaultFields(page)) = Sent(row)
    BY DEF Sent, o
  <2>5. C!CompactSearchPage(page, o, scanned) = answer
    BY DEF o
  <2>6. all = PageRows /\ o.offset = offset /\ o.include = f
    BY <1>2, <1>3 DEF o
  <2> HIDE DEF all, answer, f
  <2> QED
    BY <2>2, <2>3, <2>4, <2>5, <2>6
<1>5. Matches \in Seq(T) /\ Range(Matches) = {r \in Range(PageRows) : Passes(r, f)}
  BY <1>3, MatchedRows DEF Matches
<1> HIDE DEF answer, f
<1>6. \A row \in Range(PageRows) : \E i \in DOMAIN rows : row = PageRows[i]
  BY <1>3 DEF Range
<1>7. \A row \in Range(PageRows) : IdOf(Sent(row)) = IdOf(row)
  BY <1>3, <1>6
<1>8. got \subseteq Ids(Wanted)
  <2> SUFFICES ASSUME NEW r \in Range(answer.candidates) PROVE IdOf(r) \in Ids(Wanted)
    BY <1>1
  <2>1. PICK row \in Range(PageRows) : Passes(row, f) /\ r = Sent(row)
    BY <1>4
  <2>2. PICK i \in DOMAIN rows : row = PageRows[i]
    BY <1>6
  <2>3. rows[i] \in Range(walk.listings) /\ Tells(row, rows[i]) /\ IdOf(r) = rows[i].id
    BY <1>3, <2>1, <2>2
  <2>4. Wanted(rows[i])
    BY <1>1, <2>1, <2>3, RowsAreJudged DEF f
  <2> QED
    BY <2>3, <2>4 DEF Ids
<1> DEFINE quiet == (told \cup answer.warnings) \cap Shortfalls = {}
<1>9. ASSUME quiet, NEW i \in Nat, i \in DOMAIN Matches, answer.hasMore => i <= answer.nextOffset
      PROVE  IdOf(Matches[i]) \in got
  <2>1. CASE i <= offset
    <3>1. i \in 1 .. offset
      BY <1>1, <1>5, <1>9, <2>1
    <3>2. told \cap Shortfalls = {}
      BY <1>9
    <3> QED
      BY <1>9, <3>1, <3>2 DEF MatchInv
  <2>2. CASE ~(i <= offset)
    <3>1. i > offset
      BY <1>1, <2>2
    <3>2. answer.warnings \cap Shortfalls = {}
      BY <1>9
    <3>3. Sent(Matches[i]) \in Range(answer.candidates)
      BY <1>4, <1>9, <3>1, <3>2
    <3>4. Matches[i] \in Range(PageRows)
      BY <1>5, <1>9 DEF Range
    <3> QED
      BY <1>7, <3>3, <3>4
  <2> QED
    BY <2>1, <2>2
<1>10. ASSUME quiet, ~answer.hasMore, NEW k \in DOMAIN walk.listings, k <= PageNumber * walk.size,
              Wanted(walk.listings[k])
       PROVE  walk.listings[k].id \in got
  <2>0. k \in Nat /\ (PageNumber - 1) * walk.size \in Int
    BY <1>1
  <2>1. CASE k <= (PageNumber - 1) * walk.size
    <3>1. told \cap Shortfalls = {}
      BY <1>10
    <3> QED
      BY <1>10, <2>1, <3>1 DEF MatchInv
  <2>2. CASE (PageNumber - 1) * walk.size < k
    <3>1. PICK i \in DOMAIN rows : rows[i] = walk.listings[k]
      BY <1>3, <1>10, <2>2
    <3> DEFINE row == PageRows[i]
    <3>2. row \in Range(PageRows) /\ Tells(row, rows[i]) /\ IdOf(row) = walk.listings[k].id
      BY <1>3, <3>1 DEF Range
    <3>3. rows[i] \in Range(walk.listings) /\ Wanted(rows[i])
      BY <1>3, <1>10, <3>1
    <3>4. answer.warnings \cap Shortfalls = {}
      BY <1>10
    <3> HIDE DEF row
    <3>5. Passes(row, f)
      <4>1. \/ Passes(row, f)
            \/ C!TitleMatches(row, f) /\ ~C!PriceMatches(row, f) /\ C!Unpriced(row, f)
        BY <1>1, <3>2, <3>3, RowsAreJudged DEF f
      <4> QED
        BY <1>4, <3>2, <3>4, <4>1
    <3>6. row \in Range(Matches)
      BY <1>5, <3>2, <3>5
    <3>7. PICK j \in DOMAIN Matches : row = Matches[j]
      BY <3>6 DEF Range
    <3>8. j \in Nat
      BY <1>5
    <3> QED
      BY <1>9, <1>10, <3>2, <3>7, <3>8
  <2> QED
    BY <2>0, <2>1, <2>2
<1>11. ASSUME quiet, answer.hasMore, NEW i \in 1 .. answer.nextOffset, i \in DOMAIN Matches PROVE IdOf(Matches[i]) \in got
  BY <1>4, <1>9, <1>11
<1> QED
  BY <1>4, <1>8, <1>10, <1>11 DEF answer

\* Where a page leads: to the page after it; or it says that it does not know; or nothing follows.
LeadsOn(next) ==
  /\ "page" \in DOMAIN next /\ next.page = PageNumber + 1
  /\ walk.site = "kijiji" => /\ {"kind", "segments"} \subseteq DOMAIN next
                             /\ next.kind = "b" /\ next.segments \in Nat /\ next.segments >= 2
  /\ walk.site = "ebay" => "size" \in DOMAIN next /\ next.size = walk.size
Leads(page, warnings) ==
  IF page.hasNextPage = TRUE /\ page.nextPageUrl # Null THEN LeadsOn(page.nextPageUrl)
  ELSE warnings \cap Shortfalls # {} \/ Total <= PageNumber * walk.size

\* What an answer about a page takes over from its reduction.
TakesOver(record, warnings, page, scanned) ==
  LET sent == C!CompactSearchPage(page, Options, scanned)
  IN  /\ record.candidates = sent.candidates /\ record.hasMore = sent.hasMore /\ record.nextOffset = sent.nextOffset
      /\ record.hasNextPage = page.hasNextPage /\ record.nextPageUrl = page.nextPageUrl
      /\ sent.warnings \subseteq warnings

\* A caller that goes where such an answer leads has every match it passed.
LEMMA FollowKeeps ==
  ASSUME MatchInv, NEW page, NEW rows, Shows(page, rows), NEW scanned \in {Null, 1},
         NEW record, NEW warnings, TakesOver(record, warnings, page, scanned), Leads(page, warnings),
         Follow(record, warnings), walk' = walk
  PROVE  MatchInv'
<1> DEFINE sent == C!CompactSearchPage(page, Options, scanned)
           got == returned \cup {IdOf(r) : r \in Range(sent.candidates)}
           onwards == page.hasNextPage = TRUE /\ page.nextPageUrl # Null
           next == page.nextPageUrl
<1>1. /\ walk \in Walks /\ UrlInv /\ offset \in Nat
      /\ walk.size \in Nat \ {0} /\ walk.listings \in Seq(Range(walk.listings))
      /\ Null \notin Nat
  BY WalksAssumption, NullAssumption DEF MatchInv
<1>2. PageNumber \in Nat \ {0}
  BY <1>1 DEF UrlInv, PageNumber, Else
<1>3. /\ got \subseteq Ids(Wanted)
      /\ sent.hasMore \in BOOLEAN /\ sent.nextOffset \in IF sent.hasMore THEN Nat ELSE {Null}
      /\ (told \cup sent.warnings) \cap Shortfalls = {} =>
           /\ sent.hasMore => \A i \in 1 .. sent.nextOffset : i \in DOMAIN Matches => IdOf(Matches[i]) \in got
           /\ ~sent.hasMore =>
                \A k \in DOMAIN walk.listings :
                  k <= PageNumber * walk.size /\ Wanted(walk.listings[k]) => walk.listings[k].id \in got
  BY AnswerCovers
<1>4. /\ record.candidates = sent.candidates /\ record.hasMore = sent.hasMore /\ record.nextOffset = sent.nextOffset
      /\ record.hasNextPage = page.hasNextPage /\ record.nextPageUrl = next /\ sent.warnings \subseteq warnings
  BY DEF TakesOver
<1> HIDE DEF sent
<1>5. /\ returned' = got /\ told' = told \cup warnings /\ offset' = Else(sent.nextOffset, 0)
      /\ url' = IF ~sent.hasMore /\ onwards THEN next ELSE url
      /\ state' = IF sent.hasMore THEN "read" ELSE IF onwards THEN "navigate" ELSE "done"
  BY <1>4 DEF Follow
<1> HIDE DEF got
<1>6. (\A l : Wanted(l)' <=> Wanted(l)) /\ Ids(Wanted)' = Ids(Wanted)
  BY UnchangedWants
<1>7. offset' = IF sent.hasMore THEN sent.nextOffset ELSE 0
  BY <1>1, <1>3, <1>5 DEF Else
<1>8. offset' \in Nat
  BY <1>3, <1>7
<1> DEFINE Quiet == (told \cup sent.warnings) \cap Shortfalls = {}
<1>9. told' \cap Shortfalls = {} => /\ told \cap Shortfalls = {} /\ Quiet /\ warnings \cap Shortfalls = {}
  BY <1>4, <1>5
<1>10. CASE sent.hasMore
  <2>1. url' = url /\ state' = "read"
    BY <1>5, <1>10
  <2>2. Matches' = Matches /\ PageNumber' = PageNumber
    BY <2>1, UnchangedMatches
  <2>3. UrlInv'
    BY <1>1, <2>1 DEF UrlInv
  <2>4. ASSUME told' \cap Shortfalls = {}
        PROVE  /\ \A k \in DOMAIN walk.listings :
                    k <= (PageNumber - 1) * walk.size /\ Wanted(walk.listings[k]) => walk.listings[k].id \in got
               /\ \A i \in 1 .. offset' : i \in DOMAIN Matches => IdOf(Matches[i]) \in got
    <3>1. Quiet /\ told \cap Shortfalls = {}
      BY <1>9, <2>4
    <3>2. \A k \in DOMAIN walk.listings :
             k <= (PageNumber - 1) * walk.size /\ Wanted(walk.listings[k]) => walk.listings[k].id \in returned
      BY <3>1 DEF MatchInv
    <3>3. returned \subseteq got
      BY DEF got
    <3> QED
      BY <1>3, <1>7, <1>10, <3>1, <3>2, <3>3
  <2> QED
    BY <1>1, <1>3, <1>5, <1>6, <1>8, <2>1, <2>2, <2>3, <2>4 DEF MatchInv
<1>11. CASE ~sent.hasMore /\ onwards
  <2>1. url' = next /\ state' = "navigate" /\ offset' = 0
    BY <1>5, <1>7, <1>11
  <2>2. LeadsOn(next)
    BY <1>11 DEF Leads
  <2>3. UrlInv' /\ PageNumber' = PageNumber + 1
    BY <1>1, <1>2, <2>1, <2>2 DEF LeadsOn, UrlInv, PageNumber, Else
  <2>4. (PageNumber' - 1) * walk.size = PageNumber * walk.size
    BY <1>1, <1>2, <2>3
  <2>5. 1 .. offset' = {}
    BY <2>1
  <2>6. told' \cap Shortfalls = {} =>
          \A k \in DOMAIN walk.listings :
            k <= PageNumber * walk.size /\ Wanted(walk.listings[k]) => walk.listings[k].id \in got
    BY <1>3, <1>9, <1>11
  <2> QED
    BY <1>1, <1>3, <1>5, <1>6, <1>8, <2>1, <2>3, <2>4, <2>5, <2>6 DEF MatchInv
<1>12. CASE ~sent.hasMore /\ ~onwards
  <2>1. url' = url /\ state' = "done" /\ offset' = 0
    BY <1>5, <1>7, <1>12
  <2>2. PageNumber' = PageNumber
    BY <2>1, UnchangedMatches
  <2>3. UrlInv'
    BY <1>1, <2>1 DEF UrlInv
  <2>4. 1 .. offset' = {}
    BY <2>1
  <2>5. ASSUME told' \cap Shortfalls = {}
        PROVE  /\ Ids(Wanted) \subseteq got
               /\ \A k \in DOMAIN walk.listings : Wanted(walk.listings[k]) => walk.listings[k].id \in got
    <3>1. Total <= PageNumber * walk.size
      BY <1>9, <1>12, <2>5 DEF Leads
    <3>2. DOMAIN walk.listings = 1 .. Total /\ Total \in Nat
      BY <1>1 DEF Total
    <3>3. \A k \in DOMAIN walk.listings :
            k <= PageNumber * walk.size /\ Wanted(walk.listings[k]) => walk.listings[k].id \in got
      BY <1>3, <1>9, <1>12, <2>5
    <3>4. \A k \in DOMAIN walk.listings : k <= PageNumber * walk.size
      <4>1. PageNumber * walk.size \in Nat
        BY <1>1, <1>2
      <4> QED
        BY <3>1, <3>2, <4>1
    <3>5. \A k \in DOMAIN walk.listings : Wanted(walk.listings[k]) => walk.listings[k].id \in got
      BY <3>3, <3>4
    <3>6. \A l \in Range(walk.listings) : Wanted(l) => l.id \in got
      BY <3>5 DEF Range
    <3> QED
      BY <3>5, <3>6 DEF Ids
  <2> QED
    BY <1>1, <1>3, <1>5, <1>6, <1>8, <2>1, <2>2, <2>3, <2>4, <2>5 DEF MatchInv
<1> QED
  BY <1>3, <1>10, <1>11, <1>12

\* The answer about a results page of Kijiji: its reduction, and the warnings of both.
LEMMA KijijiAnswers ==
  ASSUME NEW doc, NEW options, options # Null, NEW scanned,
         doc.site = "kijiji", doc.kind = "search", doc.challenge = FALSE
  PROVE  LET set == ExtractSearchResults(doc)
             page == RowsPage("kijiji", "search", set.results, FALSE, set.hasNextPage, set.nextPageUrl)
             sent == C!CompactSearchPage(page, options, scanned)
             answer == ExecuteExtract(doc, FALSE, Null, options, scanned)
         IN  /\ \E removed : answer.record = sent ++ [removedAdId |-> removed]
             /\ set.warnings \cup sent.warnings \subseteq answer.warnings
<1> DEFINE set == ExtractSearchResults(doc)
           read == [page |-> set, waited |-> {}]
           page == RowsPage("kijiji", "search", set.results, FALSE, set.hasNextPage, set.nextPageUrl)
           sent == C!CompactSearchPage(page, options, scanned)
           answer == ExecuteExtract(doc, FALSE, Null, options, scanned)
           said == read.waited \cup KijijiWarnings(doc, read.page)
           reduced == ApplySearchCompaction(page, said, options, scanned)
<1>1. answer = KijijiAnswer(doc, read, options, scanned)
  <2>1. ReadOnceMore(doc, set, FALSE) = read
    BY DEF ReadOnceMore
  <2> HIDE DEF set, read
  <2>2. ReadKijiji(doc, FALSE, Null, options, scanned) = KijijiAnswer(doc, read, options, scanned)
    BY <2>1 DEF ReadKijiji, set
  <2> QED
    BY <2>2 DEF ExecuteExtract
<1>2. read.page = set
  OBVIOUS
<1> HIDE DEF set, read
<1>3. answer = [reduced EXCEPT !.record = @ ++ [removedAdId |-> set.removedAdId]]
  BY <1>1, <1>2 DEF KijijiAnswer
<1>4. set.warnings \subseteq said
  BY <1>2 DEF KijijiWarnings
<1> HIDE DEF answer, said, page
<1>5. reduced = [record |-> sent, warnings |-> said \cup sent.warnings]
  BY DEF ApplySearchCompaction, Answer
<1> HIDE DEF sent, reduced
<1>6. answer.record = sent ++ [removedAdId |-> set.removedAdId] /\ answer.warnings = said \cup sent.warnings
  BY <1>3, <1>5
<1> QED
  BY <1>4, <1>6 DEF answer, sent, page, set

\* A page of Kijiji is answered so.
LEMMA KijijiExtractKeeps ==
  ASSUME NullIsBare, MatchInv, walk.site = "kijiji", NEW scanned \in {Null, 1},
         FollowAnswer(ExecuteExtract(KijijiPage, FALSE, Null, Options, scanned)), walk' = walk
  PROVE  MatchInv'
<1> DEFINE doc == KijijiPage
           rows == RowsOn(PageNumber)
           set == ExtractSearchResults(doc)
           page == RowsPage("kijiji", "search", set.results, FALSE, set.hasNextPage, set.nextPageUrl)
           answer == ExecuteExtract(doc, FALSE, Null, Options, scanned)
           sent == C!CompactSearchPage(page, Options, scanned)
<1>1. walk \in Walks /\ UrlInv /\ PageNumber \in Nat \ {0} /\ Options # Null /\ Options.fields = Null
  <2>1. walk \in Walks /\ UrlInv
    BY DEF MatchInv
  <2>2. PageNumber \in Nat \ {0}
    BY <2>1 DEF UrlInv, PageNumber, Else
  <2>3. Options # Null /\ Options.fields = Null
    BY DEF Options, NullIsBare
  <2> QED
    BY <2>1, <2>2, <2>3
<1>2. doc.site = "kijiji" /\ doc.kind = "search" /\ doc.challenge = FALSE
  BY DEF KijijiPage
<1>3. /\ \E removed : answer.record = sent ++ [removedAdId |-> removed]
      /\ set.warnings \cup sent.warnings \subseteq answer.warnings
  <2> HIDE DEF doc
  <2> QED
    BY <1>1, <1>2, KijijiAnswers
<1>4. /\ set.results = SearchResults(doc)
      /\ IF set.hasNextPage = TRUE /\ set.nextPageUrl # Null THEN set.nextPageUrl = NextKijijiPageUrl(url)
         ELSE "PAGINATION_METADATA_ABSENT" \in set.warnings \/ Total <= PageNumber * walk.size
  BY <1>1, KijijiFollows
<1>5. /\ page.site = "kijiji" /\ page.candidates = SearchResults(doc)
      /\ page.hasNextPage = set.hasNextPage /\ page.nextPageUrl = set.nextPageUrl
  BY <1>4 DEF RowsPage
<1> DEFINE found == SearchResults(doc)
<1>6. /\ found \in Seq(Range(found)) /\ DOMAIN found = 1 .. Len(rows) /\ Len(found) = Len(rows)
      /\ \A i \in 1 .. Len(rows) : /\ Tells(found[i], rows[i]) /\ IdOf(found[i]) = rows[i].id
                                   /\ "adId" \in DOMAIN found[i] /\ found[i]["adId"] = rows[i].id
                                   /\ found[i]["adId"] # Null
  BY <1>1, KijijiPageRows
<1> HIDE DEF page, set, found
<1>7. Leads(page, answer.warnings)
  <2>1. CASE page.hasNextPage = TRUE /\ page.nextPageUrl # Null
    <3>1. page.nextPageUrl = NextKijijiPageUrl(url)
      BY <1>4, <1>5, <2>1
    <3>2. LeadsOn(NextKijijiPageUrl(url))
      BY <1>1, NextOfKijiji DEF LeadsOn
    <3> QED
      BY <2>1, <3>1, <3>2 DEF Leads
  <2>2. CASE ~(page.hasNextPage = TRUE /\ page.nextPageUrl # Null)
    <3>1. "PAGINATION_METADATA_ABSENT" \in answer.warnings \/ Total <= PageNumber * walk.size
      BY <1>3, <1>4, <1>5, <2>2
    <3> QED
      BY <2>2, <3>1 DEF Leads, Shortfalls
  <2> QED
    BY <2>1, <2>2
<1>8. Shows(page, rows)
  <2>1. PageRows = found
    BY DEF PageRows, found
  <2> DEFINE before == (PageNumber - 1) * walk.size
             upTo == Min({Total, PageNumber * walk.size})
  <2>2. /\ rows \in Seq(Range(walk.listings)) /\ before \in Nat
        /\ upTo \in {Total, PageNumber * walk.size} /\ Total \in Nat /\ PageNumber * walk.size = before + walk.size
        /\ Range(rows) = {walk.listings[k] : k \in before + 1 .. upTo}
    BY <1>1, RowsOnPage
  <2>3. walk.listings \in Seq(Range(walk.listings)) /\ walk.size \in Nat
    BY <1>1, WalksAssumption
  <2>4. DOMAIN walk.listings = 1 .. Total
    BY <2>3 DEF Total
  <2> HIDE DEF before, upTo, rows
  <2>5. DOMAIN rows = 1 .. Len(rows) /\ \A i \in DOMAIN rows : rows[i] \in Range(walk.listings)
    BY <2>2
  <2>6. ASSUME NEW k \in DOMAIN walk.listings, before < k, k <= PageNumber * walk.size
        PROVE  \E i \in DOMAIN rows : rows[i] = walk.listings[k]
    <3>1. k \in before + 1 .. upTo
      BY <2>2, <2>3, <2>4, <2>6
    <3>2. walk.listings[k] \in Range(rows)
      BY <2>2, <3>1
    <3> QED
      BY <3>2 DEF Range
  <2>7. ASSUME NEW i \in DOMAIN rows
        PROVE  IdOf(C!ProjectCandidate(found[i], Options, C!DefaultFields(page))) = rows[i].id
    BY <1>1, <1>5, <1>6, <2>5, KijijiNameIsSent
  <2>8. page.candidates = PageRows
    BY <1>5, <2>1 DEF found
  <2> QED
    BY <1>6, <2>1, <2>5, <2>6, <2>7, <2>8 DEF Shows, before
<1>9. TakesOver(answer.record, answer.warnings, page, scanned)
  <2>1. /\ sent.hasNextPage = page.hasNextPage /\ sent.nextPageUrl = page.nextPageUrl
        /\ {"candidates", "hasMore", "nextOffset", "hasNextPage", "nextPageUrl", "warnings"} \subseteq DOMAIN sent
    <3> DEFINE o == Options
    <3>1. page.candidates \in Seq(Range(found)) /\ MaxScanned \in Nat
      BY <1>5, <1>6, WalksAssumption DEF found
    <3>2. o.offset \in Nat /\ o.limit \in Nat /\ o.fields = Null
      BY <1>1, WalksAssumption DEF Options, MatchInv
    <3> HIDE DEF o
    <3>3. LET s == C!CompactSearchPage(page, o, scanned) IN
          /\ s.hasNextPage = page.hasNextPage /\ s.nextPageUrl = page.nextPageUrl
          /\ {"candidates", "hasMore", "nextOffset", "hasNextPage", "nextPageUrl", "warnings"} \subseteq DOMAIN s
      BY <3>1, <3>2, RowsSent
    <3> QED
      BY <3>3 DEF o
  <2>2. PICK removed : answer.record = sent ++ [removedAdId |-> removed]
    BY <1>3
  <2> HIDE DEF sent, answer
  <2>3. \A f \in {"candidates", "hasMore", "nextOffset", "hasNextPage", "nextPageUrl", "warnings"} :
          answer.record[f] = sent[f]
    BY <2>1, <2>2 DEF ++
  <2> QED
    BY <1>3, <2>1, <2>3 DEF TakesOver, sent
<1>10. Follow(answer.record, answer.warnings)
  BY DEF FollowAnswer
<1> HIDE DEF answer, rows
<1> QED
  BY <1>7, <1>8, <1>9, <1>10, FollowKeeps

-----------------------------------------------------------------------------
(* A card of eBay.                                                           *)

\* Texts are run together on eBay as anywhere.
LEMMA EbayJoinAllIs ==
  ASSUME NEW texts, NEW silent PROVE E!JoinAll(texts, silent) = TextsFcn(texts, silent)[DOMAIN texts]
BY DEF E!JoinAll, E!FoldLeft, E!MapThenFoldSet, E!Join, E!Else, E!Max, TextsFcn, JoiningTexts, Join, Else, Max

\* Five entries and one more.
LEMMA FiveAndOne ==
  ASSUME NEW a, NEW b, NEW c, NEW d, NEW e, NEW f
  PROVE  <<a, b, c, d, e>> \o <<f>> = <<a, b, c, d, e, f>>
<1> DEFINE S == {a, b, c, d, e, f}
           s == <<a, b, c, d, e>>
           t == <<a, b, c, d, e, f>>
           u == <<f>>
<1>1. /\ s \in Seq(S) /\ Len(s) = 5 /\ s[1] = a /\ s[2] = b /\ s[3] = c /\ s[4] = d /\ s[5] = e
      /\ u \in Seq(S) /\ Len(u) = 1 /\ u[1] = f
      /\ t \in Seq(S) /\ Len(t) = 6 /\ t[1] = a /\ t[2] = b /\ t[3] = c /\ t[4] = d /\ t[5] = e /\ t[6] = f
  OBVIOUS
<1> HIDE DEF s, t, u, S
<1>2. /\ s \o u \in Seq(S) /\ Len(s \o u) = 6
      /\ \A i \in 1 .. 6 : (s \o u)[i] = IF i <= 5 THEN s[i] ELSE u[i - 5]
  <2>1. /\ s \o u \in Seq(S) /\ Len(s \o u) = Len(s) + Len(u)
        /\ \A i \in 1 .. Len(s) + Len(u) : (s \o u)[i] = IF i <= Len(s) THEN s[i] ELSE u[i - Len(s)]
    <3>1. s \in Seq(S) /\ u \in Seq(S)
      BY <1>1
    <3> QED
      BY <3>1, ConcatProperties
  <2>2. Len(s) = 5 /\ Len(s) + Len(u) = 6
    BY <1>1
  <2> QED
    BY <2>1, <2>2
<1> DEFINE su == s \o u
<1> HIDE DEF su
<1>3. \A i \in 1 .. 6 : su[i] = t[i]
  <2>1. /\ su[1] = t[1] /\ su[2] = t[2] /\ su[3] = t[3] /\ su[4] = t[4] /\ su[5] = t[5] /\ su[6] = t[6]
    BY <1>1, <1>2 DEF su
  <2>2. 1 .. 6 = {1, 2, 3, 4, 5, 6}
    OBVIOUS
  <2> QED
    BY <2>1, <2>2
<1>4. su = t
  BY <1>1, <1>2, <1>3, SMTT(30) DEF su
<1> QED
  BY <1>4 DEF s, t, u, su

\* A card says of an amount what its price element or the rest of its text says, and nothing of an auction.
LEMMA EbayCardSays ==
  ASSUME NullIsBare, NEW l
  PROVE  LET card == EbayCard(l)
             cell == [quotes |-> <<[mark |-> "CAD", value |-> l.amount]>>, approx |-> Null, free |-> "no", to |-> FALSE]
         IN  /\ E!Rest(card)["money"] \in {Null, cell} /\ (l.contact => E!Rest(card)["money"] = Null)
             /\ \A p \in {"bids", "auction", "bin"} : E!Rest(card)[p] = Null
             /\ E!In(card.price, "money") \in {Null, cell} /\ (l.contact => E!In(card.price, "money") = Null)
<1> DEFINE card == EbayCard(l)
           cell == [quotes |-> <<[mark |-> "CAD", value |-> l.amount]>>, approx |-> Null, free |-> "no", to |-> FALSE]
           P == E!CardPatterns
           silent == E!NoWords
           amount == [silent EXCEPT !["money"] = cell]
           named == [silent EXCEPT !["place"] = [name |-> "ON", kept |-> 2, uncut |-> TRUE, digit |-> FALSE, letters |-> 2]]
           sold == [silent EXCEPT !["seller"] = "s1"]
           texts == <<card.price, Null, Null, named, sold, card.rest>>
<1>1. /\ card.price = IF l.shown = "element" /\ ~l.contact THEN amount ELSE Null
      /\ card.rest = IF l.shown = "text" /\ ~l.contact THEN amount ELSE silent
      /\ card.bid = Null /\ card.ship = Null /\ card.place = named /\ card.seller = sold
      /\ card.format = <<>> /\ card.sold = <<>>
  BY DEF EbayCard
<1>2. DOMAIN silent = P /\ \A p \in P : silent[p] = Null
  BY DEF E!NoWords, E!Silent
<1>3. {"money", "bids", "auction", "bin", "place", "seller"} \subseteq P
  BY DEF E!CardPatterns
<1> HIDE DEF card, silent, P, cell
<1>4. /\ DOMAIN amount = P /\ DOMAIN named = P /\ DOMAIN sold = P
      /\ amount["money"] = cell /\ \A p \in P : p # "money" => amount[p] = Null
      /\ named["money"] = Null /\ sold["money"] = Null
      /\ \A p \in {"bids", "auction", "bin"} : amount[p] = Null /\ named[p] = Null /\ sold[p] = Null
  BY <1>2, <1>3
<1>5. amount # Null /\ silent # Null /\ named # Null /\ sold # Null
  BY <1>2, <1>3, <1>4 DEF NullIsBare
<1> HIDE DEF amount, named, sold
<1>6. E!Rest(card) = Joined(texts, silent, 6)
  <2>1. <<card.price, card.bid, card.ship, card.place, card.seller>> \o card.format \o card.sold \o <<card.rest>> = texts
    <3> DEFINE all == {card.price, Null, named, sold, card.rest}
               first == <<card.price, Null, Null, named, sold>>
    <3>1. first \in Seq(all)
      OBVIOUS
    <3>2. first \o <<>> = first
      <4> HIDE DEF first, all
      <4> QED
        BY <3>1, ConcatEmptySeq
    <3>3. first \o <<card.rest>> = texts
      BY FiveAndOne
    <3> HIDE DEF first, texts
    <3> QED
      BY <1>1, <3>2, <3>3 DEF first
  <2>2. DOMAIN texts = 1 .. 6
    OBVIOUS
  <2> HIDE DEF texts
  <2> QED
    BY <2>1, <2>2, EbayJoinAllIs DEF E!Rest, silent, Joined
<1> DEFINE joined(n) == Joined(texts, silent, n)
<1>7. /\ joined(0) = silent
      /\ \A n \in 1 .. 6 : /\ DOMAIN joined(n - 1) = P => DOMAIN joined(n) = P
                           /\ \A p \in P : DOMAIN joined(n - 1) = P =>
                                joined(n)[p] = Else(joined(n - 1)[p], In(texts[n], p))
  <2>1. DOMAIN texts = 1 .. 6 /\ \A n \in 1 .. 6 : texts[n] # Null => DOMAIN texts[n] = P
    <3>1. DOMAIN texts = 1 .. 6 /\ 1 .. 6 = {1, 2, 3, 4, 5, 6}
      OBVIOUS
    <3>2. /\ texts[1] = card.price /\ texts[2] = Null /\ texts[3] = Null /\ texts[4] = named
          /\ texts[5] = sold /\ texts[6] = card.rest
      OBVIOUS
    <3> HIDE DEF texts
    <3>3. (card.price # Null => DOMAIN card.price = P) /\ DOMAIN card.rest = P
      BY <1>1, <1>2, <1>4
    <3> QED
      BY <1>4, <3>1, <3>2, <3>3
  <2> HIDE DEF texts
  <2>2. PICK last \in Nat : last = 6
    OBVIOUS
  <2>3. DOMAIN texts = 1 .. last /\ \A n \in 1 .. last : texts[n] # Null => DOMAIN texts[n] = P
    BY <2>1, <2>2
  <2>4. /\ joined(0) = silent
        /\ \A n \in 1 .. last :
             DOMAIN joined(n - 1) = P =>
               /\ DOMAIN joined(n) = P
               /\ \A p \in P : joined(n)[p] = Else(joined(n - 1)[p], In(texts[n], p))
    <3>1. AreTexts(P, last, texts, silent)
      BY <1>2, <2>3 DEF AreTexts
    <3> QED
      BY <3>1, JoinSteps
  <2> HIDE DEF joined
  <2> QED
    BY <2>2, <2>4
<1>8. /\ texts[1] = card.price /\ texts[2] = Null /\ texts[3] = Null /\ texts[4] = named
      /\ texts[5] = sold /\ texts[6] = card.rest
  OBVIOUS
<1> HIDE DEF joined, texts
<1>9. /\ DOMAIN joined(0) = P /\ DOMAIN joined(1) = P /\ DOMAIN joined(2) = P /\ DOMAIN joined(3) = P
      /\ DOMAIN joined(4) = P /\ DOMAIN joined(5) = P
  BY <1>2, <1>7
<1>10. ASSUME NEW p \in P
       PROVE  /\ joined(1)[p] = Else(Null, In(card.price, p))
              /\ joined(2)[p] = joined(1)[p] /\ joined(3)[p] = joined(2)[p]
              /\ joined(4)[p] = Else(joined(3)[p], named[p]) /\ joined(5)[p] = Else(joined(4)[p], sold[p])
              /\ joined(6)[p] = Else(joined(5)[p], card.rest[p])
  <2>1. \A n \in 1 .. 6 : joined(n)[p] = Else(joined(n - 1)[p], In(texts[n], p))
    <3> SUFFICES ASSUME NEW n \in 1 .. 6 PROVE joined(n)[p] = Else(joined(n - 1)[p], In(texts[n], p))
      OBVIOUS
    <3>1. DOMAIN joined(n - 1) = P
      BY <1>9
    <3> QED
      BY <1>7, <3>1
  <2>2. /\ joined(1)[p] = Else(joined(0)[p], In(texts[1], p)) /\ joined(2)[p] = Else(joined(1)[p], In(texts[2], p))
        /\ joined(3)[p] = Else(joined(2)[p], In(texts[3], p)) /\ joined(4)[p] = Else(joined(3)[p], In(texts[4], p))
        /\ joined(5)[p] = Else(joined(4)[p], In(texts[5], p)) /\ joined(6)[p] = Else(joined(5)[p], In(texts[6], p))
    BY <2>1
  <2>3. joined(0)[p] = Null
    BY <1>2, <1>7
  <2>4. \A a : Else(a, Null) = a
    BY DEF Else
  <2>5. In(Null, p) = Null /\ In(named, p) = named[p] /\ In(sold, p) = sold[p] /\ In(card.rest, p) = card.rest[p]
    BY <1>1, <1>5 DEF In
  <2> QED
    BY <1>8, <2>2, <2>3, <2>4, <2>5
<1>11. \A p \in {"bids", "auction", "bin"} : joined(6)[p] = Null
  <2> SUFFICES ASSUME NEW p \in {"bids", "auction", "bin"} PROVE joined(6)[p] = Null
    OBVIOUS
  <2>1. p \in P /\ named[p] = Null /\ sold[p] = Null /\ In(card.price, p) = Null /\ card.rest[p] = Null
    BY <1>1, <1>2, <1>3, <1>4 DEF In
  <2> QED
    BY <1>10, <2>1 DEF Else
<1>12. In(card.price, "money") \in {Null, cell} /\ (l.contact => In(card.price, "money") = Null)
  BY <1>1, <1>4 DEF In
<1>13. card.rest["money"] \in {Null, cell} /\ (l.contact => card.rest["money"] = Null)
  BY <1>1, <1>2, <1>3, <1>4
<1>14. joined(6)["money"] \in {Null, cell} /\ (l.contact => joined(6)["money"] = Null)
  <2>1. "money" \in P /\ named["money"] = Null /\ sold["money"] = Null
    BY <1>3, <1>4
  <2> QED
    BY <1>10, <1>12, <1>13, <2>1 DEF Else
<1>15. E!In(card.price, "money") = In(card.price, "money")
  BY DEF E!In, In
<1> QED
  BY <1>6, <1>11, <1>12, <1>14, <1>15 DEF joined, card, cell

\* Reading an amount a card renders gives that amount, or nothing.
LEMMA EbayAmountRead ==
  ASSUME NullIsBare, NEW l, NEW currency,
         NEW said \in {Null, [quotes |-> <<[mark |-> "CAD", value |-> l.amount]>>, approx |-> Null, free |-> "no", to |-> FALSE]}
  PROVE  LET parsed == E!ParseMoney(said, currency) IN
         /\ said = Null => parsed = Null
         /\ said # Null => parsed # Null /\ parsed.value = l.amount
<1> DEFINE quote == [mark |-> "CAD", value |-> l.amount]
           quotes == <<quote>>
           cell == [quotes |-> quotes, approx |-> Null, free |-> "no", to |-> FALSE]
           parsed == E!ParseMoney(said, currency)
<1>1. CASE said = Null
  BY <1>1 DEF E!ParseMoney
<1>2. CASE said # Null
  <2>1. said = cell
    BY <1>2
  <2>2. quotes \o <<>> = quotes
    <3> DEFINE S == {quote}
    <3>1. quotes \in Seq(S)
      OBVIOUS
    <3> HIDE DEF quotes, S
    <3> QED
      BY <3>1, ConcatEmptySeq
  <2>3. quotes # <<>> /\ Head(quotes) = quote
    OBVIOUS
  <2>4. cell.quotes = quotes /\ cell.approx = Null /\ cell.free = "no" /\ cell.to = FALSE /\ cell # Null
    <3>1. cell.quotes = quotes /\ cell.approx = Null /\ cell.free = "no" /\ cell.to = FALSE /\ DOMAIN cell # {}
      OBVIOUS
    <3> HIDE DEF cell
    <3> QED
      BY <3>1 DEF NullIsBare
  <2>5. quote.value = l.amount
    OBVIOUS
  <2> HIDE DEF cell, quotes, quote
  <2>6. \E c, a, n : parsed = [value |-> Head(quotes).value, currency |-> c, approximate |-> a, ambiguousFree |-> FALSE,
                               conversion |-> n]
    BY <2>1, <2>2, <2>3, <2>4 DEF E!ParseMoney
  <2>7. PICK c, a, n : parsed = [value |-> Head(quotes).value, currency |-> c, approximate |-> a, ambiguousFree |-> FALSE,
                                 conversion |-> n]
    BY <2>6
  <2>8. DOMAIN parsed # {} /\ parsed.value = l.amount
    BY <2>3, <2>5, <2>7
  <2> QED
    BY <1>2, <2>8 DEF NullIsBare
<1> QED
  BY <1>1, <1>2

\* What the card of a listing is read as.
LEMMA EbayCardRead ==
  ASSUME NullIsBare, NEW l, l.title # Null, l.contact \in BOOLEAN, NEW currency
  PROVE  LET card == EbayCard(l)
             price == E!CardPrice(card, currency)
             format == E!DetectCardFormat(card, price.snippetPrice # Null, TRUE)
         IN  /\ E!CleanTitle(E!RawTitle(card)) = l.title
             /\ DOMAIN price = {"snippetPrice", "snippetPriceSource"}
             /\ price.snippetPrice = Null \/ (~l.contact /\ price.snippetPrice # Null /\ price.snippetPrice.value = l.amount)
             /\ DOMAIN format = {"sellingFormat", "bidCount"}
             /\ format.sellingFormat \in {"fixed_price", "unknown"}
<1> DEFINE card == EbayCard(l)
           cell == [quotes |-> <<[mark |-> "CAD", value |-> l.amount]>>, approx |-> Null, free |-> "no", to |-> FALSE]
           title == [name |-> l.title, badge |-> Null, seam |-> FALSE, says |-> E!NoWords]
           price == E!CardPrice(card, currency)
           format == E!DetectCardFormat(card, price.snippetPrice # Null, TRUE)
           spoken == E!Rest(card)
           element == E!In(card.price, "money")
<1>1. /\ spoken["money"] \in {Null, cell} /\ (l.contact => spoken["money"] = Null)
      /\ \A p \in {"bids", "auction", "bin"} : spoken[p] = Null
      /\ element \in {Null, cell} /\ (l.contact => element = Null)
  BY EbayCardSays
<1>2. card.title = title /\ card.wraps = FALSE /\ card.format = <<>> /\ card.bid = Null
  BY DEF EbayCard
<1>3. title.name = l.title /\ title.seam = FALSE /\ title # Null
  <2>1. title.name = l.title /\ title.seam = FALSE /\ DOMAIN title # {}
    OBVIOUS
  <2> HIDE DEF title
  <2> QED
    BY <2>1 DEF NullIsBare
<1> HIDE DEF card, title, cell, spoken, element
<1>4. E!RawTitle(card) = title
  BY <1>2, <1>3 DEF E!RawTitle, E!Else
<1>5. E!CleanTitle(E!RawTitle(card)) = l.title
  BY <1>3, <1>4 DEF E!CleanTitle
<1>6. E!TextWithoutTitle(card) = spoken /\ E!CardFormatText(card) = spoken
  BY <1>2, <1>3, <1>4 DEF E!TextWithoutTitle, E!CardFormatText, E!WithoutTitle, spoken
<1> DEFINE byElement == E!ParseMoney(element, currency)
           byText == E!ParseMoney(spoken["money"], currency)
<1>7. price = E!PriceFrom(byElement, byText)
  BY <1>6 DEF E!CardPrice, E!PriceFromCardText, element
<1>8. /\ byElement = Null \/ (~l.contact /\ byElement.value = l.amount)
      /\ byText = Null \/ (~l.contact /\ byText.value = l.amount)
  BY <1>1, EbayAmountRead DEF cell
<1> HIDE DEF byElement, byText
<1>9. /\ DOMAIN price = {"snippetPrice", "snippetPriceSource"}
      /\ price.snippetPrice = E!Amount(E!Else(byElement, byText))
  BY <1>7 DEF E!PriceFrom
<1>10. E!Amount(E!Else(byElement, byText)) = Null
       \/ (~l.contact /\ \E c : E!Amount(E!Else(byElement, byText)) = [value |-> l.amount, currency |-> c])
  BY <1>8 DEF E!Amount, E!Else
<1>11. \A c : [value |-> l.amount, currency |-> c] # Null
  <2> TAKE c
  <2> DEFINE r == [value |-> l.amount, currency |-> c]
  <2>1. DOMAIN r # {}
    OBVIOUS
  <2> HIDE DEF r
  <2>2. r # Null
    BY <2>1 DEF NullIsBare
  <2> QED
    BY <2>2 DEF r
<1>12. price.snippetPrice = Null \/ (~l.contact /\ price.snippetPrice # Null /\ price.snippetPrice.value = l.amount)
  BY <1>9, <1>10, <1>11
<1> HIDE DEF price
<1>13. DOMAIN format = {"sellingFormat", "bidCount"} /\ format.sellingFormat \in {"fixed_price", "unknown"}
  <2>1. E!Else(E!In(card.bid, "bids"), E!CardFormatText(card)["bids"]) = Null
    BY <1>1, <1>2, <1>6 DEF E!Else, E!In
  <2>2. spoken["auction"] = Null /\ spoken["bin"] = Null
    BY <1>1
  <2> DEFINE fixed == TRUE /\ price.snippetPrice # Null /\ E!Quiet(E!Whole(card))
  <2>3. format = E!FormatOf(Null, spoken, fixed)
    BY <1>6, <2>1 DEF E!DetectCardFormat
  <2> HIDE DEF fixed, format
  <2>4. format = [sellingFormat |-> IF fixed THEN "fixed_price" ELSE "unknown", bidCount |-> Null]
    BY <2>2, <2>3 DEF E!FormatOf
  <2> QED
    BY <2>4
<1> QED
  BY <1>5, <1>9, <1>12, <1>13 DEF card, price

\* A row of a results page tells of the listing its link is to.
LEMMA EbayRow ==
  ASSUME NullIsBare, NEW l, l.id # Null, l.title # Null, l.contact \in BOOLEAN, NEW doc, NEW i, NEW order,
         doc.links[i] = [id |-> l.id, groups |-> {1}, known |-> TRUE, rings |-> <<[ids |-> 1, card |-> EbayCard(l)]>>]
  PROVE  LET row == E!CandidateOf(doc, i, order) IN
         Tells(row, l) /\ "itemId" \in DOMAIN row /\ row["itemId"] = l.id /\ IdOf(row) = l.id
<1> DEFINE link == doc.links[i]
           card == EbayCard(l)
           currency == E!MarketplaceCurrencyFor(doc.url.host)
           first == [itemId |-> l.id, order |-> order,
                     matchScope |-> IF i \in E!AnchorsBelowRewriteDivider(doc) THEN "rewrite" ELSE "primary"]
           heading == [title |-> E!CleanTitle(E!RawTitle(card)), isNewListing |-> E!IsNewListingCard(card)]
           price == E!CardPrice(card, currency)
           shipping == E!ShippingFrom(E!ReadShippingSnippet(E!ShippingText(card), currency))
           place == E!LocationFrom(E!ReadCardLocationWithSource(card))
           seller == E!SellerAt(E!ReadCardSellerWithSource(card))
           format == E!DetectCardFormat(card, price.snippetPrice # Null, TRUE)
           caption == E!ReadSoldCaption(card)
           row == E!CandidateOf(doc, i, order)
<1>1. link.id = l.id /\ E!CardRootFor(link) = card
  <2> DEFINE ring == [ids |-> 1, card |-> card]
             rings == <<ring>>
  <2>1. link.id = l.id /\ link.known = TRUE /\ link.rings = rings
    OBVIOUS
  <2>2. E!Last(rings) = ring /\ ring.card = card
    BY DEF E!Last
  <2> HIDE DEF link, rings, ring
  <2> QED
    BY <2>1, <2>2 DEF E!CardRootFor
<1>2. row = E!++(first, E!CardCandidate(card, currency))
  BY <1>1 DEF E!CandidateOf
<1>3. E!CardCandidate(card, currency)
        = E!++(E!++(E!++(E!++(E!++(E!++(heading, price), shipping), place), seller), format), caption)
  BY DEF E!CardCandidate
<1>4. /\ heading.title = l.title /\ DOMAIN price = {"snippetPrice", "snippetPriceSource"}
      /\ price.snippetPrice = Null \/ (~l.contact /\ price.snippetPrice # Null /\ price.snippetPrice.value = l.amount)
      /\ DOMAIN format = {"sellingFormat", "bidCount"} /\ format.sellingFormat \in {"fixed_price", "unknown"}
  BY EbayCardRead
<1>5. /\ DOMAIN first = {"itemId", "order", "matchScope"} /\ first.itemId = l.id
      /\ DOMAIN heading = {"title", "isNewListing"}
  OBVIOUS
<1>6. DOMAIN shipping = {"shippingSnippetAmount", "shippingSnippetServiceNamed"}
  BY DEF E!ShippingFrom
<1>7. DOMAIN place = {"itemLocationText", "itemLocationSource", "itemLocationRejectedText"}
  BY DEF E!LocationFrom
<1>8. DOMAIN seller = {"seller", "sellerSource"}
  BY DEF E!SellerAt
<1>9. DOMAIN caption = {"soldText", "soldAt"}
  BY DEF E!ReadSoldCaption
<1> HIDE DEF first, heading, price, shipping, place, seller, format, caption, row, link, card, currency
<1> DEFINE names == {"itemId", "order", "matchScope", "title", "isNewListing", "snippetPrice", "snippetPriceSource",
                     "shippingSnippetAmount", "shippingSnippetServiceNamed", "itemLocationText", "itemLocationSource",
                     "itemLocationRejectedText", "seller", "sellerSource", "sellingFormat", "bidCount", "soldText", "soldAt"}
<1> DEFINE r1 == E!++(heading, price)
           r2 == E!++(r1, shipping)
           r3 == E!++(r2, place)
           r4 == E!++(r3, seller)
           r5 == E!++(r4, format)
           r6 == E!++(r5, caption)
<1>11. /\ DOMAIN r1 = {"title", "isNewListing", "snippetPrice", "snippetPriceSource"}
       /\ r1["title"] = l.title /\ r1["snippetPrice"] = price.snippetPrice
  <2>1. /\ DOMAIN r1 = DOMAIN heading \cup DOMAIN price /\ \A k \in DOMAIN heading : r1[k] = heading[k]
        /\ \A k \in DOMAIN price \ DOMAIN heading : r1[k] = price[k]
    BY DEF E!++
  <2> HIDE DEF r1
  <2> QED
    BY <1>4, <1>5, <2>1
<1> HIDE DEF r1
<1>12. /\ DOMAIN r2 = {"title", "isNewListing", "snippetPrice", "snippetPriceSource",
                       "shippingSnippetAmount", "shippingSnippetServiceNamed"}
       /\ r2["title"] = l.title /\ r2["snippetPrice"] = price.snippetPrice
  <2>1. /\ DOMAIN r2 = DOMAIN r1 \cup DOMAIN shipping /\ \A k \in DOMAIN r1 : r2[k] = r1[k]
        /\ \A k \in DOMAIN shipping \ DOMAIN r1 : r2[k] = shipping[k]
    BY DEF E!++
  <2> HIDE DEF r2
  <2> QED
    BY <1>6, <1>11, <2>1
<1> HIDE DEF r2
<1>13. /\ DOMAIN r3 = {"title", "isNewListing", "snippetPrice", "snippetPriceSource",
                       "shippingSnippetAmount", "shippingSnippetServiceNamed",
                       "itemLocationText", "itemLocationSource", "itemLocationRejectedText"}
       /\ r3["title"] = l.title /\ r3["snippetPrice"] = price.snippetPrice
  <2>1. /\ DOMAIN r3 = DOMAIN r2 \cup DOMAIN place /\ \A k \in DOMAIN r2 : r3[k] = r2[k]
        /\ \A k \in DOMAIN place \ DOMAIN r2 : r3[k] = place[k]
    BY DEF E!++
  <2> HIDE DEF r3
  <2> QED
    BY <1>7, <1>12, <2>1
<1> HIDE DEF r3
<1>14. /\ DOMAIN r4 = {"title", "isNewListing", "snippetPrice", "snippetPriceSource",
                       "shippingSnippetAmount", "shippingSnippetServiceNamed",
                       "itemLocationText", "itemLocationSource", "itemLocationRejectedText", "seller", "sellerSource"}
       /\ r4["title"] = l.title /\ r4["snippetPrice"] = price.snippetPrice
  <2>1. /\ DOMAIN r4 = DOMAIN r3 \cup DOMAIN seller /\ \A k \in DOMAIN r3 : r4[k] = r3[k]
        /\ \A k \in DOMAIN seller \ DOMAIN r3 : r4[k] = seller[k]
    BY DEF E!++
  <2> HIDE DEF r4
  <2> QED
    BY <1>8, <1>13, <2>1
<1> HIDE DEF r4
<1>15. /\ DOMAIN r5 = names \ {"itemId", "order", "matchScope", "soldText", "soldAt"}
       /\ r5["title"] = l.title /\ r5["snippetPrice"] = price.snippetPrice /\ r5["sellingFormat"] = format.sellingFormat
  <2>1. /\ DOMAIN r5 = DOMAIN r4 \cup DOMAIN format /\ \A k \in DOMAIN r4 : r5[k] = r4[k]
        /\ \A k \in DOMAIN format \ DOMAIN r4 : r5[k] = format[k]
    BY DEF E!++
  <2> HIDE DEF r5
  <2> QED
    BY <1>4, <1>14, <2>1
<1> HIDE DEF r5
<1>16. /\ DOMAIN r6 = names \ {"itemId", "order", "matchScope"}
       /\ r6["title"] = l.title /\ r6["snippetPrice"] = price.snippetPrice /\ r6["sellingFormat"] = format.sellingFormat
  <2>1. /\ DOMAIN r6 = DOMAIN r5 \cup DOMAIN caption /\ \A k \in DOMAIN r5 : r6[k] = r5[k]
        /\ \A k \in DOMAIN caption \ DOMAIN r5 : r6[k] = caption[k]
    BY DEF E!++
  <2> HIDE DEF r6
  <2> QED
    BY <1>9, <1>15, <2>1
<1> HIDE DEF r6
<1>17. row = E!++(first, r6)
  BY <1>2, <1>3 DEF r1, r2, r3, r4, r5, r6
<1>18. /\ DOMAIN row = names /\ row["itemId"] = l.id /\ row["title"] = l.title
       /\ row["snippetPrice"] = price.snippetPrice /\ row["sellingFormat"] = format.sellingFormat
  <2>1. /\ DOMAIN row = DOMAIN first \cup DOMAIN r6 /\ \A k \in DOMAIN first : row[k] = first[k]
        /\ \A k \in DOMAIN r6 \ DOMAIN first : row[k] = r6[k]
    BY <1>17 DEF E!++
  <2> HIDE DEF row
  <2> QED
    BY <1>5, <1>16, <2>1
<1>19. /\ C!ValueAt(row, "itemId") = l.id /\ C!ValueAt(row, "title") = l.title
       /\ C!ValueAt(row, "snippetPrice") = price.snippetPrice
       /\ C!ValueAt(row, "sellingFormat") \in {"fixed_price", "unknown"}
       /\ \A k \in {"adId", "price", "priceValue", "listingType"} : C!ValueAt(row, k) = Null
  BY <1>4, <1>18 DEF C!ValueAt
<1>20. C!ReadCandidateFormat(row) \in {Null, "fixed_price", "unknown"}
  BY <1>19 DEF C!ReadCandidateFormat, C!Else
<1>21. C!ReadCandidatePrice(row) = IF price.snippetPrice = Null THEN Null ELSE price.snippetPrice.value
  BY <1>18, <1>19 DEF C!ReadCandidatePrice, C!Else
<1>22. ~C!IsContactPriceRow(row)
  BY <1>19 DEF C!IsContactPriceRow
<1>23. IdOf(row) = l.id
  BY <1>19 DEF IdOf, Else
<1>24. Tells(row, l)
  BY <1>4, <1>19, <1>20, <1>21, <1>22 DEF Tells
<1> QED
  BY <1>18, <1>23, <1>24 DEF row

\* And entries are kept there as anywhere.
LEMMA KeptOfEbay ==
  ASSUME NEW seq, NEW at PROVE E!KeptAt(seq, at) = KeptAt(seq, at)
BY DEF E!KeptAt, KeptAt

\* The first of the selector groups, where it is one of those that match.
LEMMA LeastGroup ==
  ASSUME NEW groups \in SUBSET (1 .. 4), 1 \in groups PROVE E!Min(groups) = 1
<1>1. \A x \in groups : x \in Int /\ 1 <= x
  OBVIOUS
<1>2. \A m \in groups : (\A y \in groups : m <= y) => m = 1
  <2> SUFFICES ASSUME NEW m \in groups, \A y \in groups : m <= y PROVE m = 1
    OBVIOUS
  <2>1. m <= 1 /\ m \in 1 .. 4
    OBVIOUS
  <2> QED
    BY <2>1
<1> QED
  BY <1>1, <1>2 DEF E!Min

\* A page whose links are to distinct items has one row for each of them.
LEMMA EbayRowsOfPage ==
  ASSUME NEW T, NEW doc, doc.links \in Seq(T), doc.links # <<>>,
         \A i \in DOMAIN doc.links : doc.links[i].groups = {1} /\ doc.links[i].id # Null,
         \A i, j \in DOMAIN doc.links : doc.links[i].id = doc.links[j].id => i = j
  PROVE  E!ExtractListingCandidates(doc) = [n \in DOMAIN doc.links |-> E!CandidateOf(doc, n, n - 1)]
<1> DEFINE all == doc.links
           places == [i \in DOMAIN all |-> i]
           named == {n \in DOMAIN places : 1 \in all[places[n]].groups /\ all[places[n]].id # Null}
           hits == E!Kept([i \in DOMAIN doc.links |-> i], LAMBDA i : 1 \in doc.links[i].groups /\ doc.links[i].id # Null)
           first == {n \in DOMAIN hits : \A j \in E!Range(hits) : j < hits[n] => doc.links[j].id # doc.links[hits[n]].id}
           rows == E!RowsOf(doc, 1)
           groups == {g \in 1..4 : E!RowsOf(doc, g) # <<>>}
<1>1. DOMAIN all = 1 .. Len(all) /\ Len(all) \in Nat \ {0}
  OBVIOUS
<1>2. hits = KeptAt(places, named)
  BY KeptOfEbay DEF E!Kept
<1>3. rows = KeptAt(hits, first)
  BY KeptOfEbay DEF E!Kept, E!RowsOf
<1> HIDE DEF hits, rows
<1>4. places \in Seq(Nat) /\ DOMAIN places = DOMAIN all /\ \A k \in DOMAIN all : places[k] = k
  <2>1. places = [n \in 1 .. Len(all) |-> n]
    BY <1>1
  <2> HIDE DEF places, all
  <2>2. places \in Seq(Nat)
    BY <1>1, <2>1
  <2> QED
    BY <1>1, <2>1, <2>2
<1> HIDE DEF places
<1>5. hits = places
  <2>1. DOMAIN places \subseteq named
    BY <1>4
  <2> HIDE DEF named
  <2> QED
    BY <1>2, <1>4, <2>1, KeptWhole
<1>6. rows = places
  <2>1. E!Range(hits) = DOMAIN all
    BY <1>4, <1>5 DEF E!Range
  <2>2. ASSUME NEW n \in DOMAIN hits, NEW j \in E!Range(hits), j < hits[n] PROVE doc.links[j].id # doc.links[hits[n]].id
    <3>1. n \in DOMAIN all /\ j \in DOMAIN all /\ hits[n] = n
      BY <1>4, <1>5, <2>1
    <3>2. j # n
      BY <1>1, <2>2, <3>1
    <3> QED
      BY <3>1, <3>2
  <2>3. DOMAIN hits \subseteq first
    BY <2>2
  <2> HIDE DEF first
  <2> QED
    BY <1>3, <1>4, <1>5, <2>3, KeptWhole
<1>7. rows # <<>>
  <2>1. 1 \in DOMAIN places
    BY <1>1, <1>4
  <2>2. DOMAIN <<>> = {}
    OBVIOUS
  <2> QED
    BY <1>6, <2>1, <2>2
<1>8. E!Min(groups) = 1 /\ groups # {}
  <2>1. groups \in SUBSET (1 .. 4) /\ 1 \in groups
    BY <1>7 DEF rows
  <2> HIDE DEF groups
  <2> QED
    BY <2>1, LeastGroup
<1> DEFINE chosen == IF groups = {} THEN <<>> ELSE E!RowsOf(doc, E!Min(groups))
<1>9. E!ExtractListingCandidates(doc) = [n \in DOMAIN chosen |-> E!CandidateOf(doc, chosen[n], n - 1)]
  BY DEF E!ExtractListingCandidates
<1>10. chosen = places
  BY <1>6, <1>8 DEF rows
<1> HIDE DEF chosen, all
<1>11. DOMAIN chosen = DOMAIN all /\ \A n \in DOMAIN all : chosen[n] = n
  BY <1>4, <1>10
<1>12. E!ExtractListingCandidates(doc) = [n \in DOMAIN all |-> E!CandidateOf(doc, n, n - 1)]
  BY <1>9, <1>11
<1> QED
  BY <1>12 DEF all

\* A multiple grows with its factor.
LEMMA ProductsGrow ==
  ASSUME NEW a \in Int, NEW b \in Int, a <= b, NEW s \in Nat
  PROVE  a * s <= b * s
<1>1. b * s = a * s + (b - a) * s
  OBVIOUS
<1>2. (b - a) * s >= 0
  <2>1. b - a \in Nat
    OBVIOUS
  <2> HIDE DEF ProductsGrow
  <2> QED
    BY <2>1
<1> QED
  BY <1>1, <1>2

\* The last page holds the last listing, and the page before it does not.
LEMMA PagesOf ==
  ASSUME NEW t \in Nat \ {0}, NEW s \in Nat \ {0}
  PROVE  LET last == (t + s - 1) \div s IN
         /\ last \in Nat \ {0} /\ (last - 1) * s < t /\ t <= last * s
<1> DEFINE last == (t + s - 1) \div s
<1>1. last \in Int /\ last * s <= t + s - 1 /\ t + s - 1 < last * s + s
  OBVIOUS
<1> HIDE DEF last
<1>2. (last - 1) * s = last * s - s /\ last * s \in Int
  BY <1>1
<1>3. (last - 1) * s < t /\ t <= last * s
  BY <1>1, <1>2
<1>4. last >= 1
  <2> SUFFICES ASSUME last <= 0 PROVE FALSE
    BY <1>1
  <2>1. last * s <= 0 * s
    BY <1>1, ProductsGrow
  <2> QED
    BY <1>1, <1>3, <2>1
<1> QED
  BY <1>1, <1>3, <1>4 DEF last

\* The page that the site serves, which past the last one is the last one.
Served == Min({PageNumber, LastPage})

\* The page served is one that has listings.
LEMMA ServedPage ==
  ASSUME walk \in Walks, PageNumber \in Nat \ {0}
  PROVE  /\ LastPage \in Nat \ {0} /\ (LastPage - 1) * walk.size < Total /\ Total <= LastPage * walk.size
         /\ Total \in Nat \ {0} /\ walk.size \in Nat \ {0}
         /\ Served \in {PageNumber, LastPage} /\ Served <= PageNumber /\ Served <= LastPage /\ Served \in Nat \ {0}
         /\ (Served - 1) * walk.size < Total
<1>1. Total \in Nat \ {0} /\ walk.size \in Nat \ {0}
  <2>1. walk.listings # <<>> /\ walk.listings \in Seq(Range(walk.listings)) /\ walk.size \in Nat \ {0}
    BY WalksAssumption
  <2> QED
    BY <2>1 DEF Total
<1>2. LastPage \in Nat \ {0} /\ (LastPage - 1) * walk.size < Total /\ Total <= LastPage * walk.size
  BY <1>1, PagesOf DEF LastPage
<1>3. Served \in {PageNumber, LastPage} /\ Served <= PageNumber /\ Served <= LastPage
  BY <1>2, MinOfTwo DEF Served
<1>4. Served \in Nat \ {0} /\ Served - 1 <= LastPage - 1 /\ Served - 1 \in Int /\ LastPage - 1 \in Int
  BY <1>2, <1>3
<1>5. (Served - 1) * walk.size <= (LastPage - 1) * walk.size
  BY <1>1, <1>4, ProductsGrow
<1>6. (Served - 1) * walk.size \in Int /\ (LastPage - 1) * walk.size \in Int
  BY <1>1, <1>4
<1> QED
  BY <1>1, <1>2, <1>3, <1>4, <1>5, <1>6

\* The rows of a page of eBay tell of the listings the site has on it.
LEMMA EbayPageRows ==
  ASSUME NullIsBare, walk \in Walks, PageNumber \in Nat \ {0}
  PROVE  LET rows == RowsOn(Served)
             found == E!ExtractListingCandidates(EbayPage)
         IN  /\ found \in Seq(Range(found)) /\ DOMAIN found = 1 .. Len(rows) /\ Len(found) = Len(rows)
             /\ Len(rows) \in Nat \ {0}
             /\ \A i \in 1 .. Len(rows) : /\ Tells(found[i], rows[i]) /\ IdOf(found[i]) = rows[i].id
                                          /\ "itemId" \in DOMAIN found[i] /\ found[i]["itemId"] = rows[i].id
                                          /\ found[i]["itemId"] # Null
<1> DEFINE rows == RowsOn(Served)
           found == E!ExtractListingCandidates(EbayPage)
           page == EbayPage
           links == [i \in DOMAIN rows |-> [id |-> rows[i].id, groups |-> {1}, known |-> TRUE,
                                            rings |-> <<[ids |-> 1, card |-> EbayCard(rows[i])]>>]]
<1>1. page.links = links
  BY DEF EbayPage, Served
<1>2. /\ rows \in Seq(Range(walk.listings)) /\ DOMAIN rows = 1 .. Len(rows) /\ Len(rows) \in Nat \ {0}
      /\ \A i, j \in 1 .. Len(rows) : rows[i].id = rows[j].id => i = j
      /\ \A i \in 1 .. Len(rows) : rows[i] \in Range(walk.listings)
  <2> DEFINE before == (Served - 1) * walk.size
             through == Served * walk.size
             upTo == Min({Total, Served * walk.size})
  <2>1. /\ rows \in Seq(Range(walk.listings)) /\ \A i, j \in 1 .. Len(rows) : rows[i].id = rows[j].id => i = j
        /\ Len(rows) = IF before < upTo THEN upTo - before ELSE 0
        /\ before \in Nat /\ through = before + walk.size /\ upTo \in {Total, through}
    BY ServedPage, RowsOnPage
  <2>2. before < Total /\ walk.size \in Nat \ {0} /\ Total \in Nat
    BY ServedPage
  <2> HIDE DEF rows, before, through, upTo
  <2>3. before < upTo /\ upTo \in Nat
    BY <2>1, <2>2
  <2> QED
    BY <2>1, <2>3
<1>3. \A l \in Range(walk.listings) : l.id # Null /\ l.title # Null /\ l.amount \in Nat /\ l.contact \in BOOLEAN
  BY WalksAssumption
<1> HIDE DEF rows, page
<1>4. /\ links \in Seq(Range(links)) /\ DOMAIN links = 1 .. Len(rows)
      /\ \A i \in 1 .. Len(rows) :
           /\ links[i] = [id |-> rows[i].id, groups |-> {1}, known |-> TRUE,
                          rings |-> <<[ids |-> 1, card |-> EbayCard(rows[i])]>>]
           /\ links[i].id = rows[i].id /\ links[i].groups = {1}
  <2>1. /\ DOMAIN links = 1 .. Len(rows)
        /\ \A i \in 1 .. Len(rows) :
             /\ links[i] = [id |-> rows[i].id, groups |-> {1}, known |-> TRUE,
                            rings |-> <<[ids |-> 1, card |-> EbayCard(rows[i])]>>]
             /\ links[i].id = rows[i].id /\ links[i].groups = {1}
    BY <1>2
  <2>2. links = [i \in 1 .. Len(rows) |-> links[i]]
    BY <1>2
  <2> HIDE DEF links
  <2>3. \A i \in 1 .. Len(rows) : links[i] \in Range(links)
    BY <2>1 DEF Range
  <2>4. links \in Seq(Range(links))
    BY <1>2, <2>2, <2>3
  <2> QED
    BY <2>1, <2>4
<1> HIDE DEF links
<1>5. found = [n \in 1 .. Len(rows) |-> E!CandidateOf(page, n, n - 1)]
  <2>1. /\ page.links \in Seq(Range(links))
        /\ \A i \in DOMAIN page.links : page.links[i].groups = {1} /\ page.links[i].id # Null
    BY <1>1, <1>2, <1>3, <1>4
  <2>2. \A i, j \in DOMAIN page.links : page.links[i].id = page.links[j].id => i = j
    BY <1>1, <1>2, <1>4
  <2>3. page.links # <<>>
    <3>1. 1 \in DOMAIN page.links
      BY <1>1, <1>2, <1>4
    <3>2. DOMAIN <<>> = {}
      OBVIOUS
    <3> QED
      BY <3>1, <3>2
  <2>4. E!ExtractListingCandidates(page) = [n \in DOMAIN page.links |-> E!CandidateOf(page, n, n - 1)]
    BY <2>1, <2>2, <2>3, EbayRowsOfPage
  <2> QED
    BY <1>1, <1>4, <2>4 DEF page
<1>6. ASSUME NEW i \in 1 .. Len(rows)
      PROVE  /\ Tells(found[i], rows[i]) /\ IdOf(found[i]) = rows[i].id
             /\ "itemId" \in DOMAIN found[i] /\ found[i]["itemId"] = rows[i].id /\ found[i]["itemId"] # Null
  <2>1. found[i] = E!CandidateOf(page, i, i - 1)
    BY <1>5
  <2>2. rows[i] \in Range(walk.listings)
    BY <1>2
  <2>3. page.links[i] = [id |-> rows[i].id, groups |-> {1}, known |-> TRUE,
                         rings |-> <<[ids |-> 1, card |-> EbayCard(rows[i])]>>]
    BY <1>1, <1>4
  <2> HIDE DEF found
  <2> QED
    BY <1>3, <2>1, <2>2, <2>3, EbayRow
<1>7. DOMAIN found = 1 .. Len(rows)
  BY <1>5
<1> HIDE DEF found
<1>8. found \in Seq(Range(found)) /\ Len(found) = Len(rows)
  <2>1. found = [i \in 1 .. Len(rows) |-> found[i]]
    BY <1>5
  <2>2. \A i \in 1 .. Len(rows) : found[i] \in Range(found)
    BY <1>7 DEF Range
  <2> QED
    BY <1>2, <1>7, <2>1, <2>2
<1> QED
  BY <1>2, <1>6, <1>7, <1>8 DEF found, rows

\* A page with one control for the next page is read by it.
LEMMA OneControl ==
  ASSUME NEW doc, NEW c, c.next = TRUE, c # Null, doc.controls = <<c>>
  PROVE  LET paging == E!ReadPagination(doc) IN
         /\ paging.controlFound = TRUE
         /\ paging.hasNextPage = IF c.disabled THEN FALSE ELSE TRUE
         /\ ~c.disabled => paging.nextPageUrl = IF c.href # Null THEN c.href
                                                ELSE E!WithPage(doc.url, E!Else(doc.url.page, 1) + 1)
<1> DEFINE at == {i \in DOMAIN doc.controls : doc.controls[i].next}
           paging == E!ReadPagination(doc)
           control == IF at = {} THEN Null ELSE doc.controls[E!Min(at)]
<1>1. at = {1}
  <2>1. DOMAIN <<c>> = {1} /\ <<c>>[1] = c
    OBVIOUS
  <2> QED
    BY <2>1
<1>2. doc.controls[1] = c
  OBVIOUS
<1>3. E!FirstThat(doc.controls, LAMBDA k : k.next) = control
  BY DEF E!FirstThat
<1> HIDE DEF at
<1>4. E!Min(at) = 1
  <2>1. at \in SUBSET (1 .. 4) /\ 1 \in at
    BY <1>1
  <2> QED
    BY <2>1, LeastGroup
<1>5. control = c
  BY <1>1, <1>2, <1>4
<1> HIDE DEF control
<1>6. paging = (IF c.disabled
                THEN [hasNextPage |-> FALSE, nextPageUrl |-> Null, controlFound |-> TRUE, derived |-> FALSE]
                ELSE IF c.href # Null
                THEN [hasNextPage |-> TRUE, nextPageUrl |-> c.href, controlFound |-> TRUE, derived |-> FALSE]
                ELSE [hasNextPage |-> TRUE, nextPageUrl |-> E!WithPage(doc.url, E!Else(doc.url.page, 1) + 1),
                      controlFound |-> TRUE, derived |-> TRUE])
  BY <1>3, <1>5 DEF E!ReadPagination
<1> HIDE DEF paging
<1> QED
  BY <1>6 DEF paging

\* A page without such a control is read as having none.
LEMMA NoControl ==
  ASSUME NEW doc, doc.controls = <<>>
  PROVE  E!ReadPagination(doc).controlFound = FALSE /\ E!ReadPagination(doc).nextPageUrl = Null
<1>1. {i \in DOMAIN doc.controls : doc.controls[i].next} = {}
  OBVIOUS
<1>2. E!FirstThat(doc.controls, LAMBDA k : k.next) = Null
  BY <1>1 DEF E!FirstThat
<1> QED
  BY <1>2 DEF E!ReadPagination

\* What a page of eBay states of what follows it.
LEMMA EbayPaging ==
  ASSUME NullIsBare, walk \in Walks, UrlInv, walk.site = "ebay"
  PROVE  LET paging == E!ReadPagination(EbayPage) IN
         \/ paging.controlFound = FALSE /\ paging.nextPageUrl = Null
         \/ paging.controlFound = TRUE /\ paging.hasNextPage = FALSE /\ Served = LastPage
         \/ /\ paging.controlFound = TRUE /\ paging.hasNextPage = TRUE
            /\ paging.nextPageUrl = E!WithPage(url, PageNumber + 1)
<1> DEFINE doc == EbayPage
           paging == E!ReadPagination(doc)
           Control(disabled, href) == [next |-> TRUE, disabled |-> disabled, href |-> href]
           last == Served = LastPage
<1>1. PageNumber \in Nat \ {0} /\ "page" \in DOMAIN url
  BY DEF UrlInv, PageNumber, Else
<1>2. Served \in {PageNumber, LastPage}
  BY <1>1, ServedPage
<1>3. doc.url = url /\ E!Else(url.page, 1) = PageNumber
  BY DEF EbayPage, PageNumber, E!Else, Else
<1>4. walk.style \in {"linked", "button", "endless", "bare"}
  BY WalksAssumption
<1>5. /\ walk.style = "linked" =>
           doc.controls = <<Control(last, IF last THEN Null ELSE E!WithPage(url, Served + 1))>>
      /\ walk.style = "button" => doc.controls = <<Control(last, Null)>>
      /\ walk.style = "endless" => doc.controls = <<Control(FALSE, Null)>>
      /\ walk.style = "bare" => doc.controls = <<>>
  <2> DEFINE is == CASE walk.style = "linked" ->
                           <<Control(last, IF last THEN Null ELSE E!WithPage(url, Served + 1))>>
                     [] walk.style = "button"  -> <<Control(last, Null)>>
                     [] walk.style = "endless" -> <<Control(FALSE, Null)>>
                     [] OTHER -> <<>>
  <2>1. doc.controls = is
    BY DEF EbayPage, Served
  <2> HIDE DEF doc, Control, last
  <2>2. CASE walk.style = "linked"
    BY <2>1, <2>2
  <2>3. CASE walk.style = "button"
    BY <2>1, <2>3
  <2>4. CASE walk.style = "endless"
    BY <2>1, <2>4
  <2>5. CASE walk.style = "bare"
    BY <2>1, <2>5
  <2> QED
    BY <1>4, <2>2, <2>3, <2>4, <2>5
<1>6. \A disabled, href : /\ Control(disabled, href).next = TRUE /\ Control(disabled, href).disabled = disabled
                          /\ Control(disabled, href).href = href /\ Control(disabled, href) # Null
  <2> TAKE disabled, href
  <2> DEFINE c == Control(disabled, href)
  <2>1. DOMAIN c # {} /\ c.next = TRUE /\ c.disabled = disabled /\ c.href = href
    OBVIOUS
  <2> HIDE DEF c
  <2>2. c # Null
    BY <2>1 DEF NullIsBare
  <2> QED
    BY <2>1, <2>2 DEF c
<1>7. E!WithPage(url, PageNumber + 1) # Null
  <2> DEFINE next == E!WithPage(url, PageNumber + 1)
  <2>1. "page" \in DOMAIN next
    BY <1>1 DEF E!WithPage
  <2> HIDE DEF next
  <2>2. next # Null
    BY <2>1 DEF NullIsBare
  <2> QED
    BY <2>2 DEF next
<1> HIDE DEF doc, Control, last
<1>8. ASSUME NEW disabled \in BOOLEAN, NEW href, doc.controls = <<Control(disabled, href)>>
      PROVE  /\ paging.controlFound = TRUE
             /\ paging.hasNextPage = IF disabled THEN FALSE ELSE TRUE
             /\ ~disabled => paging.nextPageUrl = IF href # Null THEN href ELSE E!WithPage(url, PageNumber + 1)
  <2> DEFINE c == Control(disabled, href)
  <2>1. c.next = TRUE /\ c # Null /\ c.disabled = disabled /\ c.href = href /\ doc.controls = <<c>>
    BY <1>6, <1>8
  <2> HIDE DEF c
  <2> QED
    BY <1>3, <2>1, OneControl
<1>9. last \in BOOLEAN
  BY DEF last
<1> HIDE DEF paging
<1>10. CASE walk.style = "linked"
  <2>1. /\ paging.controlFound = TRUE
        /\ paging.hasNextPage = IF last THEN FALSE ELSE TRUE
        /\ ~last => paging.nextPageUrl = E!WithPage(url, Served + 1)
    <3> DEFINE href == IF last THEN Null ELSE E!WithPage(url, Served + 1)
    <3>1. ~last => href = E!WithPage(url, Served + 1) /\ href # Null
      BY <1>2, <1>7 DEF last
    <3> HIDE DEF href
    <3>2. doc.controls = <<Control(last, href)>>
      BY <1>5, <1>10 DEF href
    <3> QED
      BY <1>8, <1>9, <3>1, <3>2
  <2> QED
    BY <1>2, <2>1 DEF last, paging, doc
<1>11. CASE walk.style = "button"
  <2>1. /\ paging.controlFound = TRUE /\ paging.hasNextPage = IF last THEN FALSE ELSE TRUE
        /\ ~last => paging.nextPageUrl = E!WithPage(url, PageNumber + 1)
    BY <1>5, <1>8, <1>9, <1>11
  <2> QED
    BY <2>1 DEF last, paging, doc
<1>12. CASE walk.style = "endless"
  <2>1. paging.controlFound = TRUE /\ paging.hasNextPage = TRUE /\ paging.nextPageUrl = E!WithPage(url, PageNumber + 1)
    BY <1>5, <1>8, <1>12
  <2> QED
    BY <2>1 DEF paging, doc
<1>13. CASE walk.style = "bare"
  <2>1. paging.controlFound = FALSE /\ paging.nextPageUrl = Null
    BY <1>5, <1>13, NoControl DEF paging
  <2> QED
    BY <2>1 DEF paging, doc
<1> QED
  BY <1>4, <1>10, <1>11, <1>12, <1>13

\* What the answer about a page of eBay says of what follows it.
LEMMA EbayFollows ==
  ASSUME NullIsBare, walk \in Walks, UrlInv, walk.site = "ebay", NEW rows
  PROVE  LET meta == E!ExtractSearchPageMeta(EbayPage, rows) IN
         IF meta.hasNextPage = TRUE /\ meta.nextPageUrl # Null THEN meta.nextPageUrl = E!WithPage(url, PageNumber + 1)
         ELSE "SEARCH_PAGINATION_UNSTATED" \in meta.warnings \/ Total <= PageNumber * walk.size
<1> DEFINE doc == EbayPage
           meta == E!ExtractSearchPageMeta(doc, rows)
           paging == E!ReadPagination(doc)
           stated == IF doc.count = Null THEN Null ELSE doc.count.n
           floor == doc.count # Null /\ doc.count.plus
           total == E!CheckedTotalCount(stated, Len(rows)).totalResults
           clamped == /\ doc.url.page # Null
                      /\ \/ doc.selected # Null /\ doc.selected < doc.url.page
                         \/ /\ doc.url.page > 1 /\ total # Null /\ ~floor /\ doc.url.size # Null
                            /\ total <= (doc.url.page - 1) * doc.url.size
           has == IF paging.controlFound THEN paging.hasNextPage ELSE Null
           stub == E!IsErrorStub(doc, Len(rows))
<1>1. /\ PageNumber \in Nat \ {0} /\ (url.page # Null => url.page = PageNumber)
      /\ url.size = walk.size
  BY DEF UrlInv, PageNumber, Else
<1>2. /\ doc.url = url /\ doc.selected = Served /\ doc.errorTitle = FALSE
      /\ doc.count = IF walk.style = "bare" THEN Null ELSE [n |-> Total, plus |-> FALSE]
  BY DEF EbayPage, Served
<1>3. /\ meta.hasNextPage = IF clamped THEN FALSE ELSE has
      /\ meta.nextPageUrl = IF clamped THEN Null ELSE paging.nextPageUrl
  BY DEF E!ExtractSearchPageMeta
<1>4. E!Warn(~clamped /\ has = Null /\ ~stub, "SEARCH_PAGINATION_UNSTATED") \subseteq meta.warnings
  BY DEF E!ExtractSearchPageMeta
<1>5. stub = FALSE
  BY <1>2 DEF E!IsErrorStub
<1>6. total = Null \/ total = Total
  <2>1. stated = Null \/ stated = Total
    <3>1. [n |-> Total, plus |-> FALSE].n = Total
      OBVIOUS
    <3> HIDE DEF doc
    <3> QED
      BY <1>2, <3>1
  <2> HIDE DEF stated
  <2>2. total = IF stated # Null /\ stated < Len(rows) THEN Null ELSE stated
    BY DEF E!CheckedTotalCount
  <2> QED
    BY <2>1, <2>2
<1>7. /\ LastPage \in Nat \ {0} /\ Total <= LastPage * walk.size /\ Total \in Nat /\ walk.size \in Nat \ {0}
      /\ Served \in {PageNumber, LastPage} /\ Served <= PageNumber
  BY <1>1, ServedPage
<1>8. \/ paging.controlFound = FALSE /\ paging.nextPageUrl = Null
      \/ paging.controlFound = TRUE /\ paging.hasNextPage = FALSE /\ Served = LastPage
      \/ /\ paging.controlFound = TRUE /\ paging.hasNextPage = TRUE
         /\ paging.nextPageUrl = E!WithPage(url, PageNumber + 1)
  BY EbayPaging
<1> HIDE DEF doc, meta, paging, total, floor, stub
<1>9. LastPage <= PageNumber => Total <= PageNumber * walk.size
  <2> SUFFICES ASSUME LastPage <= PageNumber PROVE Total <= PageNumber * walk.size
    OBVIOUS
  <2>1. LastPage * walk.size <= PageNumber * walk.size
    BY <1>1, <1>7, ProductsGrow
  <2>2. LastPage * walk.size \in Int /\ PageNumber * walk.size \in Int
    BY <1>1, <1>7
  <2> QED
    BY <1>7, <2>1, <2>2
<1>10. clamped => Total <= PageNumber * walk.size
  <2> SUFFICES ASSUME clamped PROVE Total <= PageNumber * walk.size
    OBVIOUS
  <2>1. url.page = PageNumber
    BY <1>1, <1>2
  <2>2. CASE Served < PageNumber
    <3>1. LastPage <= PageNumber
      BY <1>1, <1>7, <2>2
    <3> QED
      BY <1>9, <3>1
  <2>3. CASE Total <= (PageNumber - 1) * walk.size
    <3>1. (PageNumber - 1) * walk.size <= PageNumber * walk.size
      BY <1>1, <1>7, ProductsGrow
    <3>2. (PageNumber - 1) * walk.size \in Int /\ PageNumber * walk.size \in Int
      BY <1>1, <1>7
    <3> QED
      BY <1>7, <2>3, <3>1, <3>2
  <2> QED
    BY <1>1, <1>2, <1>6, <2>1, <2>2, <2>3
<1> HIDE DEF clamped
<1>11. CASE clamped
  BY <1>3, <1>10, <1>11 DEF meta, doc
<1>12. CASE ~clamped /\ paging.controlFound = FALSE /\ paging.nextPageUrl = Null
  <2>1. "SEARCH_PAGINATION_UNSTATED" \in meta.warnings /\ meta.nextPageUrl = Null
    BY <1>3, <1>4, <1>5, <1>12 DEF E!Warn
  <2> QED
    BY <2>1 DEF meta, doc
<1>13. CASE ~clamped /\ paging.controlFound = TRUE /\ paging.hasNextPage = FALSE /\ Served = LastPage
  <2>1. meta.hasNextPage = FALSE /\ Total <= PageNumber * walk.size
    BY <1>3, <1>7, <1>9, <1>13
  <2> QED
    BY <2>1 DEF meta, doc
<1>14. CASE /\ ~clamped /\ paging.controlFound = TRUE /\ paging.hasNextPage = TRUE
            /\ paging.nextPageUrl = E!WithPage(url, PageNumber + 1)
  <2>1. meta.hasNextPage = TRUE /\ meta.nextPageUrl = E!WithPage(url, PageNumber + 1)
    BY <1>3, <1>14
  <2>2. E!WithPage(url, PageNumber + 1) # Null
    <3> DEFINE next == E!WithPage(url, PageNumber + 1)
    <3>1. "page" \in DOMAIN next
      BY DEF E!WithPage, UrlInv
    <3> HIDE DEF next
    <3>2. next # Null
      BY <3>1 DEF NullIsBare
    <3> QED
      BY <3>2 DEF next
  <2> QED
    BY <2>1, <2>2 DEF meta, doc
<1> QED
  BY <1>8, <1>11, <1>12, <1>13, <1>14

\* The answer about a results page of eBay: its reduction, and the warnings of both.
LEMMA EbayAnswers ==
  ASSUME NEW doc, NEW options, options # Null, NEW scanned,
         doc.site = "ebay", doc.kind = "search", doc.challenge = FALSE, doc.soldAsked = FALSE
  PROVE  LET rows == E!ExtractListingCandidates(doc)
             meta == E!ExtractSearchPageMeta(doc, rows)
             answer == ExecuteExtract(doc, FALSE, Null, options, scanned)
         IN  \E sold \in BOOLEAN :
               LET sent == C!CompactSearchPage(RowsPage("ebay", "search", rows, sold, meta.hasNextPage, meta.nextPageUrl),
                                               options, scanned)
               IN  answer.record = sent /\ meta.warnings \cup sent.warnings \subseteq answer.warnings
<1> DEFINE rows == E!ExtractListingCandidates(doc)
           meta == E!ExtractSearchPageMeta(doc, rows)
           answer == ExecuteExtract(doc, FALSE, Null, options, scanned)
           sold == \E n \in DOMAIN rows : rows[n].soldText # Null
           page == RowsPage("ebay", "search", rows, sold, meta.hasNextPage, meta.nextPageUrl)
           sent == C!CompactSearchPage(page, options, scanned)
           said == PageWarnings(doc, rows) \cup RowWarnings(rows) \cup SoldWarnings(doc, rows) \cup meta.warnings
<1>1. answer = EbayRowsAnswer(doc, rows, MetaOf(doc, rows), options, scanned)
  <2>1. ReadEbay(doc, options, scanned) = EbayRowsAnswer(doc, rows, MetaOf(doc, rows), options, scanned)
    BY DEF ReadEbay, ReadEbayRows, EbayRows
  <2> HIDE DEF rows
  <2> QED
    BY <2>1 DEF ExecuteExtract
<1>2. MetaOf(doc, rows) = meta
  <2> HIDE DEF rows
  <2> QED
    BY DEF MetaOf
<1> HIDE DEF rows, meta, answer
<1>3. answer = ApplySearchCompaction(page, said, options, scanned)
  <2>1. (doc.soldAsked \/ sold) = sold
    OBVIOUS
  <2>2. answer = ApplySearchCompaction(
                   RowsPage("ebay", "search", rows, doc.soldAsked \/ sold, meta.hasNextPage, meta.nextPageUrl),
                   said, options, scanned)
    BY <1>1, <1>2 DEF EbayRowsAnswer
  <2> HIDE DEF sold, said
  <2> QED
    BY <2>1, <2>2
<1> HIDE DEF page, said
<1>4. answer = [record |-> sent, warnings |-> said \cup sent.warnings]
  BY <1>3 DEF ApplySearchCompaction, Answer
<1> HIDE DEF sent
<1>5. answer.record = sent /\ meta.warnings \cup sent.warnings \subseteq answer.warnings
  BY <1>4 DEF said
<1> HIDE DEF said
<1>6. sold \in BOOLEAN
  OBVIOUS
<1> HIDE DEF sold
<1> QED
  BY <1>5, <1>6 DEF answer, sent, page, meta, rows

\* A page of eBay is answered so too.
LEMMA EbayExtractKeeps ==
  ASSUME NullIsBare, MatchInv, walk.site = "ebay", NEW scanned \in {Null, 1},
         FollowAnswer(ExecuteExtract(EbayPage, FALSE, Null, Options, scanned)), walk' = walk
  PROVE  MatchInv'
<1> DEFINE doc == EbayPage
           rows == RowsOn(Served)
           found == E!ExtractListingCandidates(doc)
           meta == E!ExtractSearchPageMeta(doc, found)
           Page(sold) == RowsPage("ebay", "search", found, sold, meta.hasNextPage, meta.nextPageUrl)
           answer == ExecuteExtract(doc, FALSE, Null, Options, scanned)
<1>1. walk \in Walks /\ UrlInv /\ PageNumber \in Nat \ {0} /\ Options # Null /\ Options.fields = Null
  <2>1. walk \in Walks /\ UrlInv
    BY DEF MatchInv
  <2>2. PageNumber \in Nat \ {0}
    BY <2>1 DEF UrlInv, PageNumber, Else
  <2>3. Options # Null /\ Options.fields = Null
    BY DEF Options, NullIsBare
  <2> QED
    BY <2>1, <2>2, <2>3
<1>2. doc.site = "ebay" /\ doc.kind = "search" /\ doc.challenge = FALSE /\ doc.soldAsked = FALSE
  BY DEF EbayPage
<1>3. \E sold \in BOOLEAN :
        /\ answer.record = C!CompactSearchPage(Page(sold), Options, scanned)
        /\ meta.warnings \cup C!CompactSearchPage(Page(sold), Options, scanned).warnings \subseteq answer.warnings
  <2> HIDE DEF doc
  <2> QED
    BY <1>1, <1>2, EbayAnswers
<1>4. PICK sold \in BOOLEAN :
        /\ answer.record = C!CompactSearchPage(Page(sold), Options, scanned)
        /\ meta.warnings \cup C!CompactSearchPage(Page(sold), Options, scanned).warnings \subseteq answer.warnings
  BY <1>3
<1>5. IF meta.hasNextPage = TRUE /\ meta.nextPageUrl # Null THEN meta.nextPageUrl = E!WithPage(url, PageNumber + 1)
      ELSE "SEARCH_PAGINATION_UNSTATED" \in meta.warnings \/ Total <= PageNumber * walk.size
  BY <1>1, EbayFollows
<1>6. /\ found \in Seq(Range(found)) /\ DOMAIN found = 1 .. Len(rows) /\ Len(found) = Len(rows)
      /\ \A i \in 1 .. Len(rows) : /\ Tells(found[i], rows[i]) /\ IdOf(found[i]) = rows[i].id
                                   /\ "itemId" \in DOMAIN found[i] /\ found[i]["itemId"] = rows[i].id
                                   /\ found[i]["itemId"] # Null
  BY <1>1, EbayPageRows
<1> DEFINE page == Page(sold)
           sent == C!CompactSearchPage(page, Options, scanned)
<1>7. /\ page.site = "ebay" /\ page.kind = "search" /\ page.sold = sold /\ page.candidates = found
      /\ page.hasNextPage = meta.hasNextPage /\ page.nextPageUrl = meta.nextPageUrl
  BY DEF RowsPage
<1>8. PageRows = found
  BY DEF PageRows
<1>9. answer.record = sent /\ meta.warnings \cup sent.warnings \subseteq answer.warnings
  BY <1>4
<1>10. Follow(answer.record, answer.warnings)
  BY DEF FollowAnswer
<1> HIDE DEF found, meta, answer, page
<1>11. Leads(page, answer.warnings)
  <2>1. CASE page.hasNextPage = TRUE /\ page.nextPageUrl # Null
    <3> DEFINE next == E!WithPage(url, PageNumber + 1)
    <3>1. page.nextPageUrl = next
      BY <1>5, <1>7, <2>1
    <3>2. LeadsOn(next)
      <4>1. next = [url EXCEPT !.page = PageNumber + 1]
        BY DEF E!WithPage
      <4>2. "page" \in DOMAIN url /\ "size" \in DOMAIN url /\ url.size = walk.size
        BY <1>1 DEF UrlInv
      <4> HIDE DEF next
      <4> QED
        BY <4>1, <4>2 DEF LeadsOn
    <3> HIDE DEF next
    <3> QED
      BY <2>1, <3>1, <3>2 DEF Leads
  <2>2. CASE ~(page.hasNextPage = TRUE /\ page.nextPageUrl # Null)
    <3>1. "SEARCH_PAGINATION_UNSTATED" \in answer.warnings \/ Total <= PageNumber * walk.size
      BY <1>5, <1>7, <1>9, <2>2
    <3> QED
      BY <2>2, <3>1 DEF Leads, Shortfalls
  <2> QED
    BY <2>1, <2>2
<1>12. Shows(page, rows)
  <2> DEFINE before == (Served - 1) * walk.size
             through == Served * walk.size
             upTo == Min({Total, through})
  <2>1. /\ rows \in Seq(Range(walk.listings)) /\ before \in Nat
        /\ upTo \in {Total, through} /\ Total \in Nat /\ through = before + walk.size
        /\ Range(rows) = {walk.listings[k] : k \in before + 1 .. upTo}
    BY <1>1, ServedPage, RowsOnPage
  <2>2. walk.listings \in Seq(Range(walk.listings)) /\ walk.size \in Nat
    BY <1>1, WalksAssumption
  <2>3. DOMAIN walk.listings = 1 .. Total
    BY <2>2 DEF Total
  <2>4. /\ Served \in {PageNumber, LastPage} /\ Served <= PageNumber /\ Total <= LastPage * walk.size
        /\ LastPage \in Nat /\ Served \in Nat
    BY <1>1, ServedPage
  <2>5. Served = PageNumber \/ Total <= (PageNumber - 1) * walk.size
    <3> SUFFICES ASSUME Served # PageNumber PROVE Total <= (PageNumber - 1) * walk.size
      OBVIOUS
    <3>1. LastPage <= PageNumber - 1
      BY <1>1, <2>4
    <3>2. LastPage * walk.size <= (PageNumber - 1) * walk.size
      BY <1>1, <2>2, <2>4, <3>1, ProductsGrow
    <3>3. LastPage * walk.size \in Int /\ (PageNumber - 1) * walk.size \in Int
      BY <1>1, <2>2, <2>4
    <3> QED
      BY <2>1, <2>4, <3>2, <3>3
  <2>6. Served = PageNumber => before = (PageNumber - 1) * walk.size /\ through = PageNumber * walk.size
    OBVIOUS
  <2>7. (PageNumber - 1) * walk.size \in Int
    BY <1>1, <2>2
  <2> HIDE DEF before, through, upTo, rows
  <2>8. DOMAIN rows = 1 .. Len(rows) /\ \A i \in DOMAIN rows : rows[i] \in Range(walk.listings)
    BY <2>1
  <2>9. ASSUME NEW k \in DOMAIN walk.listings, (PageNumber - 1) * walk.size < k, k <= PageNumber * walk.size
        PROVE  \E i \in DOMAIN rows : rows[i] = walk.listings[k]
    <3>1. Served = PageNumber
      BY <2>1, <2>3, <2>5, <2>7, <2>9
    <3>2. k \in before + 1 .. upTo
      BY <2>1, <2>2, <2>3, <2>6, <2>9, <3>1
    <3>3. walk.listings[k] \in Range(rows)
      BY <2>1, <3>2
    <3> QED
      BY <3>3 DEF Range
  <2>10. ASSUME NEW i \in DOMAIN rows
         PROVE  IdOf(C!ProjectCandidate(found[i], Options, C!DefaultFields(page))) = rows[i].id
    BY <1>1, <1>6, <1>7, <2>8, EbayNameIsSent
  <2> QED
    BY <1>6, <1>7, <1>8, <2>8, <2>9, <2>10 DEF Shows
<1>13. TakesOver(answer.record, answer.warnings, page, scanned)
  <2>1. sent.hasNextPage = page.hasNextPage /\ sent.nextPageUrl = page.nextPageUrl
    <3> DEFINE o == Options
    <3>1. page.candidates \in Seq(Range(found)) /\ MaxScanned \in Nat
      BY <1>1, <1>6, <1>7, WalksAssumption
    <3>2. o.offset \in Nat /\ o.limit \in Nat /\ o.fields = Null
      BY <1>1, WalksAssumption DEF Options, MatchInv
    <3> HIDE DEF o
    <3>3. LET s == C!CompactSearchPage(page, o, scanned) IN
          s.hasNextPage = page.hasNextPage /\ s.nextPageUrl = page.nextPageUrl
      BY <3>1, <3>2, RowsSent
    <3> QED
      BY <3>3 DEF o
  <2>2. answer.record = sent /\ sent.warnings \subseteq answer.warnings
    BY <1>9
  <2> HIDE DEF sent
  <2> QED
    BY <2>1, <2>2 DEF TakesOver, sent
<1> HIDE DEF rows
<1> QED
  BY <1>10, <1>11, <1>12, <1>13, FollowKeeps

-----------------------------------------------------------------------------
(* Every match.                                                              *)

\* A walk that has returned nothing has passed nothing.
LEMMA WalksStartMatched ==
  ASSUME WalkInit PROVE MatchInv
<1>1. /\ walk \in Walks /\ url = FirstUrl(walk.site) /\ offset = 0 /\ state = "navigate"
      /\ returned = {} /\ told = {}
  BY DEF WalkInit
<1>2. walk.site \in {"kijiji", "ebay"} /\ walk.listings \in Seq(Range(walk.listings)) /\ walk.size \in Nat
  BY <1>1, WalksAssumption
<1>3. "page" \in DOMAIN url /\ url.page = Null /\ UrlInv
  <2>1. CASE walk.site = "kijiji"
    BY <1>1, <2>1 DEF FirstUrl, UrlInv
  <2>2. CASE walk.site = "ebay"
    BY <1>1, <2>2 DEF FirstUrl, UrlInv
  <2> QED
    BY <1>2, <2>1, <2>2
<1>4. PageNumber = 1
  BY <1>3 DEF PageNumber, Else
<1>5. (PageNumber - 1) * walk.size = 0
  BY <1>2, <1>4
<1>6. \A k \in DOMAIN walk.listings : ~(k <= 0)
  BY <1>2
<1>7. 1 .. offset = {}
  BY <1>1
<1> QED
  BY <1>1, <1>3, <1>5, <1>6, <1>7 DEF MatchInv

\* A step that does not answer about a page keeps what was matched.
LEMMA OtherStepsKeepMatched ==
  ASSUME MatchInv, walk' = walk, url' = url, returned' = returned, told \subseteq told', offset' \in {0, offset},
         state' \in {"done", "body", "finished"} => state \in {"done", "body", "finished"}
  PROVE  MatchInv'
<1>1. /\ walk \in Walks /\ UrlInv /\ offset \in Nat /\ returned \subseteq Ids(Wanted)
      /\ told \cap Shortfalls = {} =>
           /\ \A k \in DOMAIN walk.listings :
                k <= (PageNumber - 1) * walk.size /\ Wanted(walk.listings[k]) => walk.listings[k].id \in returned
           /\ \A i \in 1 .. offset : i \in DOMAIN Matches => IdOf(Matches[i]) \in returned
           /\ state \in {"done", "body", "finished"} => Ids(Wanted) \subseteq returned
  BY DEF MatchInv
<1>2. Matches' = Matches /\ PageNumber' = PageNumber
  BY UnchangedMatches
<1>3. (\A l : Wanted(l)' <=> Wanted(l)) /\ Ids(Wanted)' = Ids(Wanted)
  BY UnchangedWants
<1>4. UrlInv'
  BY <1>1 DEF UrlInv
<1>5. told' \cap Shortfalls = {} => told \cap Shortfalls = {}
  OBVIOUS
<1>6. offset' \in Nat /\ 1 .. offset' \subseteq 1 .. offset
  BY <1>1
<1> QED
  BY <1>1, <1>2, <1>3, <1>4, <1>5, <1>6 DEF MatchInv

\* No step of a walk passes a match that was not returned.
LEMMA WalkStepsKeepMatched ==
  ASSUME NullIsBare, MatchInv, [WalkNext]_walkVars PROVE MatchInv'
<1>1. CASE Navigate
  <2>1. state' \in {"landing", "refused"}
    BY <1>1 DEF Navigate
  <2> QED
    BY <1>1, <2>1, OtherStepsKeepMatched DEF Navigate
<1>2. CASE Land
  BY <1>2, OtherStepsKeepMatched DEF Land
<1>3. CASE LandElsewhere
  <2>1. state' \in {"elsewhere", "landing", "refused"}
    BY <1>3 DEF LandElsewhere
  <2> QED
    BY <1>3, <2>1, OtherStepsKeepMatched DEF LandElsewhere
<1>4. CASE Extract
  <2>1. walk' = walk
    BY <1>4 DEF Extract
  <2>2. PICK scanned \in {Null, 1} :
          FollowAnswer(ExecuteExtract(IF walk.site = "kijiji" THEN KijijiPage ELSE EbayPage, FALSE, Null, Options, scanned))
    BY <1>4 DEF Extract
  <2>3. walk.site \in {"kijiji", "ebay"}
    BY WalksAssumption DEF MatchInv
  <2>4. CASE walk.site = "kijiji"
    BY <2>1, <2>2, <2>4, KijijiExtractKeeps
  <2>5. CASE walk.site = "ebay"
    BY <2>1, <2>2, <2>5, EbayExtractKeeps
  <2> QED
    BY <2>3, <2>4, <2>5
<1>5. CASE OpenAd
  BY <1>5, OtherStepsKeepMatched DEF OpenAd
<1>6. CASE ReadWindow
  <2>1. state = "body" /\ walk' = walk /\ url' = url /\ offset' = offset /\ returned' = returned
    BY <1>6 DEF ReadWindow
  <2>2. told \subseteq told'
    <3> DEFINE answer == ExecuteExtract(AdPage, TRUE, [maxChars |-> body.maxChars, offset |-> body.covered], Null, Null)
    <3>1. KeepAnswer(answer)
      BY <1>6 DEF ReadWindow
    <3> HIDE DEF answer
    <3>2. \E more \in BOOLEAN : told' = IF more THEN told ELSE told \cup answer.warnings
      BY <3>1 DEF KeepAnswer, KeepWindow
    <3> QED
      BY <3>2
  <2> QED
    BY <2>1, <2>2, OtherStepsKeepMatched
<1>7. CASE Stop \/ UNCHANGED walkVars
  <2>1. UNCHANGED walkVars
    BY <1>7 DEF Stop
  <2> QED
    BY <2>1, OtherStepsKeepMatched DEF walkVars
<1> QED
  BY <1>1, <1>2, <1>3, <1>4, <1>5, <1>6, <1>7 DEF WalkNext

\* Whatever a search returns, however the site splits it into pages, states its total and marks its next
\* page, and whatever the caller's filters, its limit and the time they get: a caller that follows
\* nextOffset and nextPageUrl is given only listings that pass its filters, and every one of them by the
\* end of the walk unless an answer said that it falls short (docs/ROUTINE.md:150-160).
THEOREM EveryMatchIsReturned ==
  ASSUME NullIsBare PROVE WalkSpec => []WalkReturnsEveryMatch
<1>1. WalkInit => MatchInv
  BY WalksStartMatched
<1>2. MatchInv /\ [WalkNext]_walkVars => MatchInv'
  BY WalkStepsKeepMatched
<1>3. MatchInv => WalkReturnsEveryMatch
  BY DEF MatchInv, WalkReturnsEveryMatch
<1> QED
  BY <1>1, <1>2, <1>3, PTL DEF WalkSpec
=============================================================================
