----------------------------- MODULE MC_Reading -----------------------------
(* What an agent reads, for TLC: a caller that walks a search, and one page   *)
(* of each kind in every rendering a few changes away from its plain one.     *)
(* The two share no state, so that in a behaviour one of them moves.          *)
EXTENDS SearchWalk, RenderedPages, TLC

VARIABLE moves

allVars == <<walkVars, pageVars, moves>>

AnyWalk == CHOOSE w \in Walks : TRUE

Init ==
  \/ moves = "walk" /\ WalkInit /\ kind = Null /\ features = Null /\ changed = {} /\ reading = Null
  \/ moves = "page" /\ PagesInit /\ WalkInit /\ walk = AnyWalk

Next ==
  /\ moves' = moves
  /\ \/ moves = "walk" /\ WalkNext /\ UNCHANGED pageVars
     \/ moves = "page" /\ Render /\ UNCHANGED walkVars

Spec == Init /\ [][Next]_allVars

-----------------------------------------------------------------------------
(* The walks.                                                                 *)
Ad(id, title, amount, shown) == [id |-> id, title |-> title, amount |-> amount, contact |-> FALSE, shown |-> shown]

Listings ==
  << Ad("l1", "lego", 5, "element"), Ad("l2", "duplo", 9, "text"),
     [Ad("l3", "lego", 0, "text") EXCEPT !.contact = TRUE],
     Ad("l4", "lego", 7, "twice"), Ad("l5", "lego", 20, "element") >>

\* The same without a listing the site's cards leave without an amount.
Priced(site) ==
  << Listings[1], Listings[2], [Listings[3] EXCEPT !.contact = site # "ebay"],
     [Listings[4] EXCEPT !.shown = "element"], Listings[5] >>

NoFilter == [titles |-> Null, minPrice |-> Null, maxPrice |-> Null, formats |-> Null]
Filters  == { NoFilter, [NoFilter EXCEPT !.titles = {"lego"}, !.minPrice = 7],
              [NoFilter EXCEPT !.maxPrice = 9], [NoFilter EXCEPT !.formats = {"fixed_price", "unknown"}] }

Profile(id, site, denied, auth, destination) ==
  [id |-> id, allowedHosts |-> {[base |-> <<site, "ca">>, wild |-> TRUE]}, deniedHosts |-> denied, auth |-> auth,
   actions |-> {"buy"}, autocomplete |-> {}, transactions |-> {"checkout"}, mutations |-> {}, insecureHttp |-> FALSE,
   privateNetworks |-> FALSE, destination |-> destination]

KijijiProfile == Profile("kijiji", "kijiji", {}, {"signin"}, Null)
EbayProfile   == Profile("ebay", "ebay", {[base |-> <<"pay", "ebay", "ca">>, wild |-> FALSE]}, {"login", "("}, "M6H 2W9")

MembersOf(site) == {IF site = "kijiji" THEN {KijijiProfile} ELSE {EbayProfile}, {KijijiProfile, EbayProfile}}

TheWalks ==
  UNION { {[site |-> site, listings |-> listings, size |-> size, style |-> style, filter |-> filter, limit |-> limit,
              profiles |-> members] : listings \in {Listings, Priced(site)},
             size \in {2, 3}, style \in IF site = "kijiji" THEN {"linked", "ranged", "cached", "titled", "bare"}
                                        ELSE {"linked", "button", "endless", "bare"},
             filter \in Filters, limit \in {1, 2}, members \in MembersOf(site)} : site \in {"kijiji", "ebay"} }

Elsewhere(scheme, host, hits, raw) == [scheme |-> scheme, host |-> host, literal |-> Null, hits |-> hits, raw |-> raw]
TheDetours ==
  { Elsewhere("https", <<"www", "ebay", "ca">>, {"login"}, {}), Elsewhere("https", <<"www", "ebay", "ca">>, {}, {"("}),
    Elsewhere("https", <<"pay", "ebay", "ca">>, {}, {}), Elsewhere("https", <<"m", "kijiji", "ca">>, {}, {}),
    Elsewhere("https", <<"m", "ebay", "ca">>, {"signin"}, {}), Elsewhere("data", <<>>, {}, {}) }

TheBodies == {[length |-> n, maxChars |-> m] : n \in {5, 6, 24}, m \in {Null, 1, 8, 99}}

-----------------------------------------------------------------------------
(* The pages.                                                                 *)
Quote(mark, value) == [mark |-> mark, value |-> value]
Cell(quotes, approx, free) == [quotes |-> quotes, approx |-> approx, free |-> free, to |-> FALSE]
CAD(value) == Cell(<<Quote("CAD", value)>>, Null, "no")
Ranging(cell, more) == [cell EXCEPT !.quotes = Append(@, Quote("CAD", more)), !.to = TRUE]
Words(p, v) == [E!NoWords EXCEPT ![p] = v]

Buyer == "M6H 2W9"
Other == "M6H 0A1"
Timer == [text |-> [phrase |-> TRUE, ms |-> 60], short |-> TRUE, epoch |-> 100, stamp |-> Null]
Seller(usr, str) == [usr |-> usr, str |-> str]
Says(bids, bin) == [bids |-> bids, auction |-> Null, bin |-> bin]

\* The item's url, as pages link it and with a query behind it.
Bare   == [item |-> "i1", bare |-> TRUE]
Linked == [item |-> "i1", bare |-> FALSE]

PlainItem ==
  [itemIds |-> <<Bare, Bare, Bare, Linked>>, sku |-> "i1", host |-> "ebay.ca", canonicalHost |-> "ebay.ca",
   scope |-> Says(Null, "bin"), body |-> Says(3, "bin"), bidElement |-> Null, binControl |-> TRUE, buyControl |-> TRUE,
   buyBox |-> [purchase |-> "buy", offer |-> Null, watchers |-> 3], prices |-> <<CAD(100)>>, banners |-> Null, lead |-> {},
   endedAffordance |-> FALSE, title |-> [name |-> "t1", badge |-> Null], ldName |-> "t1", ogTitle |-> "t1",
   sellers |-> <<<<Seller("s1", Null)>>, <<>>>>, ldSeller |-> "s1", frames |-> <<[ebaydesc |-> TRUE, login |-> "s1"]>>,
   ldPrice |-> [value |-> 100, currency |-> "CAD"], delivery |-> <<Buyer>>, shipTo |-> <<>>,
   live |-> [code |-> Buyer, verified |-> TRUE], expected |-> Buyer, shipping |-> <<CAD(12)>>, offerControl |-> FALSE,
   timers |-> <<Timer>>, buyBoxLeft |-> Null, scopeLeft |-> Null, ldUntil |-> Null, observedAt |-> 40,
   locations |-> <<[place |-> "ON", disclaimer |-> FALSE]>>, folded |-> <<>>, watchers |-> <<>>,
   quantities |-> <<[moreThan |-> Null, available |-> 2, lastOne |-> FALSE, sold |-> 5]>>,
   variants |-> <<[options |-> <<Null, "red">>, chosen |-> 2, static |-> Null]>>]

WaysOfItem ==
  [itemIds |-> {<<Null, Linked, Null, Linked>>, <<Null, Null, Null, Bare>>, <<Null, Null, Null, Null>>}, sku |-> {Null},
   scope |-> {Null, Says(Null, Null)}, binControl |-> {FALSE}, endedAffordance |-> {TRUE},
   prices |-> {<<>>, <<Null, CAD(100)>>, <<Ranging(CAD(100), 150)>>}, title |-> {Null, [name |-> "t1", badge |-> "New"]}, ldName |-> {Null},
   ogTitle |-> {Null}, sellers |-> {<<<<Seller(Null, "shop")>>, <<Seller("s1", Null)>>>>,
     <<<<Seller("s1", Null)>>, <<Seller("s2", Null)>>>>, <<<<Seller(Null, "shop")>>, <<Seller("s2", Null)>>>>,
     <<<<Seller(Null, "shop")>>, <<>>>>, <<<<>>, <<>>>>},
   ldSeller |-> {Null}, frames |-> {<<>>, <<[ebaydesc |-> FALSE, login |-> "s2"], [ebaydesc |-> TRUE, login |-> "s1"]>>},
   ldPrice |-> {Null}, delivery |-> {<<>>, <<Null, Other>>, <<"junk">>}, shipTo |-> {<<Buyer>>, <<Other>>},
   live |-> {Null, [code |-> Null, verified |-> FALSE], [code |-> Other, verified |-> FALSE],
             [code |-> "junk", verified |-> FALSE], [code |-> Buyer, verified |-> FALSE]},
   expected |-> {Null, "junk"},
   shipping |-> {<<>>, <<Null, CAD(12)>>, <<Cell(<<Quote("$", 12)>>, Null, "no")>>,
     <<Cell(<<Quote("USD", 9)>>, Quote("CAD", 12), "no")>>, <<Cell(<<Quote("USD", 9)>>, Null, "no")>>,
     <<Cell(<<Quote("CAD", 12)>>, Null, "bare")>>, <<Ranging(CAD(12), 20)>>, <<Cell(<<>>, Null, "no")>>},
   timers |-> {<<>>, <<[Timer EXCEPT !.epoch = Null]>>, <<[Timer EXCEPT !.epoch = Null, !.short = FALSE]>>,
     <<[Timer EXCEPT !.epoch = Null, !.text = Null, !.stamp = [at |-> 95, zone |-> FALSE]]>>},
   buyBoxLeft |-> {[phrase |-> TRUE, ms |-> 60]}, scopeLeft |-> {[phrase |-> FALSE, ms |-> 999]},
   ldUntil |-> {[at |-> 100, zone |-> TRUE], [at |-> 95, zone |-> FALSE]},
   locations |-> {<<>>, <<[place |-> "fees", disclaimer |-> TRUE], [place |-> "ON", disclaimer |-> FALSE]>>},
   folded |-> {<<[place |-> "fees", disclaimer |-> TRUE]>>, <<[place |-> "ON", disclaimer |-> FALSE]>>},
   watchers |-> {<<3>>, <<Null>>}, quantities |-> {<<>>, <<Null>>},
   variants |-> {<<>>, <<[options |-> <<Null, "red">>, chosen |-> 0, static |-> "red"]>>}]

TrueItem ==
  [id |-> "i1", title |-> "t1", seller |-> "s1", price |-> 100, endsAt |-> 100, place |-> "ON", watchers |-> 3,
   quantity |-> 2, shipping |-> 12, format |-> "fixed_price", variant |-> "red"]

OnAd(ad) == [ad |-> ad, onSite |-> TRUE]
Entry == [amount |-> 150, currency |-> "CAD", poster |-> "p1", activated |-> 500, images |-> 6]
Amount(value) == [free |-> FALSE, contact |-> FALSE, swap |-> FALSE, amount |-> value]
Toronto == [city |-> "Toronto", fsa |-> "M"]
Ottawa  == [city |-> "Ottawa", fsa |-> "K"]
Name(name) == [name |-> name, monogram |-> FALSE, long |-> FALSE, control |-> FALSE]
Row(value, sqft, by) == [label |-> "row", value |-> value, size |-> by = Null, sqft |-> sqft, by |-> by]
Group(pairs) == [pairs |-> pairs, terms |-> <<>>, items |-> <<>>]
Prose(length, figures, place) == [length |-> length, figures |-> figures, place |-> place, mls |-> FALSE]

PlainAd ==
  [urls |-> <<OnAd("a1"), OnAd("a1"), OnAd("a1"), OnAd("a1")>>, sku |-> "a1", ldName |-> "t1", title |-> "t1",
   ogTitle |-> "t1", cache |-> [ads |-> [a1 |-> Entry]], ldPrice |-> 150, ldCurrency |-> "CAD",
   priceEls |-> <<[cell |-> Amount(150), content |-> 150]>>, ldPlaces |-> <<Toronto>>,
   places |-> <<[place |-> Toronto, blurb |-> FALSE]>>, scopes |-> <<[line |-> Toronto, code |-> Toronto]>>,
   locality |-> Null, ldPosted |-> <<500>>, timeStamp |-> 500, timeText |-> "then", postedTexts |-> <<>>,
   ldSeller |-> "s1", sellerEls |-> <<<<Null, Null, Name("s1")>>>>, profiles |-> <<[poster |-> "p1", count |-> 4]>>,
   ldBody |-> Prose(5, <<>>, Null), bodies |-> <<Prose(5, <<>>, Null)>>,
   groups |-> <<Group(<<Row("800", 800, Null), Row("owner", Null, "owner")>>)>>, badge |-> "owner",
   galleries |-> <<{"g1", "g2", "g3", "g4", "g5", "g6"}>>, ldImages |-> Null, banners |-> Null, lead |-> {},
   replyForm |-> TRUE]

WaysOfAd ==
  [urls |-> {<<Null, OnAd("a1"), Null, Null>>, <<Null, [OnAd("a1") EXCEPT !.onSite = FALSE], Null, OnAd("a1")>>,
             <<Null, Null, Null, Null>>},
   sku |-> {Null}, ldName |-> {Null}, title |-> {Null}, ogTitle |-> {Null},
   cache |-> {Null, [ads |-> [a2 |-> [Entry EXCEPT !.amount = 5, !.poster = "p2", !.activated = 7, !.images = 1]]],
              [ads |-> [a1 |-> [Entry EXCEPT !.currency = Null]]], [ads |-> [a1 |-> [Entry EXCEPT !.poster = Null]]]},
   ldPrice |-> {Null, 100, 0}, ldCurrency |-> {Null},
   priceEls |-> {<<>>, <<[cell |-> Null, content |-> Null], [cell |-> Null, content |-> 150]>>},
   ldPlaces |-> {<<>>}, places |-> {<<>>, <<[place |-> Ottawa, blurb |-> TRUE]>>},
   scopes |-> {<<>>, <<[line |-> Null, code |-> Toronto]>>}, locality |-> {Toronto},
   ldPosted |-> {<<>>, <<Null>>}, timeStamp |-> {Null}, ldSeller |-> {Null},
   sellerEls |-> {<<>>, <<<<Null, Null, [Name("S") EXCEPT !.monogram = TRUE]>>, <<Null, Null, Name("s1")>>>>,
                  <<<<Null, Null, [Name("View all listings") EXCEPT !.control = TRUE]>>, <<Name("s1"), Null, Null>>>>,
                  <<<<Null, Null, [Name("prose") EXCEPT !.long = TRUE]>>>>},
   profiles |-> {<<>>, <<[poster |-> "p2", count |-> Null], [poster |-> "p1", count |-> 4]>>,
                <<[poster |-> "p2", count |-> Null]>>},
   ldBody |-> {Null, Prose(5, <<[amount |-> 120, shipping |-> FALSE]>>, Null), Prose(9, <<>>, "Ottawa")},
   bodies |-> {<<>>},
   groups |-> {<<>>, <<Group(<<>>), Group(<<Row(Null, 8, "dealer"), Row("800", 800, Null)>>)>>},
   badge |-> {Null}, galleries |-> {<<>>}, banners |-> {{"deleted"}, {"expired"}, {}}, lead |-> {{"deleted"}, {"expired"}},
   replyForm |-> {FALSE}]

TrueAd ==
  [id |-> "a1", url |-> "a1", title |-> "t1", price |-> 150, city |-> "Toronto", postedAt |-> 500, seller |-> "s1",
   poster |-> "p1", size |-> 800, sellerType |-> "owner", images |-> 6]

Zurl(host, product) == [host |-> host, product |-> product]
Zmoney(mark, value) == [mark |-> mark, value |-> value]

PlainProduct ==
  [url |-> Zurl("zazzle.com", "z1"), ogUrl |-> Zurl("zazzle.com", "z1"), ldUrl |-> Zurl("zazzle.com", "z1"),
   mainPrice |-> Zmoney("$", 20), ldPrice |-> 20, ldCurrency |-> "USD", struck |-> Zmoney("$", 25), standardAmount |-> 25,
   availability |-> "instock", gone |-> FALSE, personalize |-> TRUE, perUnit |-> TRUE, quantity |-> 1, savePercent |-> 20,
   ldName |-> "t1", title |-> "t1"]

WaysOfProduct ==
  [url |-> {Zurl("zazzle.de", "z1")}, ogUrl |-> {Null, Zurl("zazzle.com", Null)}, ldUrl |-> {Null},
   mainPrice |-> {Null, Zmoney("US$", 20)}, ldPrice |-> {Null}, ldCurrency |-> {Null}, struck |-> {Null, Zmoney("US$", 25)},
   standardAmount |-> {Null}, availability |-> {"oos", Null}, personalize |-> {FALSE}, quantity |-> {Null},
   ldName |-> {Null}, title |-> {Null}]

TrueProduct == [id |-> "z1", title |-> "t1", price |-> 20, url |-> "z1", currency |-> "USD", original |-> 25]

ONplace == [name |-> "ON", kept |-> 1, uncut |-> TRUE, digit |-> FALSE, letters |-> 2]
Titled(p, v) == [name |-> "t1", badge |-> Null, seam |-> FALSE, says |-> Words(p, v)]

PlainCard ==
  [title |-> [name |-> "t1", badge |-> Null, seam |-> FALSE, says |-> E!NoWords], anchor |-> Null, wraps |-> FALSE,
   price |-> Words("money", CAD(50)), ship |-> [Words("ship", CAD(12)) EXCEPT !["service"] = "post"], bid |-> Null,
   place |-> Words("place", ONplace), seller |-> Words("seller", "s1"), badge |-> FALSE, format |-> <<>>, sold |-> <<>>,
   rest |-> Words("bin", "bin")]

WaysOfCard ==
  [title |-> {Titled("seller", "s2"), Titled("place", [ONplace EXCEPT !.name = "Lego"]), Titled("bids", 7),
              Titled("bin", "bin"), Titled("auction", "auction"), Titled("soldOn", 5), Titled("soldTag", "sold"),
              Titled("money", CAD(999)), Titled("ship", CAD(3)),
              Titled("ship", Cell(<<>>, Null, "shipping")),
              [Titled("seller", "s2") EXCEPT !.seam = TRUE], [Titled("money", CAD(999)) EXCEPT !.seam = TRUE],
              [Titled("bids", 7) EXCEPT !.seam = TRUE], [Titled("money", Null) EXCEPT !.badge = "New"], Null},
   anchor |-> {Titled("bids", 7), Titled("seller", "s2")}, wraps |-> {TRUE},
   price |-> {Null}, ship |-> {Null}, place |-> {Null}, seller |-> {Null},
   format |-> {<<Words("bin", "bin")>>},
   rest |-> {E!NoWords, [Words("bin", "bin") EXCEPT !["money"] = CAD(50)],
             [Words("bin", "bin") EXCEPT !["seller"] = "s1", !["place"] = ONplace],
             [Words("bin", "bin") EXCEPT !["place"] = [ONplace EXCEPT !.kept = 0]]}]

TrueCard ==
  [id |-> "i1", title |-> "t1", price |-> 50, shipping |-> 12, place |-> "ON", seller |-> "s1", format |-> "fixed_price",
   bids |-> Null, sold |-> Null]

\* On a signed-in page a text's amounts are also its figures.
Figured(text, p, cell) == [text EXCEPT ![p] = cell, !["figure"] = cell]
PlainWatched ==
  [PlainCard EXCEPT !.price = Figured(@, "money", CAD(50)), !.ship = Figured(@, "ship", CAD(12))]
  @@ [timer |-> Words("left", 60), controls |-> {"bin"}, users |-> <<"s1">>, named |-> "s1 (8)", feedback |-> "s1 (8)",
      linked |-> "s1"]

WaysOfWatched ==
  [title |-> {Titled("bids", 7), Titled("left", 7), Titled("ended", "ended"), Titled("ship", CAD(3)), Null,
              [Titled("soldTag", "sold") EXCEPT !.says["sold"] = "sold"],
              [Titled("money", CAD(999)) EXCEPT !.says = Figured(@, "money", CAD(999))]},
   price |-> {Null}, rest |-> {E!NoWords, Figured(Words("bin", "bin"), "money", CAD(50))},
   controls |-> {{}}, users |-> {<<>>, <<"s1", "s2">>, <<"s2", "s1">>}, named |-> {Null}, feedback |-> {Null},
   timer |-> {Null, E!NoWords}, ship |-> {Null}]

TrueWatched ==
  [id |-> "i1", title |-> "t1", price |-> 50, shipping |-> 12, seller |-> "s1", format |-> "fixed_price", bids |-> Null,
   status |-> "active", timeLeft |-> 60, endsAt |-> 60]

Figure(is, value) == [is |-> is, value |-> value, currency |-> "CAD"]
Named(figures, says) == [name |-> "t1", figures |-> figures, says |-> says]
Wording == {"fromSeller", "open", "control", "thread", "threadEarly"}

PlainOffer ==
  [title |-> Named(<<>>, {}), figures |-> <<Figure("offer", 20), Figure("plain", 50)>>,
   cell |-> [value |-> 50, currency |-> "CAD"], token |-> "received", says |-> Wording,
   expires |-> [dated |-> FALSE, in |-> 60], users |-> <<"s1">>, named |-> "s1 (8)", feedback |-> Null, linked |-> "s1"]

WaysOfOffer ==
  [title |-> {Null, Named(<<Figure("plain", 999)>>, {}), Named(<<>>, {"expired"}), Named(<<>>, {"fromYou"})},
   figures |-> {<<Figure("plain", 50), Figure("offer", 20)>>, <<Figure("plain", 50), Figure("plain", 20)>>,
                <<Figure("ship", 5), Figure("plain", 20), Figure("plain", 50)>>, <<Figure("plain", 50)>>},
   cell |-> {Null}, token |-> {Null},
   says |-> {{"hint", "control"}, Wording \ {"threadEarly"}} \cup
            {Wording \ silent : silent \in {{"fromSeller"}, {"open"}, {"fromSeller", "open"},
                                            {"fromSeller", "open", "thread", "threadEarly"}}},
   expires |-> {Null, [dated |-> TRUE, in |-> 0]}, users |-> {<<>>, <<"s2", "s1">>}, named |-> {Null}, linked |-> {Null}]

TrueOffer ==
  [id |-> "i1", title |-> "t1", offer |-> 20, ask |-> 50, direction |-> "from_seller", status |-> "open", seller |-> "s1"]

PlainPages == [item |-> PlainItem, ad |-> PlainAd, product |-> PlainProduct, card |-> PlainCard, watched |-> PlainWatched,
               offer |-> PlainOffer]
PageWays   == [item |-> WaysOfItem, ad |-> WaysOfAd, product |-> WaysOfProduct, card |-> WaysOfCard,
               watched |-> WaysOfWatched, offer |-> WaysOfOffer]
PageTruth  == [item |-> TrueItem, ad |-> TrueAd, product |-> TrueProduct, card |-> TrueCard, watched |-> TrueWatched,
               offer |-> TrueOffer]
=============================================================================
