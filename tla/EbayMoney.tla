----------------------------- MODULE EbayMoney ------------------------------
(***************************************************************************)
(* Amounts as eBay renders them.  A cell is                                *)
(*   quotes   the amounts outside an "(approx ...)" clause, in order, each *)
(*            [mark, value] with mark "$" when no currency is named        *)
(*   approx   the page's own conversion, such an amount, or Null           *)
(*   free     "shipping" when the word free modifies shipping, "bare" when *)
(*            it only occurs, "no" otherwise                               *)
(*   to       whether the cell reads as a range                            *)
(***************************************************************************)
EXTENDS PageText

MarketplaceCurrencyFor(host) ==
  CASE host = "ebay.com"    -> "USD"
    [] host = "ebay.co.uk"  -> "GBP"
    [] host = "ebay.de"     -> "EUR"
    [] OTHER                -> "CAD"

CurrencyOfSymbol(mark, default) == IF mark = "$" THEN default ELSE mark

\* parseMoney: free shipping wins over any amount, the quote wins over its
\* conversion, and a bare "free" counts only where no amount is rendered.
ParseMoney(cell, default) ==
  IF cell = Null THEN Null
  ELSE LET matches == cell.quotes \o (IF cell.approx = Null THEN <<>> ELSE <<cell.approx>>)
           money(value, currency, approximate, ambiguous, conversion) ==
             [value |-> value, currency |-> currency, approximate |-> approximate,
              ambiguousFree |-> ambiguous, conversion |-> conversion]
       IN  IF cell.free = "shipping" THEN money(0, default, FALSE, matches # <<>>, Null)
           ELSE IF matches = <<>>
           THEN IF cell.free = "bare" THEN money(0, default, FALSE, FALSE, Null) ELSE Null
           ELSE LET currency == CurrencyOfSymbol(Head(matches).mark, default)
                    converted == IF cell.quotes = <<>> \/ cell.approx = Null THEN Null
                                 ELSE [value |-> cell.approx.value,
                                       currency |-> CurrencyOfSymbol(cell.approx.mark, default)]
                IN  money(Head(matches).value, currency, cell.to /\ Len(matches) > 1, FALSE,
                          IF converted # Null /\ converted.currency # currency THEN converted ELSE Null)

\* The part of a parsed amount a card keeps.
Amount(parsed) == IF parsed = Null THEN Null ELSE [value |-> parsed.value, currency |-> parsed.currency]

\* cleanTitle: the badges in front of a title are not part of it, unless the
\* title is nothing but badges.
CleanTitle(raw) == IF raw = Null THEN Null ELSE IF raw.name = Null THEN raw.badge ELSE raw.name
=============================================================================
