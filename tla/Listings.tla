------------------------------- MODULE Listings -------------------------------
(***************************************************************************)
(* A ticket listing a customer shows (a screenshot, pasted text, a link),  *)
(* as it is read, chosen from a page, corrected by what they type later,   *)
(* and the listings of the resale data around it (lib/ai/listing-evidence, *)
(* lib/market/alternatives, lib/domain/ticket-links, correctListing); and  *)
(* what is advised of it: what is wrong with it, how it stands against the *)
(* resale data and the offers checked, and the one catch named with it     *)
(* (lib/advice/packet.ts, seat-verdict.ts and shown-prices.ts, the research*)
(* of lib/intake/pipeline.ts).                                             *)
(*                                                                         *)
(* Prices are whole amounts.  A name on a page is only how it compares     *)
(* with the event's ("same", "other", "near", "mixed").                    *)
(* asked: [party, access, together, budget].  market: [raw: the items of   *)
(* the data, gated: a link may not be looked up, tracked: its listings may *)
(* be read, visible: its prices may be shown, floor, best: the total of    *)
(* the best checked offer, leftOut: offers checked and out for a flaw,     *)
(* checked: those that are not, for seats placed by the venue's plan,      *)
(* goal, beforeFees, allowance].  Pure: no state.                          *)
(***************************************************************************)
EXTENDS OwnOffers

NoListing == [source |-> "none"]

\* A page as the reader gives it: its price with the words it came in, what of it is unclear,
\* and, for a results page, its priced rows.
Page ==
  [source |-> "screenshot", kept |-> TRUE, name |-> "same", date |-> "same", venue |-> "same",
   city |-> "same", price |-> Unsaid, as |-> "per_ticket", total |-> Unsaid, fees |-> "unknown",
   quantity |-> Unsaid, section |-> "", row |-> "", unclear |-> {}, numbered |-> TRUE,
   together |-> "yes", codes |-> {}, standing |-> FALSE, by |-> "early", notes |-> {},
   level |-> "", rows |-> <<>>]

\* A URL as written: the site it leads to, how many redirects carry it, whether it parses, an
\* encoding broken on the way, and the number of the listing in it (0: none).
Url == [site |-> "other", wraps |-> 0, parses |-> TRUE, garbled |-> FALSE, number |-> 0]
\* A link to a marketplace: which one, and the listing.
NoLink == [marketplace |-> "none", number |-> 0, garbled |-> FALSE]

\* What they type of it: a new version, a fee basis, the fees of the order, the total.
NoFix ==
  [replaces |-> FALSE, quantity |-> Unsaid, each |-> Unsaid, fees |-> "unknown",
   total |-> Unsaid, orderFee |-> Unsaid, by |-> ""]

\* What a message sends or says of a listing; which of its rows it names, and what it asks.
Nothing ==
  [page |-> NoListing, urls |-> <<>>, fix |-> NoFix, areas |-> <<>>, price |-> Unsaid,
   forAll |-> FALSE, named |-> <<>>, asks |-> {}]
SentIn(m) == IF m.sends = <<>> THEN Nothing ELSE m.sends[1]

AtMost(n, s) == SubSeq(s, 1, Min({n, Len(s)}))
Share(total, n) == IF Unsaid \in {total, n} THEN Unsaid ELSE (total + n \div 2) \div n
Times(each, n) == IF Unsaid \in {each, n} THEN Unsaid ELSE each * n

-----------------------------------------------------------------------------
(* Links.  A page is never opened: only its URL is read.                   *)

MarketplaceAt ==
  [stubhub |-> "stubhub", ticketmaster |-> "ticketmaster", livenation |-> "ticketmaster",
   seatgeek |-> "seatgeek", vividseats |-> "vividseats", gametime |-> "gametime",
   tickpick |-> "tickpick", axs |-> "axs"]

\* A redirect around a redirect is unwrapped, a third is not; one broken escape spoils no link.
Unwrapped(url) == url.wraps <= 2
ParseLink(url) ==
  IF Unwrapped(url) /\ url.parses /\ url.site \in DOMAIN MarketplaceAt
  THEN [marketplace |-> MarketplaceAt[url.site], number |-> url.number, garbled |-> url.garbled]
  ELSE NoLink
LinksIn(urls) == SelectSeq([i \in DOMAIN urls |-> ParseLink(urls[i])], LAMBDA l : l # NoLink)

\* A shortener or an app's share link names nothing until followed; one may not parse at all.
Unreadable(url) ==
  CASE Unwrapped(url) /\ ~url.parses -> "broken"
    [] Unwrapped(url) /\ url.parses /\ url.site \in {"short", "app"} -> url.site
    [] OTHER -> "none"
\* Said once, in the reply to the message that sent it: the first link that could not be read,
\* and the first read in part.
LinkNotes(urls) ==
  LET unread == SelectSeq(urls, LAMBDA u : Unreadable(u) # "none")
      partly == SelectSeq(LinksIn(urls), LAMBDA l : l.garbled)
  IN  [unread |-> IF unread = <<>> THEN "none" ELSE Unreadable(unread[1]),
       garbled |-> IF partly = <<>> THEN "none" ELSE partly[1].marketplace]

-----------------------------------------------------------------------------
(* What is read.                                                           *)

\* The price a ticket and for all of them, when the page makes them certain; a ticket price
\* below the total's share cannot itself hold the fees.
FieldsFromRead(p) ==
  LET q == IF "quantity" \in p.unclear THEN Unsaid ELSE p.quantity
      each == First(IF p.as = "whole_party" THEN Share(p.price, q) ELSE p.price, Share(p.total, q))
      whole == First(p.total, CASE p.as = "whole_party" -> p.price
                                [] p.as = "per_ticket" -> Times(each, q)
                                [] OTHER -> Unsaid)
      carries == Unsaid \notin {each, whole, q} /\ whole > each * q
  IN  [source |-> p.source, name |-> p.name, date |-> p.date, venue |-> p.venue, city |-> p.city,
       quantity |-> q, each |-> each, whole |-> whole, basis |-> p.as,
       fees |-> IF p.fees = "all_in" /\ carries THEN "before_fees" ELSE p.fees,
       section |-> IF "section" \in p.unclear THEN "" ELSE p.section,
       row |-> IF "row" \in p.unclear THEN "" ELSE p.row,
       numbered |-> p.numbered, together |-> p.together, codes |-> p.codes,
       standing |-> p.standing, by |-> p.by, notes |-> p.notes, level |-> p.level, rows |-> p.rows,
       unclear |-> p.unclear # {}, chosenFor |-> "", area |-> "", excluded |-> {}]

\* Payment screens, tickets already bought and sensitive pages are never kept; a page with
\* nothing to price is never the listing judged.
Usable(p) ==
  /\ p.kept
  /\ \/ {p.price, p.total} # {Unsaid} \/ p.section # ""
     \/ \E i \in DOMAIN p.rows : p.rows[i].each # Unsaid

\* What they say of each area, the latest word on it counting, the last one wanted leading.
AreaIntent(said) ==
  LET latest(i) == \A j \in DOMAIN said : j > i => said[j].area # said[i].area
      settled == SelectSeq([i \in DOMAIN said |-> [at |-> i, is |-> said[i]]],
                           LAMBDA x : latest(x.at))
      wanted == SelectSeq(settled, LAMBDA x : x.is.word = "want")
  IN  [want |-> IF wanted = <<>> THEN "" ELSE Last(wanted).is.area,
       excluded |-> {x.is.area : x \in {y \in ToSet(settled) : y.is.word = "out"}}]

CheapestRow(rows) ==
  rows[CHOOSE i \in DOMAIN rows :
         \A j \in DOMAIN rows : rows[i].each < rows[j].each \/ (rows[i].each = rows[j].each /\ i <= j)]

PricedRows(f) == SelectSeq(f.rows, LAMBDA o : o.each # Unsaid)

\* Of a results page, the row whose price they quote, else the cheapest in the area they want;
\* an area they ruled out only when there is no other.
ChooseShown(f, intent, quoted) ==
  LET all == PricedRows(f)
      allowed == SelectSeq(all, LAMBDA o : o.area \notin intent.excluded)
      rows == IF allowed # <<>> THEN allowed ELSE all
      byQuote == SelectSeq(rows, LAMBDA o : o.each = quoted)
      inArea == SelectSeq(rows, LAMBDA o : o.area # "" /\ o.area = intent.want)
      pick == IF byQuote # <<>> THEN byQuote[1]
              ELSE CheapestRow(IF inArea # <<>> THEN inArea ELSE rows)
      each == pick.basis # "unknown" \/ byQuote # <<>> \/ (Len(all) >= 2 /\ f.quantity # Unsaid)
  IN  IF all = <<>> THEN f
      ELSE [f EXCEPT
        !.section = pick.label, !.row = "", !.numbered = FALSE, !.each = pick.each,
        !.whole = Times(pick.each, f.quantity), !.basis = IF each THEN "per_ticket" ELSE "unknown",
        !.fees = IF pick.fees = "unknown" THEN @ ELSE pick.fees, !.standing = pick.standing,
        !.together = IF pick.standing THEN "unsaid" ELSE @,
        !.chosenFor = IF pick.area # "" /\ pick.area = intent.want THEN pick.area ELSE "",
        !.area = pick.area, !.excluded = intent.excluded]

\* What they typed since it was read wins over the read.  A new version of the numbers keeps
\* the old total unless a total or the fees of the order come with it.
Correct(f, w) ==
  LET q == IF w.replaces THEN First(w.quantity, f.quantity) ELSE f.quantity
      anew == w.replaces /\ w.each \notin {Unsaid, f.each}
      filled == f.each = Unsaid /\ w.each # Unsaid /\ ~w.replaces
      each == IF anew \/ filled THEN w.each ELSE f.each
  IN  [f EXCEPT
        !.quantity = q, !.each = each,
        !.fees = IF anew \/ (w.fees # "unknown" /\ w.each # Unsaid /\ w.each = each) THEN w.fees ELSE @,
        !.basis = IF filled THEN "per_ticket" ELSE @,
        !.whole = CASE w.total \notin {Unsaid, f.whole} -> w.total
                    [] w.total = Unsaid /\ w.orderFee # Unsaid /\ Unsaid \notin {each, q} ->
                         each * q + w.orderFee
                    [] OTHER -> IF filled /\ q # Unsaid THEN each * q ELSE @,
        !.by = IF w.by = "" THEN @ ELSE w.by]

\* "$220 for both", answering our question about the price it showed.
ForParty(f, brief, party) ==
  IF f.basis = "unknown" /\ brief.forAll /\ brief.price # Unsaid /\ brief.price = f.each
  THEN [f EXCEPT !.basis = "whole_party", !.whole = brief.price,
                 !.each = Share(brief.price, First(f.quantity, party))]
  ELSE f

-----------------------------------------------------------------------------
(* The resale data.                                                        *)

\* An item of the data, if it can be used: a price, a whole number of tickets, still for sale.
ToMarket(raw) == SelectSeq(raw, LAMBDA l : l.active /\ l.price > 0 /\ l.quantity > 0)
Inactive(raw) == SelectSeq(raw, LAMBDA l : ~l.active /\ l.price > 0 /\ l.quantity > 0)

\* "obstructed" or "apart", from the data's own note; "" when it says neither.
Drawback(l) == l.note

NoItem == [number |-> 0]

\* Found by its own number, on its own marketplace; where the data names none, only if no
\* other listing has that number.
MatchLinked(listings, link) ==
  LET same == SelectSeq(listings, LAMBDA l : l.number = link.number)
      named == SelectSeq(same, LAMBDA l : l.marketplace = link.marketplace)
  IN  IF link.number = 0 \/ link.marketplace \notin {"stubhub", "vividseats"} THEN NoItem
      ELSE IF Len(named) = 1 THEN named[1]
      ELSE IF Len(same) = 1 /\ same[1].marketplace = "" THEN same[1] ELSE NoItem

\* A listed price before fees; one with tickets enough is taken as one for their party.
LinkedSubject(l, party) ==
  [FieldsFromRead([Page EXCEPT !.source = "link_match", !.name = "unsaid", !.date = "unsaid",
                    !.venue = "unsaid", !.city = "unsaid", !.numbered = FALSE,
                    !.together = "unsaid", !.by = "unsaid"]) EXCEPT
    !.quantity = Min({l.quantity, party}), !.each = l.price, !.fees = "before_fees",
    !.section = l.section, !.row = l.row]

\* What became of looking a link up.
Lookup(raw, link, gated) ==
  CASE link.number = 0 -> "none"
    [] link.number # 0 /\ (gated \/ link.marketplace \notin {"stubhub", "vividseats"}) ->
         "not_looked_up"
    [] OTHER -> IF MatchLinked(ToMarket(raw), link) # NoItem THEN "found"
                ELSE IF MatchLinked(Inactive(raw), link) # NoItem THEN "gone" ELSE "not_found"

\* It may be the very same seats: section and row never prove that it is, nor that it is not.
SameSeatsMaybe(l, sub) == sub.section # "" /\ sub.row # "" /\ l.section = sub.section /\ l.row = sub.row
ZoneOf(listings, fits, sub) ==
  LET there(ls) == AtMost(1, SelectSeq(ls, LAMBDA l : l.section = sub.section))
      known == SelectSeq(there(fits) \o there(listings), LAMBDA l : l.zone # "")
  IN  IF sub.section = "" \/ known = <<>> THEN "" ELSE known[1].zone
Near(l, sub, zone) ==
  sub.section = "" \/ l.section = sub.section \/ (zone # "" /\ l.zone = zone)

\* Listings for the party cheaper than theirs: one in their section, one in the rest of its
\* zone, each the cheapest the data does not fault; and how many were like for like.
Around(listings, sub, party) ==
  LET fits == SelectSeq(listings, LAMBDA l : l.quantity >= party)
      zone == ZoneOf(listings, fits, sub)
      others == {l \in ToSet(fits) : ~SameSeatsMaybe(l, sub)}
      cheaper == {l \in others : l.price < sub.each}
      clean(S) == {l \in S : Drawback(l) = ""}
      best(S) == CHOOSE l \in S : \A x \in S : l.price <= x.price
      pick(S) == IF S = {} THEN <<>> ELSE <<best(IF clean(S) # {} THEN clean(S) ELSE S)>>
      near == {l \in others : Near(l, sub, zone)}
  IN  [zone |-> zone, nearby |-> Cardinality(near),
       lowest |-> IF near = {} THEN Unsaid ELSE best(near).price,
       picks |-> pick({l \in cheaper : sub.section # "" /\ l.section = sub.section})
                 \o pick({l \in cheaper : zone # "" /\ l.zone = zone /\ l.section # sub.section})]

-----------------------------------------------------------------------------
(* Seats for a party that sent nothing to judge.                           *)

\* A seller rarely leaves one ticket.
ExactSplit(l, party) == l.quantity = party \/ l.quantity - party >= 2
Estimate(listed, allowance) == (listed * (100 + allowance) + 50) \div 100

\* "Cheapest is fine" takes any, "the best view" goes by level and row where the data places
\* them, else by price, those that sell as their number first.
PickBefore(goal, party, a, b, at) ==
  LET exact(l) == IF ExactSplit(l, party) THEN 0 ELSE 1
      key(l) == IF goal = "view"
                THEN <<IF l.view = Unsaid THEN 9 ELSE l.view, l.nth, l.price, at[l]>>
                ELSE <<l.price, exact(l), 0, at[l]>>
  IN  \E i \in 1 .. 4 : key(a)[i] < key(b)[i] /\ \A j \in 1 .. i - 1 : key(a)[j] = key(b)[j]

NoPicks == [picks |-> <<>>, fits |-> FALSE, unsplit |-> NoItem, by |-> "none"]
\* One choice for a section, row and price, however many listings carry it.
Distinct(ranked) ==
  LET same(a, b) == a.section = b.section /\ a.row = b.row /\ a.price = b.price
      shown == SelectSeq([i \in DOMAIN ranked |-> [at |-> i, is |-> ranked[i]]],
                         LAMBDA x : \A j \in 1 .. x.at - 1 : ~same(ranked[j], x.is))
  IN  [i \in DOMAIN shown |-> Last(SelectSeq(ranked, LAMBDA l : same(l, shown[i].is)))]

\* want: [budget, beforeFees: given before fees, goal, allowance: the fee estimate in percent].
PickListings(listings, party, want) ==
  LET all == SelectSeq(listings, LAMBDA l : l.quantity >= party)
      at == [l \in ToSet(all) |-> CHOOSE i \in DOMAIN all : all[i] = l]
      cost(l) == IF want.beforeFees THEN l.price * party ELSE Estimate(l.price * party, want.allowance)
      within == {l \in ToSet(all) : want.budget = Unsaid \/ cost(l) <= want.budget}
      exact(S) == {l \in S : ExactSplit(l, party)}
      sellable == IF exact(within) # {} THEN exact(within) ELSE within
      goal == IF want.goal = "view" /\ \A l \in sellable : l.view = Unsaid THEN "value" ELSE want.goal
      ranked(S, by) == Sorted(S, LAMBDA a, b : PickBefore(by, party, a, b, at))
      picks == Distinct(ranked(IF goal = "price" THEN within ELSE sellable, goal))
      left == {l \in within : ~ExactSplit(l, party) /\ picks # <<>> /\ l.price < picks[1].price}
  IN  IF all = <<>> THEN NoPicks
      ELSE IF within = {}
      THEN [picks |-> AtMost(1, ranked(ToSet(all), "value")), fits |-> FALSE, unsplit |-> NoItem,
            by |-> "value"]
      ELSE [picks |-> AtMost(3, picks), fits |-> TRUE, by |-> goal,
            unsplit |-> IF goal # "value" \/ left = {} THEN NoItem ELSE ranked(left, "value")[1]]

-----------------------------------------------------------------------------
(* The listing judged, from the messages of the thread.                    *)

\* The price they last gave for a ticket, or for all of them.
BriefOf(messages) ==
  LET said == SelectSeq(messages, LAMBDA m : SentIn(m).price # Unsaid)
  IN  IF said = <<>> THEN [price |-> Unsaid, forAll |-> FALSE]
      ELSE [price |-> SentIn(Last(said)).price, forAll |-> SentIn(Last(said)).forAll]

AreasSaid(messages) == FlattenSeq([n \in DOMAIN messages |-> SentIn(messages[n]).areas])

\* The newest page of the thread with something to price, unless this message is about
\* something else; what they typed of it counts while it is the newest message.
ReadOf(messages, brief) ==
  LET at == {n \in DOMAIN messages : SentIn(messages[n]).page # NoListing
                                     /\ Usable(SentIn(messages[n]).page)}
      read(n) == ChooseShown(FieldsFromRead(SentIn(messages[n]).page), AreaIntent(AreasSaid(messages)),
                             brief.price)
      newest == Max(at)
  IN  IF at = {} \/ (Last(messages).elsewhere /\ newest # Len(messages)) THEN NoListing
      ELSE IF newest = Len(messages) THEN read(newest)
      ELSE Correct(read(newest), SentIn(Last(messages)).fix)

\* The newest link, looked up when there is no page to judge.
LinkOf(messages) ==
  LET sent == LinksIn(FlattenSeq([n \in DOMAIN messages |-> SentIn(messages[n]).urls]))
  IN  IF sent = <<>> THEN NoLink ELSE Last(sent)
LinkedOf(link, market, party) ==
  IF Lookup(market.raw, link, market.gated) = "found"
  THEN LinkedSubject(MatchLinked(ToMarket(market.raw), link), party) ELSE NoListing

SubjectFrom(read, link, market, brief, party) ==
  LET sub == IF read # NoListing THEN read ELSE LinkedOf(link, market, party)
  IN  IF sub = NoListing THEN sub ELSE ForParty(sub, brief, party)
SubjectOf(messages, market, party) ==
  SubjectFrom(ReadOf(messages, BriefOf(messages)), LinkOf(messages), market, BriefOf(messages), party)

\* One price for it: a total that carries fees on top of the ticket price is compared as its
\* all-in share.
QuoteOf(sub, brief, party) ==
  LET n == First(sub.quantity, party)
      carries == sub.whole # Unsaid /\ sub.whole > sub.each * n
  IN  IF sub = NoListing \/ sub.each = Unsaid
      THEN [each |-> IF brief.forAll THEN Share(brief.price, party) ELSE brief.price,
            fees |-> "unknown"]
      ELSE IF carries THEN [each |-> Share(sub.whole, n), fees |-> "all_in"]
      ELSE [each |-> sub.each, fees |-> sub.fees]

-----------------------------------------------------------------------------
(* What is wrong with it.                                                  *)

\* Where the listing names another performer, day, venue or city than the event.  A name in
\* two alphabets, or nearly the event's on its own date, is a slip of the reading.
WrongEvent(sub) ==
  LET misread == sub.name = "mixed" \/ (sub.name = "near" /\ sub.venue # "other" /\ sub.date = "same")
  IN  {part \in {"artist", "date", "venue", "city"} :
        \/ part = "artist" /\ sub.name \notin {"unsaid", "same"} /\ ~misread
        \/ part = "date" /\ sub.date = "other"
        \/ part = "venue" /\ sub.venue = "other"
        \/ part = "city" /\ sub.city = "other"}

Over(sub, asked) == Unsaid \notin {asked.budget, sub.whole} /\ sub.whole > asked.budget
ForOthers(sub, asked) == "accessible_seating" \in sub.codes /\ ~asked.access

\* Reasons not to buy it as it stands.
Problems(sub, asked) ==
  WrongEvent(sub) \cup
  {p \in {"too_few", "accessible", "apart", "budget"} :
    \/ p = "too_few" /\ sub.quantity # Unsaid /\ sub.quantity < asked.party
    \/ p = "accessible" /\ ForOthers(sub, asked)
    \/ p = "apart" /\ sub.together = "no" /\ asked.together
    \/ p = "budget" /\ Over(sub, asked)}

\* What to check before paying, most material first: facts of the listing and gaps in it.
CatchOrder ==
  << "artist", "date", "venue", "city", "count", "budget", "accessible", "apart",
     "together_unsaid", "fees_unsaid", "fees_in_total", "fees_extra", "tight", "delivery_unsaid",
     "obstructed", "seats_unsaid", "notes", "extras", "unread" >>
Gaps ==
  {"together_unsaid", "fees_unsaid", "fees_in_total", "fees_extra", "delivery_unsaid",
   "seats_unsaid", "notes", "extras", "unread"}
Caught(sub, asked) ==
  LET seated == asked.party > 1 /\ First(sub.quantity, asked.party) > 1 /\ ~sub.standing
      carries == /\ Unsaid \notin {sub.whole, sub.each}
                 /\ sub.whole > sub.each * First(sub.quantity, asked.party)
      holds(c) ==
        CASE c = "count" -> sub.quantity \notin {Unsaid, asked.party}
          [] c = "budget" -> Over(sub, asked)
          [] c = "accessible" -> ForOthers(sub, asked)
          [] c = "apart" -> seated /\ sub.together = "no"
          [] c = "together_unsaid" -> seated /\ sub.together = "unsaid"
          [] c = "fees_unsaid" -> sub.fees = "unknown"
          [] c = "fees_in_total" -> sub.fees = "before_fees" /\ carries
          [] c = "fees_extra" -> sub.fees = "before_fees" /\ ~carries /\ sub.source # "link_match"
          [] c = "tight" -> sub.by = "late"
          [] c = "delivery_unsaid" -> sub.by = "unsaid"
          [] c = "obstructed" -> "obstructed_view" \in sub.codes
          [] c = "seats_unsaid" -> sub.section # "" /\ ~sub.numbered /\ ~sub.standing
          [] c \in {"notes", "extras"} -> c \in sub.notes
          [] c = "unread" -> sub.unclear
          [] OTHER -> c \in WrongEvent(sub)
  IN  SelectSeq(CatchOrder, holds)
\* One of the five most material: a problem it shows, before the reason already given against
\* it, before a detail left out.
TheCatch(sub, asked) ==
  LET five == AtMost(5, Caught(sub, asked))
      rank(c) == IF c \in Gaps THEN 2 ELSE IF c \in {"count", "budget"} THEN 1 ELSE 0
      ranked(r) == SelectSeq(five, LAMBDA c : rank(c) = r)
      order == ranked(0) \o ranked(1) \o ranked(2)
  IN  IF order = <<>> THEN "none" ELSE order[1]

-----------------------------------------------------------------------------
(* How it stands.                                                          *)

NoAround == [zone |-> "", nearby |-> 0, lowest |-> Unsaid, picks |-> <<>>]
AroundOf(sub, market, party) ==
  IF market.tracked /\ sub.each # Unsaid THEN Around(ToMarket(market.raw), sub, party) ELSE NoAround

\* A fault theirs has too is no worse.
Worse(l, sub) ==
  /\ Drawback(l) # ""
  /\ ~(Drawback(l) = "obstructed" /\ "obstructed_view" \in sub.codes)
  /\ ~(Drawback(l) = "apart" /\ sub.together = "no")
MarketAlternative(sub, market, around) ==
  LET alike == SelectSeq(around.picks, LAMBDA l : ~Worse(l, sub))
  IN  IF ~market.visible \/ around.picks = <<>> THEN NoItem
      ELSE IF alike # <<>> THEN alike[1] ELSE around.picks[1]

\* How far under an all-in price a listing before fees must be to count as cheaper.
FeeMargin(each) == Max({10, (each + 2) \div 5})
NothingCheaper(sub, around) ==
  /\ around.nearby > 0
  /\ \/ around.lowest >= sub.each
     \/ sub.fees = "all_in" /\ sub.each - around.lowest < FeeMargin(sub.each)

\* What I would do, first.  A saving is only ever between two totals on one basis.
VerdictCode(sub, asked, market, around, quote) ==
  LET alt == MarketAlternative(sub, market, around)
      allIn == sub.fees = "all_in" /\ sub.whole # Unsaid
      flawed == {o \in market.leftOut : o.total # Unsaid /\ o.total < sub.whole
                                        /\ o.quantity = asked.party /\ o.flaw \in {"obstructed", "apart"}}
  IN  IF Problems(sub, asked) # {}
      THEN IF market.best # Unsaid /\ (asked.budget = Unsaid \/ market.best <= asked.budget)
           THEN "hard_problem_verified_fits" ELSE "hard_problem"
      ELSE IF sub.each = Unsaid THEN "unreadable"
      ELSE IF allIn /\ market.best # Unsaid /\ market.best < sub.whole THEN "verified_cheaper"
      ELSE IF alt # NoItem THEN IF Worse(alt, sub) THEN "keep_yours" ELSE "choose_alternative"
      ELSE IF allIn /\ flawed # {} THEN "keep_yours"
      ELSE IF market.visible /\ NothingCheaper(sub, around) THEN "stick_with_yours"
      ELSE IF market.visible /\ market.floor # Unsaid
      THEN IF quote.each < market.floor THEN "price_below" ELSE "price_above"
      ELSE "no_market"

\* Beside the other rows of its own page, a floor of the whole venue is no comparison.
FromRows(sub) == Len(sub.rows) >= 2 /\ sub.each # Unsaid
FloorSaid(sub, code) == code \in {"price_below", "price_above"} /\ ~FromRows(sub)

\* The listing chosen over theirs, pointed to; and that nothing was checked, where that still
\* adds something.
Pointed(sub, market, around, code) ==
  IF code # "choose_alternative" THEN NoItem ELSE MarketAlternative(sub, market, around)
NothingVerified(sub, market, code) ==
  /\ market.best = Unsaid /\ ~FromRows(sub)
  /\ code \in {"hard_problem", "no_market", "price_above", "price_below"}
  /\ market.visible \/ market.leftOut # {}

-----------------------------------------------------------------------------
(* Questions about the page, and about seats.                              *)

\* Of two rows they name, the cheaper; 0 when neither is.
CheaperOf(rows, named) ==
  IF Len(named) < 2 \/ rows[named[1]].each = rows[named[2]].each THEN 0
  ELSE IF rows[named[1]].each < rows[named[2]].each THEN named[1] ELSE named[2]
\* What they can afford of the rows they name, else of those in their area, else of all.
Affordable(rows, named, want, party, budget) ==
  LET all == 1 .. Len(rows)
      there == {i \in all : want # "" /\ rows[i].area = want}
      pool == IF named # {} THEN named ELSE IF there # {} THEN there ELSE all
  IN  {i \in pool : budget # Unsaid /\ rows[i].each * party <= budget}
\* "The floor option", else "the cheapest option", with what the cheapest of another area costs.
RowLead(sub) ==
  LET elsewhere == SelectSeq(PricedRows(sub),
                             LAMBDA o : o.area # sub.area /\ o.area \notin sub.excluded)
  IN  IF ~FromRows(sub) THEN [is |-> "none", gap |-> 0]
      ELSE [is |-> IF sub.chosenFor = "" THEN "cheapest" ELSE sub.chosenFor,
            gap |-> IF elsewhere = <<>> THEN 0 ELSE CheapestRow(elsewhere).each - sub.each]

\* "Are these good seats?": their level first, then their price against the checked offers.
SeatsSaid(seat, others) ==
  LET alike == {o \in others : o.zone = seat.zone
                  /\ ~(o.section = seat.section /\ seat.total \in {Unsaid, o.total})}
      cheaper == seat.total # Unsaid /\ \E o \in alike : o.total < seat.total
  IN  CASE seat.zone = "" -> "nothing"
        [] seat.zone = "lower" -> IF cheaper THEN "good_not_best_price" ELSE "good"
        [] seat.zone = "mezzanine" -> "solid"
        [] OTHER -> IF cheaper THEN "not_great_not_cheapest"
                    ELSE IF seat.total # Unsaid THEN "good_value" ELSE "not_great"
\* Where the venue's plan, or the page, puts them, and what they cost the party.
SeatOf(sub, quote, market, party) ==
  LET placed == {o \in market.checked : o.section = sub.section}
      theirs == {o \in placed : o.row = sub.row \/ sub.row = ""}
      one(S) == CHOOSE o \in S : \A x \in S : o.total <= x.total
  IN  [section |-> sub.section,
       zone |-> IF placed # {} THEN one(placed).zone ELSE sub.level,
       total |-> IF theirs # {} THEN one(theirs).total ELSE Times(quote.each, party)]

\* What their message asks of the listing.
NoAnswers == [cheaper |-> 0, afford |-> {}, lead |-> [is |-> "none", gap |-> 0], seats |-> "none"]
AnswersTo(m, sub, want, asked, market, quote) ==
  [cheaper |-> IF "cheaper" \in m.asks THEN CheaperOf(PricedRows(sub), m.named) ELSE 0,
   afford |-> IF "afford" \notin m.asks THEN {}
              ELSE Affordable(PricedRows(sub), ToSet(m.named), want,
                              First(sub.quantity, asked.party), asked.budget),
   lead |-> RowLead(sub),
   seats |-> IF "seats" \in m.asks /\ sub.section # ""
             THEN SeatsSaid(SeatOf(sub, quote, market, asked.party), market.checked) ELSE "none"]

-----------------------------------------------------------------------------
(* What is shown for a thread.                                             *)

NotShown ==
  [sub |-> NoListing, around |-> NoAround, quote |-> [each |-> Unsaid, fees |-> "unknown"],
   code |-> "none", catch |-> "none", answers |-> NoAnswers, pointed |-> NoItem,
   unverified |-> FALSE, floor |-> FALSE, picks |-> NoPicks,
   links |-> LinkNotes(<<>>)]
ShownWith(sub, around, quote, answers, code, market, asked) ==
  [sub |-> sub, around |-> around, quote |-> quote, code |-> code,
   catch |-> TheCatch(sub, asked), answers |-> answers,
   pointed |-> Pointed(sub, market, around, code),
   unverified |-> NothingVerified(sub, market, code), floor |-> FloorSaid(sub, code),
   picks |-> NoPicks, links |-> LinkNotes(<<>>)]
ShownFrom(sub, messages, asked, market, around, quote) ==
  ShownWith(sub, around, quote,
            AnswersTo(SentIn(Last(messages)), sub, AreaIntent(AreasSaid(messages)).want, asked,
                      market, quote),
            VerdictCode(sub, asked, market, around, quote), market, asked)
\* With nothing of theirs to judge and nothing checked, seats are named from the same data.
PicksFor(link, asked, market) ==
  IF link.number # 0 \/ market.best # Unsaid \/ ~market.tracked \/ ~market.visible THEN NotShown
  ELSE [NotShown EXCEPT !.picks =
          PickListings(ToMarket(market.raw), asked.party,
                       [budget |-> asked.budget, goal |-> market.goal,
                        beforeFees |-> market.beforeFees, allowance |-> market.allowance])]
ShownOf(sub, messages, asked, market) ==
  IF sub = NoListing THEN PicksFor(LinkOf(messages), asked, market)
  ELSE ShownFrom(sub, messages, asked, market, AroundOf(sub, market, asked.party),
                 QuoteOf(sub, BriefOf(messages), asked.party))
Shown(messages, asked, market) ==
  [ShownOf(SubjectOf(messages, market, asked.party), messages, asked, market) EXCEPT
     !.links = LinkNotes(SentIn(Last(messages)).urls)]
=============================================================================
