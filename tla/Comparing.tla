------------------------------- MODULE Comparing -------------------------------
(***************************************************************************)
(* A thread about offers the customer laid out: each message is read with  *)
(* the ones before it, and answered by a comparison or, where its counts   *)
(* do not add up, by a question (answerSupplied and the research of their  *)
(* listings in lib/intake/pipeline.ts).                                    *)
(*                                                                         *)
(* Where no offers are judged, the listing they showed is, or seats are    *)
(* named for them.  A message about none of it goes the way of any other   *)
(* (Resolution and Advice), and leaves the thread as it is here.           *)
(***************************************************************************)
EXTENDS Listings

\* [lines: what they may write, length, concert, matched: an event on file, venue: its zone,
\*  quantity, misread: an amount taken for their budget, access, clear, together,
\*  market: what the resale data and the checked offers are].
CONSTANT Talks

\* [about: one of Talks, said: the messages so far, judged: the offers of the last comparison,
\*  shown: what is advised of the listing they showed, state: of its request].
VARIABLE talk

NotJudged == [offers |-> <<>>, typed |-> TRUE]
NoTalk == [about |-> [lines |-> {}, length |-> 0], said |-> <<>>, judged |-> NotJudged,
           shown |-> NotShown, state |-> "none"]
TalkInit ==
  talk \in [about : Talks, said : {<<>>}, judged : {NotJudged}, shown : {NotShown},
            state : {"interpreting"}]

\* The amount they gave as their limit, for the whole party; a price they saw is none.
BudgetOf(about, messages, party) ==
  LET capped == SelectSeq(messages, LAMBDA m : m.says.cap # Unsaid)
      w == Last(capped).says
      typed == FlattenSeq([i \in DOMAIN messages |->
                             OffersInText(messages[i], about.venue, FALSE)])
      seen(o) == {o.total, o.each} \cup
                 (IF Unsaid \in {o.each, o.quantity} THEN {} ELSE {o.each * o.quantity})
  IN  IF capped # <<>> THEN IF w.capEach THEN w.cap * party ELSE w.cap
      ELSE IF \E i \in DOMAIN typed : about.misread \in seen(typed[i]) THEN Unsaid
      ELSE about.misread

\* What the party asks of any offer, from the whole thread.
AskedOf(about, messages, offers, terms, party) ==
  [terms |-> terms, party |-> party, night |-> NightTiming(messages),
   concert |-> about.concert, access |-> about.access, clear |-> about.clear,
   together |-> about.together, budget |-> BudgetOf(about, messages, party),
   typed |-> \E i \in DOMAIN offers : offers[i].kind # "unknown"]
\* What the request asks of a listing they show.
ShowAsked(about, messages) ==
  [party |-> about.quantity, access |-> about.access, together |-> about.together,
   budget |-> BudgetOf(about, messages, about.quantity)]
AskedBy(about, messages, offers, terms) ==
  AskedOf(about, messages, offers, terms,
          First(terms.toBuy, First(terms.attendees, about.quantity)))
Asked(about, messages, offers) ==
  AskedBy(about, messages, offers, PartyTerms(messages, about.venue))

\* The listings of the newest message that sent any, unless this one is about something else.
ReadOffers(messages, venue) ==
  LET sent == SelectSeq(messages, LAMBDA m : m.reads # <<>>)
      reads == IF Last(messages).elsewhere \/ sent = <<>> THEN Last(messages).reads
               ELSE Last(sent).reads
  IN  OffersFromReads(reads, venue)

\* The offers a message is about: those they typed, before those read from what they sent.
JudgedOf(about, messages, supplied) ==
  IF Len(supplied.offers) >= 2 \/ supplied.aside # {} \/ ~about.matched
  THEN [offers |-> supplied.offers, typed |-> TRUE]
  ELSE [offers |-> ReadOffers(messages, about.venue), typed |-> FALSE]
Judged(about, messages, continuing) ==
  JudgedOf(about, messages, SuppliedOffers(messages, about.venue, about.concert, continuing))

\* Without an event, or for a concert, intake answers; else research does, in its packet.
StateAfter(about, messages, offers, shown) ==
  IF offers = <<>> THEN IF shown.sub = NoListing /\ shown.picks = NoPicks THEN "elsewhere" ELSE "in_packet"
  ELSE IF about.matched /\ ~about.concert THEN "in_packet"
  ELSE IF PartyTerms(messages, about.venue).conflict THEN "needs_clarification"
  ELSE "recommendation_sent"

\* The listing they showed is judged where no offers are.
ShownTo(about, messages, offers) ==
  IF offers # <<>> \/ ~about.matched THEN NotShown
  ELSE Shown(messages, ShowAsked(about, messages), about.market)

Compare ==
  /\ Len(talk.said) < talk.about.length
  /\ \E m \in talk.about.lines :
       \E said \in {Append(talk.said, m)} :
         \E judged \in {Judged(talk.about, said, talk.state = "needs_clarification")} :
           \E shown \in {ShownTo(talk.about, said, judged.offers)} :
             talk' = [talk EXCEPT !.said = said, !.judged = judged, !.shown = shown,
                                  !.state = StateAfter(talk.about, said, judged.offers, shown)]

-----------------------------------------------------------------------------
(* What a comparison promises.                                             *)

Compares == talk.state \in {"in_packet", "recommendation_sent"}

\* The offers of the thread's messages that are this one, with the message each is from.
Quotes(o, messages, venue) ==
  UNION {{[at |-> n, offer |-> u] :
            u \in {x \in ToSet(OffersInText(messages[n], venue, TRUE)) :
                     SameOffer(x, o) \/ (o.kind = "package" /\ x.label = TheBundle)}} :
           n \in DOMAIN messages}

\* The fees in a total were given with the price it starts from, or after: none is left from a
\* price the seller has changed since (mergeOffer, offerTotal).
Since(quotes, amount) ==
  {q.offer : q \in {x \in quotes :
     \A y \in quotes : AmountOf(y.offer) \notin {Unsaid, amount} => y.at < x.at}}
FeesGiven(o, since) ==
  /\ o.orderFee = Unsaid \/ \E u \in since : u.orderFee = o.orderFee
  /\ o.ticketFee = Unsaid \/ \E u \in since : u.ticketFee = o.ticketFee
  /\ o.fees = "all_in" => \E u \in since : u.fees = "all_in"
\* The price is the last they gave of it; "the bundle" may be it, or another.
LastPriceGiven(o, quotes) ==
  LET priced == {q \in quotes : AmountOf(q.offer) # Unsaid}
      own == {q \in priced : q.offer.label # TheBundle}
      latest == {q \in priced : \A x \in own : x.at <= q.at}
  IN  own # {} => \E q \in latest : AmountOf(q.offer) \in {o.total, o.each}
\* A total is closed only by words that nothing else is charged, said of this offer or of all.
ClosedByWords(o, quotes, messages) ==
  o.closed => \E n \in DOMAIN messages :
    \/ messages[n].closing \in {"first", "all"}
    \/ /\ \E q \in quotes : q.at = n
       /\ \/ messages[n].closing = "here"
          \/ \E x \in ToSet(messages[n].mentions) : x.facts.closed
\* The record of concert tickets keeps what was said of fees under a new price
\* (mergeConcertOffers): there a fee is only known to be one they gave of that offer.
QuotedAs(o, quotes, messages, concert) ==
  /\ FeesGiven(o, IF concert THEN {q.offer : q \in quotes} ELSE Since(quotes, AmountOf(o)))
  /\ LastPriceGiven(o, quotes)
  /\ ClosedByWords(o, quotes, messages)
PriceOfOneQuote(o, messages, about) ==
  QuotedAs(o, Quotes(o, messages, about.venue), messages, about.concert)

\* The one named meets the last deadline, limit and day they gave, whatever was said in
\* between, and costs no more than another that does, but for the tier they put first.
MeetsTheirWord(claim, rows, messages, asked) ==
  LET r == claim.best
      said(f, none) == SelectSeq(messages, LAMBDA m : m.says[f] # none)
      last(f, none) == Last(said(f, none)).says
  IN  /\ said("deadline", Unsaid) # <<>> =>
           r.offer.arrives # Unsaid /\ r.offer.arrives <= asked.terms.deadline
      /\ said("cap", Unsaid) # <<>> /\ ~last("cap", Unsaid).capEach =>
           r.cents <= last("cap", Unsaid).cap
      /\ said("day", "unsaid") # <<>> => last("day", "unsaid").day \notin r.offer.notDays
      /\ \A i \in DOMAIN rows :
           FitsNow(rows[i]) /\ rows[i].cents < r.cents => r.offer.tier = asked.terms.priority

\* What it says would make another offer the better one, or make one fit, would.
WouldDo(claim, asked) ==
  /\ \A t \in claim.thresholds :
       LET paid == [t.offer EXCEPT !.orderFee = Zero(@) + t.below - 1, !.closed = TRUE]
       IN  t.below > 0 => /\ FitsNow(Row(paid, asked))
                          /\ Row(paid, asked).cents = claim.best.cents - 1
  /\ claim.change = "budget" =>
       FitsNow(Row(claim.other.offer, [asked EXCEPT !.budget = claim.other.cents]))
  /\ claim.change = "extra" =>
       FitsNow(Row(claim.other.offer, [asked EXCEPT !.terms.extra = "allowed",
                                         !.terms.most = claim.other.tickets]))

ClaimHolds(claim, rows, asked) ==
  /\ claim.kind \in {"alone", "worth_it", "straightforward", "pick"} =>
       MeetsTheirWord(claim, rows, talk.said, asked)
  /\ WouldDo(claim, asked)
ComparisonHolds(offers, asked) ==
  ClaimHolds(OffersClaim(offers, asked), Rows(offers, asked), asked)

\* The usable listings of the data for their party beside theirs: in its section or its zone,
\* or anywhere when it names none, and not possibly the same seats.
Seating(market, party) ==
  {l \in ToSet(market.raw) : l.active /\ l.price > 0 /\ l.quantity > 0 /\ l.quantity >= party}
Alike(sub, market, party) ==
  {l \in Seating(market, party) :
     /\ ~(sub.section # "" /\ sub.row # "" /\ l.section = sub.section /\ l.row = sub.row)
     /\ \/ sub.section \in {"", l.section}
        \/ l.zone # "" /\ \E x \in ToSet(market.raw) : x.section = sub.section /\ x.zone = l.zone}
Shares(l, sub) ==
  \/ l.note = ""
  \/ l.note = "obstructed" /\ "obstructed_view" \in sub.codes
  \/ l.note = "apart" /\ sub.together = "no"

\* "Stick with yours": nothing alike is cheaper by more than fees could close.  The one chosen
\* instead is alike, cheaper, and has no fault theirs has not.  "Keep yours": what is cheaper is
\* faulted.  No listing alike and cheaper is left unsaid for the venue's floor.  And with an all-in total of theirs, no checked total is below it.
StandsAgainst(s, alike, market) ==
  LET cheaper == {l \in alike : l.price < s.sub.each}
  IN  /\ s.code = "stick_with_yours" =>
           /\ alike # {}
           /\ \A l \in cheaper : s.sub.fees = "all_in" /\ s.sub.each - l.price < FeeMargin(s.sub.each)
      /\ s.pointed # NoItem => s.pointed \in cheaper /\ Shares(s.pointed, s.sub)
      /\ s.code = "keep_yours" /\ s.around.picks # <<>> => \A l \in cheaper : l.note # ""
      /\ s.code \in {"price_below", "price_above", "no_market"} /\ market.visible =>
           s.sub.section = "" \/ cheaper = {}
      /\ s.code \in {"stick_with_yours", "keep_yours", "choose_alternative"} /\ market.best # Unsaid =>
           s.sub.fees # "all_in" \/ s.sub.whole = Unsaid \/ market.best >= s.sub.whole
      /\ s.answers.seats \in {"good", "good_value"} =>
           \A o \in market.checked : o.zone = SeatOf(s.sub, s.quote, market, 2).zone
                                     /\ o.section # s.sub.section => o.total >= Times(s.quote.each, 2)

\* A page says what it says: its price is one ticket's or its share of the whole, a row they
\* ruled out is not the one judged, and the cheapest is called so.
ReadAsSent(s, sent) ==
  LET rows == ToSet(PricedRows(s.sub))
      n == s.sub.quantity
  IN  /\ s.quote.fees = "all_in" /\ Unsaid \notin {s.sub.whole, n} /\ sent.page # NoListing =>
           s.quote.each * n \in (s.sub.whole - n) .. (s.sub.whole + n)
      /\ FromRows(s.sub) =>
           /\ s.sub.area \in s.sub.excluded => \A o \in rows : o.area \in s.sub.excluded
           /\ s.answers.lead.is = "cheapest" /\ BriefOf(talk.said).price = Unsaid =>
                \A o \in rows : o.each >= s.sub.each \/ o.area \in s.sub.excluded
           /\ \A i \in s.answers.afford :
                PricedRows(s.sub)[i].each * First(n, talk.about.quantity)
                  <= ShowAsked(talk.about, talk.said).budget

\* What they type of the page they sent before is what is judged: the price and the count of a
\* new version, a total, and the fees of the order on top of the tickets.  Only the message
\* being answered counts: the code forgets a correction at the next one (see README).
TypedIsJudged(s, sent, brief) ==
  s.sub.source = "screenshot" /\ sent.page = NoListing /\ ~brief.forAll =>
    /\ sent.fix.replaces =>
         /\ sent.fix.each \in {Unsaid, s.sub.each}
         /\ sent.fix.quantity \in {Unsaid, s.sub.quantity}
    /\ sent.fix.total \in {Unsaid, s.sub.whole}
    /\ sent.fix.orderFee > 0 /\ sent.fix.total = Unsaid
          /\ Unsaid \notin {s.sub.each, s.sub.quantity} =>
         s.quote.each * s.sub.quantity > s.sub.each * s.sub.quantity

\* A listing looked up is the one of the last link they sent to any marketplace, by its number and
\* marketplace; one that does not parse, or leads elsewhere, is none (ticketLinksIn, findLinkedListing).
LinkedIsTheirs(s, urls, market) ==
  LET leads(u) == u.parses /\ u.wraps \in 0 .. 2 /\ u.site \notin {"short", "app", "other"}
      newest == {n \in DOMAIN urls : leads(urls[n]) /\ \A k \in DOMAIN urls : k > n => ~leads(urls[k])}
  IN  s.sub.source = "link_match" =>
        /\ ~market.gated
        /\ \E n \in newest, l \in ToSet(market.raw) :
             /\ l.active /\ l.number = urls[n].number /\ l.price = s.sub.each
             /\ \/ l.marketplace = urls[n].site
                \/ l.marketplace = "" /\ \A x \in ToSet(market.raw) : x.number = l.number => x = l

\* Seats named for them seat them all, within what they can pay on the basis they gave it; none
\* that would sell as their number is cheaper than the first; and nothing fits when none is said to.
NamedSeats(s, asked, market) ==
  LET named == s.picks.picks
      cost(l) == l.price * asked.party
      fits(l) == \/ asked.budget = Unsaid
                 \/ IF market.beforeFees THEN cost(l) <= asked.budget
                    ELSE 100 * cost(l) + cost(l) * market.allowance < 100 * asked.budget + 50
      all == Seating(market, asked.party)
  IN  /\ \A i \in DOMAIN named : named[i] \in all /\ (s.picks.fits => fits(named[i]))
      /\ named # <<>> /\ ~s.picks.fits => \A l \in all : ~fits(l)
      /\ named # <<>> /\ s.picks.fits /\ s.picks.by # "view" =>
           \A l \in all : fits(l) /\ l.price < named[1].price =>
             s.picks.by = "value" /\ ~ExactSplit(l, asked.party) /\ ExactSplit(named[1], asked.party)
      /\ named # <<>> /\ s.picks.fits /\ s.picks.by # "price" /\ ~ExactSplit(named[1], asked.party) =>
           \A l \in all : fits(l) => ~ExactSplit(l, asked.party)
      /\ \A i, j \in DOMAIN named :
           i # j => <<named[i].section, named[i].row, named[i].price>>
                      # <<named[j].section, named[j].row, named[j].price>>

\* What is advised of a listing they showed, and the seats named when there is none.
ShownHolds(s, about) ==
  /\ s.sub # NoListing =>
       /\ StandsAgainst(s, Alike(s.sub, about.market, about.quantity), about.market)
       /\ ReadAsSent(s, SentIn(Last(talk.said)))
       /\ TypedIsJudged(s, SentIn(Last(talk.said)), BriefOf(talk.said))
       /\ LinkedIsTheirs(s, FlattenSeq([n \in DOMAIN talk.said |-> SentIn(talk.said[n]).urls]),
                         about.market)
  /\ NamedSeats(s, ShowAsked(about, talk.said), about.market)

\* A comparison holds to the thread: each price is the last they gave, with fees given with it,
\* the offer named meets what they last asked, and the changes it offers are enough
\* (answerSupplied, offersClaim); a listing they showed is judged as sent and last corrected, and
\* by what else there is (correctListing, verdictClaim, findAlternatives).  Concert offers keep
\* earlier fees, and a correction lasts one message: neither is promised beyond that.
ComparedInv ==
  Compares =>
    /\ talk.judged.typed =>
         \A o \in ToSet(talk.judged.offers) : PriceOfOneQuote(o, talk.said, talk.about)
    /\ talk.judged.offers # <<>> =>
         ComparisonHolds(talk.judged.offers, Asked(talk.about, talk.said, talk.judged.offers))
    /\ ShownHolds(talk.shown, talk.about)
=============================================================================
