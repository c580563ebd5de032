------------------------------- MODULE OwnOffers -------------------------------
(***************************************************************************)
(* Offers a customer lays out in their own words, kept apart across the    *)
(* messages of a thread, held to what the party needs, and compared        *)
(* (lib/advice/text-offers.ts, offer-eligibility.ts, concert-terms.ts;     *)
(* offersClaim of lib/advice/packet.ts; suppliedOffers of                  *)
(* lib/intake/pipeline.ts).                                                *)
(*                                                                         *)
(* A message is what its words state: the mentions of offers in it, in     *)
(* order, and what it says of the party.  How words are read is left out;  *)
(* what is made of them is not.  Prices are whole amounts, times hours of  *)
(* the event's day in the venue's zone.  Pure: no state.                   *)
(***************************************************************************)
EXTENDS Integers, Sequences, FiniteSets, SequencesExt, Order

Unsaid == -1000
First(a, b) == IF a # Unsaid THEN a ELSE b

\* A time written in a zone some hours behind New York, at a venue some hours behind it.
ToVenue(hour, zone, venue) ==
  IF Unsaid \in {hour, zone, venue} THEN hour ELSE hour + (zone - venue)
NoDelivery == [said |-> FALSE, at |-> Unsaid, zone |-> Unsaid]
NoEntry == [kind |-> "unsaid", at |-> Unsaid, boundary |-> "unspecified", day |-> Unsaid]

\* An offer of which nothing is known.  "seat": admission by being a seat, not by a statement.
NoFacts ==
  [label |-> "", alias |-> "", total |-> Unsaid, each |-> Unsaid, orderFee |-> Unsaid,
   ticketFee |-> Unsaid, fees |-> "unknown", basis |-> FALSE, closed |-> FALSE,
   quantity |-> Unsaid, units |-> Unsaid, perUnit |-> Unsaid, whole |-> FALSE,
   kind |-> "unknown", admission |-> "unsaid", entry |-> NoEntry, appears |-> "unsaid",
   elsewhere |-> FALSE, named |-> FALSE, accessible |-> FALSE, obstructed |-> "unsaid",
   together |-> "unsaid", pairs |-> FALSE, tier |-> "none", delivered |-> FALSE,
   arrives |-> Unsaid, available |-> "unsaid", days |-> {}, notDays |-> {},
   transfer |-> "unsaid", collection |-> "unsaid"]

\* A mention: facts of the offer, and the words from which its price and its count are read.
Mention ==
  [facts |-> NoFacts, price |-> Unsaid, as |-> "bare", before |-> FALSE, allIn |-> FALSE,
   seats |-> Unsaid, units |-> Unsaid, perUnit |-> Unsaid, includes |-> Unsaid,
   bundle |-> Unsaid, fixed |-> FALSE, delivery |-> NoDelivery]

\* What a message says of the party.
NoWords ==
  [going |-> Unsaid, people |-> Unsaid, held |-> Unsaid, everyone |-> Unsaid,
   buying |-> Unsaid, seating |-> "unsaid", extra |-> "unsaid", most |-> Unsaid,
   deadline |-> Unsaid, zone |-> Unsaid, day |-> "unsaid", view |-> "unsaid",
   priority |-> "unsaid", starts |-> Unsaid, goal |-> "unsaid", artist |-> FALSE,
   eventDay |-> Unsaid, begins |-> Unsaid, arrivalDay |-> Unsaid, arrival |-> Unsaid,
   cap |-> Unsaid, capEach |-> FALSE]
Message ==
  [mentions |-> <<>>, shared |-> NoDelivery, later |-> NoDelivery, admission |-> FALSE,
   allIn |-> FALSE, closing |-> "none", first |-> 0, only |-> "", alone |-> FALSE,
   forgets |-> FALSE, refers |-> FALSE, asks |-> FALSE, leaves |-> FALSE, says |-> NoWords,
   reads |-> <<>>, sends |-> <<>>, elsewhere |-> FALSE]

-----------------------------------------------------------------------------
(* The offers of one message.                                              *)

AmountOf(o) == First(o.total, o.each)
AdmissionStated(o) == o.admission \notin {"unsaid", "seat"}

\* A package's stock and what each admits; a fixed bundle is one of them.
Units(x) == IF x.units = Unsaid /\ x.bundle # Unsaid /\ x.fixed THEN 1 ELSE x.units
PerUnit(x) ==
  First(x.perUnit, IF Units(x) = 1 /\ x.includes # Unsaid THEN x.includes
                   ELSE IF x.facts.kind = "package" THEN x.bundle ELSE Unsaid)
Quantity(x) ==
  LET package == x.facts.kind = "package"
      included == IF package /\ x.perUnit = Unsaid THEN x.includes ELSE Unsaid
      counted == IF package \/ PerUnit(x) # Unsaid THEN Unsaid ELSE x.seats
  IN  IF Unsaid \notin {Units(x), PerUnit(x)} THEN Units(x) * PerUnit(x)
      ELSE First(included, counted)

\* "before fees", "all-in" here or for all of them; a total quoted alone is what it costs.
FeeBasis(x, m) ==
  IF x.before THEN "before_fees"
  ELSE IF x.allIn \/ m.allIn
          \/ (x.as = "total" /\ {x.facts.orderFee, x.facts.ticketFee} = {Unsaid})
       THEN "all_in" ELSE "unknown"

\* One mention as an offer; what the message says of all of them fills what it leaves out.
OfferIn(x, m, venue) ==
  LET own == IF x.delivery.at # Unsaid THEN x.delivery ELSE m.shared
      whole == x.as \in {"total", "block"}
      entitled == x.facts.kind = "unknown" /\ ~AdmissionStated(x.facts) /\ m.admission
  IN  [x.facts EXCEPT
        !.total = IF whole THEN x.price ELSE Unsaid, !.each = IF whole THEN Unsaid ELSE x.price,
        !.fees = FeeBasis(x, m), !.basis = x.as # "bare",
        !.units = Units(x), !.perUnit = PerUnit(x), !.quantity = Quantity(x),
        !.admission = IF entitled THEN "included" ELSE @,
        !.kind = IF entitled THEN "admission" ELSE @,
        !.delivered = m.shared.said \/ x.delivery.said,
        !.arrives = ToVenue(own.at, own.zone, venue)]

\* What a later mention states wins, what it leaves out stands.
Updated(old, u) ==
  [f \in DOMAIN old |->
     CASE f = "admission" -> IF AdmissionStated(u) THEN u.admission ELSE old.admission
       [] f = "notDays" -> IF u.notDays # {} THEN u.notDays ELSE old.notDays \ u.days
       [] OTHER -> IF u[f] = NoFacts[f] THEN old[f] ELSE u[f]]

\* Faulty variant of PriceOf: the fees given with an earlier price are added to the new one.
FaultyPriceOf(old, u) ==
  IF AmountOf(u) = Unsaid THEN old
  ELSE [old EXCEPT !.total = u.total, !.each = u.each, !.basis = u.basis,
          !.fees = IF u.fees = "unknown" THEN old.fees ELSE u.fees,
          !.orderFee = First(u.orderFee, old.orderFee),
          !.ticketFee = First(u.ticketFee, old.ticketFee)]

\* The price, with the fees that belong to it: a new amount starts without the old one's fees,
\* and the same amount said again is not another kind of price unless they say which.
PriceOf(old, u) ==
  LET amount == AmountOf(u)
      same == amount # Unsaid /\ amount \in {old.total, old.each}
      take == /\ amount # Unsaid
              /\ ~same \/ (u.basis /\ ~(old.basis /\ u.total = Unsaid /\ old.total = amount))
      kept(f) == IF same THEN old[f] ELSE NoFacts[f]
  IN  IF take
      THEN [old EXCEPT !.total = u.total, !.each = u.each, !.basis = u.basis,
              !.fees = IF u.fees # "unknown" THEN u.fees ELSE kept("fees"),
              !.orderFee = First(u.orderFee, kept("orderFee")),
              !.ticketFee = First(u.ticketFee, kept("ticketFee"))]
      ELSE [old EXCEPT !.fees = IF u.fees # "unknown" /\ amount # Unsaid THEN u.fees ELSE @,
              !.orderFee = First(@, u.orderFee), !.ticketFee = First(@, u.ticketFee)]

\* The latest name is the one they use now; the one before is another name for it.
MergeOffer(old, u) ==
  LET new == Updated(old, u)
      price == PriceOf(old, u)
  IN  [new EXCEPT
        !.total = price.total, !.each = price.each, !.basis = price.basis, !.fees = price.fees,
        !.orderFee = price.orderFee, !.ticketFee = price.ticketFee,
        !.units = old.units, !.perUnit = old.perUnit, !.appears = old.appears,
        !.elsewhere = old.elsewhere, !.named = old.named,
        !.alias = IF u.label # old.label THEN old.label ELSE IF u.alias # "" THEN u.alias ELSE @,
        !.pairs = IF u.together # "unsaid" THEN u.pairs ELSE @]

\* A statement that nothing else is charged closes the offers whose fees they gave.
WithFinalFees(offers, m, global) ==
  LET n == CASE m.closing = "first" -> m.first
             [] m.closing = "all" \/ (m.closing = "here" /\ ~global) -> Len(offers)
             [] OTHER -> 0
      given(o) == {o.orderFee, o.ticketFee} # {Unsaid} \/ o.fees = "all_in"
  IN  [i \in DOMAIN offers |->
        IF i <= n /\ given(offers[i]) THEN [offers[i] EXCEPT !.closed = TRUE] ELSE offers[i]]

\* An offer read with its price is done; one named before its price is folded into one.
Read(out, x, m, venue, priceless) ==
  LET u == OfferIn(x, m, venue)
      at == SelectInSeq(out, LAMBDA o : o.label = u.label)
      done == at # 0 /\ AmountOf(out[at]) # Unsaid
      says == \/ x.price # Unsaid \/ AdmissionStated(u) \/ u.entry # NoEntry
              \/ u.available # "unsaid" \/ u.transfer # "unsaid" \/ u.closed
  IN  IF done \/ ~(says \/ priceless) THEN out
      ELSE IF at = 0 THEN Append(out, u) ELSE [out EXCEPT ![at] = MergeOffer(out[at], u)]

\* Delivery said apart, where one offer is priced and no other has any said of it, is that one's.
WithLater(out, m, venue) ==
  LET priced == {i \in DOMAIN out : AmountOf(out[i]) # Unsaid}
      lone(i) == /\ priced = {i} /\ out[i].arrives = Unsaid /\ m.later.at # Unsaid
                 /\ \A j \in DOMAIN out : j = i \/ ~out[j].delivered
  IN  [i \in DOMAIN out |->
        IF lone(i) THEN [out[i] EXCEPT !.delivered = TRUE,
                                       !.arrives = ToVenue(m.later.at, m.later.zone, venue)]
        ELSE out[i]]

OffersInText(m, venue, priceless) ==
  LET read == FoldLeft(LAMBDA out, x : Read(out, x, m, venue, priceless), <<>>, m.mentions)
  IN  WithLater(WithFinalFees(read, m, FALSE), m, venue)

-----------------------------------------------------------------------------
(* The offers of a thread.                                                 *)

Names(o) == {o.label, o.alias} \ {""}
SameOffer(a, b) == Names(a) \cap Names(b) # {}
Among(offers, some) ==
  SelectSeq(offers, LAMBDA o : \E i \in DOMAIN some : SameOffer(o, some[i]))

\* Each mention folded into its offer; in a last message not about the old set, an offer at
\* another amount is a new offer.
Fold(out, u, fresh) ==
  LET at == SelectInSeq(out, LAMBDA o : SameOffer(o, u))
      anew == fresh /\ AmountOf(u) \notin {Unsaid, AmountOf(out[at]), out[at].total}
  IN  IF at = 0 THEN Append(out, u)
      ELSE [out EXCEPT ![at] = IF anew THEN u ELSE MergeOffer(out[at], u)]
OfferHistory(messages, venue, fresh) ==
  LET last == Len(messages)
      after[n \in 0 .. last] ==
        IF n = 0 THEN <<>>
        ELSE FoldLeft(LAMBDA out, u : Fold(out, u, fresh /\ n = last), after[n - 1],
                      OffersInText(messages[n], venue, TRUE))
  IN  SelectSeq(after[last], LAMBDA o : AmountOf(o) # Unsaid \/ AdmissionStated(o))

Listing == <<"listing 1", "listing 2", "listing 3", "listing 4", "listing 5">>
Supplied(offers, aside) == [offers |-> offers, aside |-> aside]
NoOffers == Supplied(<<>>, {})
Alone(all, o) == Supplied(<<o>>, {x.label : x \in ToSet(all) \ {o}})

\* The offers a message is about: those it lays out; or all, when it is about them; or the one
\* it keeps, the others set aside.
Kept(all, kept, alone) ==
  IF kept = <<>> THEN NoOffers
  ELSE IF alone THEN Alone(all, kept[1]) ELSE Supplied(all, {})
MeantOffers(m, all, only, latest, kept) ==
  IF only # <<>> /\ Len(all) >= 2 THEN Alone(all, only[1])
  ELSE IF latest >= 2 THEN Supplied(kept, {})
  ELSE IF Len(all) < 2 THEN NoOffers
  ELSE IF latest = 1 THEN Kept(all, kept, m.alone)
  ELSE IF m.asks THEN Supplied(all, {}) ELSE NoOffers
NotOne(found) == IF Len(found.offers) = 1 /\ found.aside = {} THEN NoOffers ELSE found
Meant(m, all, latest) ==
  NotOne(MeantOffers(m, all, SelectSeq(all, LAMBDA o : o.label = m.only), Len(latest),
                     Among(all, latest)))
OrdinaryOffers(messages, venue) ==
  Meant(Last(messages), OfferHistory(messages, venue, ~Last(messages).refers),
        OffersInText(Last(messages), venue, TRUE))

\* In a comparison of concert tickets a later mention is the record, and keeps from the old
\* one the terms listed here.  An offer that became another product is a new one.
MergeConcertOffer(old, u) ==
  LET new == Updated(old, u)
      repriced == AmountOf(u) # Unsaid /\ ~(AmountOf(u) = AmountOf(old) /\ ~u.basis)
      settled == AmountOf(u) # Unsaid /\ u.fees = "all_in"
      barred == AdmissionStated(u) /\ u.admission # "included"
      perUnit == IF barred THEN Unsaid ELSE First(u.perUnit, old.perUnit)
  IN  IF "unknown" \notin {u.kind, old.kind} /\ u.kind # old.kind THEN u
      ELSE [new EXCEPT
        !.label = u.label, !.alias = u.alias, !.accessible = u.accessible, !.pairs = u.pairs,
        !.tier = u.tier, !.basis = u.basis,
        !.total = IF repriced THEN u.total ELSE old.total,
        !.each = IF repriced THEN u.each ELSE old.each,
        !.orderFee = IF settled THEN u.orderFee ELSE @,
        !.ticketFee = IF settled THEN u.ticketFee ELSE @,
        !.perUnit = perUnit,
        !.quantity = IF barred /\ old.kind = "package" THEN Unsaid
                     ELSE IF Unsaid \notin {new.units, perUnit} THEN new.units * perUnit ELSE @]

\* "The cheap bundle" is the one package they laid out, if there is one.
TheBundle == "the bundle"
Corrected(m, kept) ==
  LET packages == SelectSeq(kept, LAMBDA o : o.kind = "package")
      named == [i \in DOMAIN m.mentions |->
                  IF m.mentions[i].facts.label = TheBundle /\ Len(packages) = 1
                  THEN [m.mentions[i] EXCEPT !.facts.label = packages[1].label]
                  ELSE m.mentions[i]]
  IN  [m EXCEPT !.mentions = SelectSeq(named, LAMBDA x : x.facts.label # TheBundle)]

NoRecord == [offers |-> <<>>, aside |-> {}, reset |-> FALSE]
ConcertMerge(out, u, m) ==
  LET at == SelectInSeq(out, LAMBDA o : o.label = u.label)
  IN  IF m.only \notin {"", u.label} THEN out
      ELSE IF at = 0 THEN Append(out, u)
      ELSE [out EXCEPT ![at] = MergeConcertOffer(out[at], u)]

\* "Only B", said with something of B, sets the others aside.
KeptAside(state, m, updates) ==
  LET keeps == m.only # "" /\ \E i \in DOMAIN updates : updates[i].label = m.only
      others == SelectSeq(state.offers, LAMBDA o : o.label # m.only)
  IN  IF keeps THEN [offers |-> SelectSeq(state.offers, LAMBDA o : o.label = m.only),
                     aside |-> {others[i].label : i \in DOMAIN others}, reset |-> state.reset]
      ELSE state
WithUpdates(state, m, updates) ==
  [state EXCEPT !.offers =
     WithFinalFees(FoldLeft(LAMBDA out, u : ConcertMerge(out, u, m), state.offers, updates), m, TRUE)]
UpdatedBy(state, m, updates) == WithUpdates(KeptAside(state, m, updates), m, updates)
ReadWith(state, m, venue) ==
  UpdatedBy(state, m, OffersInText(Corrected(m, state.offers), venue, FALSE))
ConcertStep(state, m, venue) ==
  ReadWith(IF m.forgets THEN [NoRecord EXCEPT !.reset = TRUE] ELSE state, m, venue)

\* Listings read from their screenshots or links, put through the comparison typed offers get.
OffersFromReads(reads, venue) ==
  LET line(r, i) ==
        [Mention EXCEPT !.facts.label = i, !.price = r.price, !.seats = r.quantity,
           !.as = IF r.whole THEN "total" ELSE "each", !.before = r.fees = "before_fees",
           !.allIn = r.fees = "all_in"]
      text == [Message EXCEPT !.mentions = [i \in DOMAIN reads |-> line(reads[i], Listing[i])]]
      offers == OffersInText(text, venue, FALSE)
      priced == \A i \in DOMAIN reads : reads[i].price # Unsaid
  IN  IF Len(reads) \in 2 .. 5 /\ priced /\ Len(offers) = Len(reads) THEN offers ELSE <<>>

ConcertOffers(messages, venue) ==
  LET after[n \in 0 .. Len(messages)] ==
        IF n = 0 THEN NoRecord ELSE ConcertStep(after[n - 1], messages[n], venue)
  IN  after[Len(messages)]

SuppliedFrom(m, all, about, ordinary) ==
  IF m.leaves THEN NoOffers
  ELSE IF about /\ (Len(all.offers) >= 2 \/ all.aside # {}) THEN Supplied(all.offers, all.aside)
  ELSE IF all.reset THEN NoOffers ELSE ordinary

\* concert: the record of them is kept from message to message; else it is made anew.
SuppliedOffers(messages, venue, concert, continuing) ==
  LET m == Last(messages)
  IN  SuppliedFrom(IF concert THEN m ELSE Message,
                   IF concert THEN ConcertOffers(messages, venue) ELSE NoRecord,
                   m.refers \/ continuing \/ OffersInText(m, venue, FALSE) # <<>>,
                   OrdinaryOffers(messages, venue))

-----------------------------------------------------------------------------
(* The party: the latest message that says a thing wins.                   *)

NoTerms ==
  [attendees |-> Unsaid, owned |-> Unsaid, toBuy |-> Unsaid, conflict |-> FALSE,
   seating |-> "unsaid", extra |-> "unsaid", most |-> Unsaid, deadline |-> Unsaid,
   day |-> "unsaid", view |-> "unsaid", priority |-> "unsaid", starts |-> Unsaid,
   goal |-> "unsaid", artist |-> FALSE]

AllOfUs == 0   \* "all of us need tickets", with no number
Latest(old, said, none) == IF said = none THEN old ELSE said

\* Tickets held and tickets to buy.  That everyone needs one takes back what was held, and a
\* party or a holding said anew makes the count to buy derived again.
Counted(terms, w) ==
  LET going == Latest(Latest(terms.attendees, w.people, Unsaid), w.going, Unsaid)
      retracts == w.everyone # Unsaid /\ (terms.owned > 0 \/ w.held # Unsaid)
      owned == IF w.held # Unsaid THEN w.held ELSE IF retracts THEN 0 ELSE Unsaid
      allBuy == IF ~retracts THEN Unsaid
                ELSE IF w.everyone = AllOfUs THEN going ELSE w.everyone
      buying == First(w.buying, IF w.held # Unsaid THEN allBuy ELSE Unsaid)
  IN  [terms EXCEPT
        !.attendees = going, !.owned = First(owned, @),
        !.toBuy = IF w.buying # Unsaid THEN w.buying
                  ELSE IF allBuy # Unsaid THEN allBuy
                  ELSE IF w.going # Unsaid \/ owned # Unsaid THEN Unsaid ELSE @,
        !.conflict = /\ Unsaid \notin {w.going, w.held, buying}
                     /\ w.held + buying # going]

Heard(terms, w, venue) ==
  [Counted(terms, w) EXCEPT
    !.seating = Latest(@, w.seating, "unsaid"),
    !.extra = Latest(@, w.extra, "unsaid"),
    !.most = IF w.extra = "unsaid" THEN @ ELSE w.most,
    !.deadline = Latest(@, ToVenue(w.deadline, w.zone, venue), Unsaid),
    !.day = Latest(@, w.day, "unsaid"), !.view = Latest(@, w.view, "unsaid"),
    !.priority = Latest(@, w.priority, "unsaid"), !.starts = Latest(@, w.starts, Unsaid),
    !.goal = Latest(@, w.goal, "unsaid"), !.artist = @ \/ w.artist]

PartyTerms(messages, venue) ==
  LET heard == FoldLeft(LAMBDA terms, m : Heard(terms, m.says, venue), NoTerms, messages)
      derives == heard.toBuy = Unsaid /\ heard.owned > 0 /\ heard.attendees > heard.owned
  IN  IF derives THEN [heard EXCEPT !.toBuy = heard.attendees - heard.owned] ELSE heard

\* When they arrive, and when the event is: dates and hours are said apart.
ThatDay == -1
NoDay == -2
NoNight == [day |-> Unsaid, begins |-> Unsaid, arrivalDay |-> Unsaid, arrival |-> Unsaid]
Timed(night, w) ==
  LET day == IF w.begins # Unsaid THEN First(w.eventDay, night.day)
             ELSE First(night.day, w.eventDay)
  IN  [day |-> day, begins |-> First(w.begins, night.begins),
       arrival |-> First(w.arrival, night.arrival),
       arrivalDay |-> CASE w.arrivalDay = NoDay -> Unsaid
                        [] w.arrivalDay = ThatDay -> First(day, night.arrivalDay)
                        [] OTHER -> First(w.arrivalDay, night.arrivalDay)]
NightTiming(messages) == FoldLeft(LAMBDA night, m : Timed(night, m.says), NoNight, messages)

-----------------------------------------------------------------------------
(* What an offer comes to.                                                 *)

NoTotal == [cents |-> Unsaid, allIn |-> FALSE, tickets |-> Unsaid]
Zero(n) == IF n = Unsaid THEN 0 ELSE n
ByPackage(o) == o.kind = "package" /\ o.perUnit # Unsaid
Charged(o) == {o.orderFee, o.ticketFee} # {Unsaid}

OfferTotal(o, party) ==
  LET lacks == ByPackage(o) /\ o.units # Unsaid /\ o.units * o.perUnit < party
      tickets == IF o.total # Unsaid THEN First(o.quantity, party)
                 ELSE IF o.whole /\ o.quantity > party THEN o.quantity ELSE party
      units == IF ByPackage(o) THEN (tickets + o.perUnit - 1) \div o.perUnit ELSE tickets
      base == IF o.total # Unsaid
              THEN o.total + Zero(o.ticketFee) * tickets
              ELSE o.each * units + Zero(o.ticketFee) * tickets
  IN  IF lacks \/ AmountOf(o) = Unsaid THEN NoTotal
      ELSE [cents |-> base + Zero(o.orderFee), tickets |-> tickets,
            allIn |-> o.fees = "all_in" \/ (Charged(o) /\ o.closed)]

\* A bundle priced as one that does not say how many it admits covers nobody.
UnknownCapacity(o) ==
  /\ o.kind = "package" /\ {o.quantity, o.perUnit} = {Unsaid}
  /\ ~(o.each # Unsaid /\ o.basis)
TotalOf(o, party) == IF UnknownCapacity(o) THEN NoTotal ELSE OfferTotal(o, party)

-----------------------------------------------------------------------------
(* What keeps an offer from being the one.                                 *)

\* Whether the ticket admits them when they arrive.
EntryFailure(entry, night) ==
  LET early == entry.at < 12
      undated == night.begins = Unsaid /\ early /\ entry.day = Unsaid
      after == IF entry.day # Unsaid THEN entry.day - night.day
               ELSE IF early /\ night.begins >= 12 THEN 1 ELSE 0
      cutoff == entry.at + 24 * after
      arrival == night.arrival + 24 * (night.arrivalDay - night.day)
  IN  /\ night.arrival # Unsaid /\ entry.kind # "anytime"
      /\ \/ entry.kind # "before"
         \/ Unsaid \in {night.day, night.arrivalDay} \/ undated
         \/ night.begins # Unsaid /\ arrival < night.begins
         \/ arrival = cutoff /\ entry.boundary # "inclusive"
         \/ arrival > cutoff

\* "named": the offer's description says it of the artist they want.
PerformanceFailure(o, terms) ==
  IF terms.goal = "party" THEN o.appears = "live"
  ELSE \/ o.elsewhere
       \/ terms.artist /\ ~o.named /\ o.appears # "unsaid"
       \/ terms.goal = "artist" /\ o.appears # "live"

\* asked: [terms, party, night, concert, access, clear, together, budget, typed].
Why(o, asked) ==
  LET terms == asked.terms
      total == TotalOf(o, asked.party)
      due == First(terms.deadline, terms.starts)
      spare == o.quantity # Unsaid /\ o.quantity > asked.party
      allowed == terms.extra = "allowed" /\ (terms.most = Unsaid \/ o.quantity <= terms.most)
      clear == terms.view # "any" /\ (asked.clear \/ terms.view = "unobstructed")
      together == terms.seating = "together" \/ (terms.seating = "unsaid" /\ asked.together)
      holds ==
        [availability |-> o.available = "no",
         day |-> /\ terms.day # "unsaid"
                 /\ (o.days # {} /\ terms.day \notin o.days) \/ terms.day \in o.notDays,
         transfer |-> "barred" \in {o.transfer, o.collection},
         admission |-> \/ o.admission = "excluded"
                       \/ o.admission \in {"unsaid", "unknown"} /\ (asked.concert \/ asked.typed),
         performance |-> PerformanceFailure(o, terms),
         entry |-> EntryFailure(o.entry, asked.night),
         access |-> asked.access # o.accessible,
         short |-> UnknownCapacity(o) \/ (o.quantity # Unsaid /\ o.quantity < asked.party),
         extra |-> spare /\ ~allowed /\ (o.whole \/ terms.extra = "refused"),
         view |-> \/ clear /\ o.obstructed = "yes"
                  \/ asked.concert /\ terms.view = "unobstructed" /\ o.obstructed = "unsaid",
         together |-> /\ o.together = "no"
                      /\ together \/ (terms.seating = "pairs" /\ ~o.pairs),
         no_time |-> due # Unsaid /\ o.arrives = Unsaid,
         late |-> due # Unsaid /\ o.arrives > due,
         budget |-> Unsaid \notin {asked.budget, total.cents} /\ total.cents > asked.budget]
  IN  {reason \in DOMAIN holds : holds[reason]}

-----------------------------------------------------------------------------
(* The answer.                                                             *)

Row(o, asked) ==
  LET total == TotalOf(o, asked.party)
  IN  [offer |-> o, why |-> Why(o, asked), cents |-> total.cents, tickets |-> total.tickets,
       feesUnknown |-> total # NoTotal /\ ~total.allIn]
Rows(offers, asked) == [i \in DOMAIN offers |-> Row(offers[i], asked)]

Priced(r) == r.cents # Unsaid
FitsNow(r) == r.why = {} /\ Priced(r) /\ ~r.feesUnknown
Open(r) == r.why = {} /\ ~FitsNow(r)
ByTotal(rows) ==
  LET before(i, j) == rows[i].cents < rows[j].cents \/ (rows[i].cents = rows[j].cents /\ i < j)
      order == Sorted({i \in DOMAIN rows : Priced(rows[i])}, before)
  IN  [k \in DOMAIN order |-> rows[order[k]]]
NoRow == [offer |-> NoFacts, why |-> {}, cents |-> Unsaid, tickets |-> Unsaid,
          feesUnknown |-> FALSE]
FirstOf(rows) == IF rows = <<>> THEN NoRow ELSE rows[1]

\* The fee below which an offer whose fees are unknown would beat the pick.
Thresholds(rows, best) ==
  {[offer |-> r.offer, below |-> best.cents - r.cents] :
     r \in {x \in ToSet(rows) \ {best} :
              Priced(x) /\ x.feesUnknown /\ x.why \subseteq {"budget"}}}

\* With nothing that fits, the smallest single change that makes one fit.
SmallestChange(rows) ==
  LET one == SelectSeq(rows, LAMBDA r : Cardinality(r.why) = 1 /\ Priced(r) /\ ~r.feesUnknown)
      dear == ByTotal(SelectSeq(one, LAMBDA r : r.why = {"budget"}))
      large == SelectSeq(one, LAMBDA r : r.why = {"extra"})
  IN  IF dear # <<>> THEN [by |-> "budget", row |-> dear[1]]
      ELSE IF large # <<>> THEN [by |-> "extra", row |-> large[1]]
      ELSE [by |-> "nothing", row |-> NoRow]

\* Two prices before fees for as many tickets still name one, with the gap that would undo it.
Leans(open) ==
  /\ Len(open) = 2 /\ open[1].cents < open[2].cents /\ open[1].tickets = open[2].tickets
  /\ ~Charged(open[1].offer) /\ ~Charged(open[2].offer)

Answer(kind, best, rows) ==
  [kind |-> kind, best |-> best, thresholds |-> Thresholds(rows, best), change |-> "nothing",
   other |-> NoRow]

BestOf(fits, tier) ==
  LET wanted == SelectSeq(fits, LAMBDA r : r.offer.tier = tier)
  IN  IF wanted # <<>> THEN wanted[1] ELSE FirstOf(ByTotal(fits))
PickKind(offers, best, cheapest, unknown) ==
  IF offers = 1 THEN "alone" ELSE IF best # cheapest THEN "worth_it"
  ELSE IF unknown # <<>> THEN "straightforward" ELSE "pick"

\* What is said with no offer that fits: which are open, or what would make one fit.
OpenClaim(unknown, open) ==
  IF Len(open) >= 2 /\ Len(open) = Len(unknown)
  THEN IF Leans(open) THEN [Answer("lean", open[1], <<>>) EXCEPT !.other = open[2]]
       ELSE Answer("fees_unknown", NoRow, <<>>)
  ELSE Answer("only_open", unknown[1], <<>>)
NoneClaim(rows, change, access) ==
  IF access /\ Len(rows) > 1 /\ \A i \in DOMAIN rows : ~rows[i].offer.accessible
  THEN Answer("none_accessible", NoRow, <<>>)
  ELSE [Answer("none", NoRow, <<>>) EXCEPT !.change = change.by, !.other = change.row]

\* What matters most to them decides between offers that fit; else the total does.
ClaimFor(rows, fits, best, unknown, asked) ==
  IF best # NoRow
  THEN Answer(PickKind(Len(rows), best, FirstOf(ByTotal(fits)), unknown), best, rows)
  ELSE IF Len(unknown) = 1 \/ (unknown # <<>> /\ \A i \in DOMAIN unknown : Priced(unknown[i]))
  THEN OpenClaim(unknown, ByTotal(unknown))
  ELSE NoneClaim(rows, SmallestChange(rows), asked.access)
ClaimOf(rows, fits, asked) ==
  ClaimFor(rows, fits, BestOf(fits, asked.terms.priority), SelectSeq(rows, Open), asked)
OffersClaimOf(rows, asked) == ClaimOf(rows, SelectSeq(rows, FitsNow), asked)
OffersClaim(offers, asked) == OffersClaimOf(Rows(offers, asked), asked)
=============================================================================
