--------------------------------- MODULE MCTalks ---------------------------------
(***************************************************************************)
(* Threads for Comparing: a few messages each, of two offers and a party.  *)
(***************************************************************************)
EXTENDS Listings, TLC

\* The vocabulary of a thread: offers with a price, and what is said of them.
Offer(label, price, as) == [Mention EXCEPT !.facts.label = label, !.price = price, !.as = as]
AllIn(x) == [x EXCEPT !.allIn = TRUE]
Fees(x, order, ticket) == [x EXCEPT !.facts.orderFee = order, !.facts.ticketFee = ticket]
Arrives(x, hour, zone) == [x EXCEPT !.delivery = [said |-> TRUE, at |-> hour, zone |-> zone]]
Text(mentions) == [Message EXCEPT !.mentions = mentions]
About(mentions) == [Text(mentions) EXCEPT !.refers = TRUE]
Words(says) == [Message EXCEPT !.asks = TRUE, !.says = says]

NoMarket ==
  [raw |-> <<>>, gated |-> FALSE, tracked |-> FALSE, visible |-> FALSE, floor |-> Unsaid,
   best |-> Unsaid, leftOut |-> {}, checked |-> {}, goal |-> "value", beforeFees |-> FALSE,
   allowance |-> 30]
Thread(lines, length) ==
  [lines |-> lines, length |-> length, concert |-> FALSE, matched |-> FALSE, venue |-> 0,
   quantity |-> 2, misread |-> Unsaid, access |-> FALSE, clear |-> FALSE, together |-> FALSE,
   market |-> NoMarket]

\* The price goes up and down, with fees and without, and is said again.
A == Fees(Offer("A", 80, "each"), 10, Unsaid)
B == AllIn(Offer("B", 100, "each"))
PriceLines ==
  { Text(<<A, B>>), About(<<Offer("A", 90, "each")>>), About(<<Offer("A", 80, "bare")>>),
    About(<<AllIn(Offer("A", 170, "total"))>>), [About(<<>>) EXCEPT !.closing = "all"],
    Text(<<Offer("A", 70, "each"), Fees(Offer("B", 60, "each"), Unsaid, 5)>>),
    About(<<[Offer("Gold", 90, "each") EXCEPT !.facts.alias = "A"]>>),
    [About(<<Fees(Offer("A", Unsaid, "bare"), 20, 5)>>) EXCEPT !.mentions[1].facts.closed = TRUE] }
Prices == { Thread(PriceLines, 4) }

\* When it must come, how it looks, what it may cost; a misread amount; another zone.
Terms ==
  { [Thread({Text(<<Arrives(AllIn(A), 10, 3), Arrives(B, 12, Unsaid)>>),
             [Text(<<Arrives(A, 9, 0), B>>) EXCEPT !.shared = [said |-> TRUE, at |-> 11, zone |-> 0]],
             Words([NoWords EXCEPT !.deadline = 12, !.zone = 0]),
             Words([NoWords EXCEPT !.deadline = 11, !.cap = 190]),
             Words([NoWords EXCEPT !.cap = 120, !.capEach = TRUE, !.starts = 13])}, 3)
       EXCEPT !.venue = venue, !.misread = misread] :
      venue \in {0, 3}, misread \in {Unsaid, 160, 150} }

Seats(x, n) == [x EXCEPT !.seats = n]
Facts(x, facts) == [x EXCEPT !.facts = facts @@ @]
SomeFacts ==
  { [available |-> "no"], [together |-> "no"], [together |-> "no", pairs |-> TRUE],
    [obstructed |-> "yes"], [days |-> {"sat"}], [notDays |-> {"fri"}], [transfer |-> "barred"],
    [accessible |-> TRUE], [tier |-> "lower"], [whole |-> TRUE] }
Lower == [Offer("C", 110, "each") EXCEPT !.facts.tier = "lower"]
Needs ==
  { [Thread({Text(<<Seats(Facts(B, facts), n), AllIn(Seats(Lower, 2))>>),
             Words([NoWords EXCEPT !.going = 3, !.day = "fri", !.view = "unobstructed"]),
             Words([NoWords EXCEPT !.priority = "lower", !.cap = 230, !.seating = "together"]),
             Words([NoWords EXCEPT !.extra = "allowed", !.most = 4, !.seating = "pairs"]),
             Words([NoWords EXCEPT !.extra = "refused", !.seating = "any", !.view = "any"])}, 3)
       EXCEPT !.access = n = 4 /\ DOMAIN facts \in {{"accessible"}, {"tier"}}, !.clear = TRUE,
              !.together = TRUE] :
      facts \in SomeFacts, n \in {2, 4} }

\* Who holds a ticket, who buys.
Counts ==
  { [Thread({Text(<<Seats(B, 3), AllIn(Offer("C", 110, "each"))>>), Text(<<AllIn(A)>>),
             Words([NoWords EXCEPT !.going = 3]), Words([NoWords EXCEPT !.held = 1]),
             Words([NoWords EXCEPT !.going = 4, !.held = 1, !.buying = 2]),
             Words([NoWords EXCEPT !.everyone = 0]), Words([NoWords EXCEPT !.people = 4])}, 4)
       EXCEPT !.concert = concert] : concert \in BOOLEAN }

\* Packages and add-ons of a concert, when they get there, who plays.
Package(label, price, units, each) ==
  [Offer(label, price, "each") EXCEPT !.facts.kind = "package", !.facts.admission = "included",
                                      !.units = units, !.perUnit = each]
Night == [NoWords EXCEPT !.eventDay = 5, !.begins = 21, !.arrivalDay = 5, !.arrival = 23]
Entry(x, at, boundary) ==
  [x EXCEPT !.facts.entry = [kind |-> "before", at |-> at, boundary |-> boundary, day |-> Unsaid]]
Pass(label, price) ==
  [Offer(label, price, "total") EXCEPT !.facts.kind = "admission", !.facts.admission = "included"]
ConcertLines ==
  { [Text(<<Package("A", 150, 1, 2), Package("B", 60, 2, 1)>>) EXCEPT !.allIn = TRUE],
    Text(<<Entry(Pass("A", 100), 0, "strict"), Entry(Pass("B", 120), 23, "unspecified")>>),
    [Text(<<[Offer(TheBundle, 140, "each") EXCEPT !.facts.kind = "package"]>>) EXCEPT !.refers = TRUE],
    [Text(<<Pass("B", 110)>>) EXCEPT !.only = "B"],
    [Text(<<[Pass("A", 90) EXCEPT !.facts.admission = "excluded", !.facts.kind = "parking"]>>)
       EXCEPT !.says = [NoWords EXCEPT !.goal = "artist", !.artist = TRUE]],
    [About(<<Fees(Pass("A", 95), 15, Unsaid)>>) EXCEPT !.closing = "all"],
    [Message EXCEPT !.forgets = TRUE], [Message EXCEPT !.leaves = TRUE],
    [Message EXCEPT !.refers = TRUE, !.says = Night],
    [Message EXCEPT !.refers = TRUE, !.says = [NoWords EXCEPT !.arrivalDay = -1, !.arrival = 22]] }
Concerts == { [Thread(ConcertLines, 3) EXCEPT !.concert = TRUE, !.matched = TRUE] }

\* One kept from several; screenshots and links side by side.
Shot(price, whole, fees) == [price |-> price, whole |-> whole, quantity |-> 2, fees |-> fees]
Shots(reads) == [Message EXCEPT !.reads = reads]
Sent ==
  { [Thread({Shots(<<Shot(100, FALSE, "all_in"), Shot(150, TRUE, "unknown")>>),
             Shots(<<Shot(90, FALSE, "unknown"), Shot(95, FALSE, "before_fees")>>),
             Shots(<<Shot(90, FALSE, "unknown"), Shot(Unsaid, FALSE, "unknown")>>),
             Words([NoWords EXCEPT !.cap = 160]), [Message EXCEPT !.elsewhere = TRUE],
             Text(<<AllIn(A), B>>), [Text(<<B>>) EXCEPT !.alone = TRUE],
             [Message EXCEPT !.only = "A"],
             [Text(<<A>>) EXCEPT !.later = [said |-> TRUE, at |-> 9, zone |-> Unsaid],
                                 !.closing = "first", !.first = 1]}, 3)
       EXCEPT !.matched = matched] : matched \in BOOLEAN }

\* A listing they show, with others for sale around it.
Item(number, price, section, row, zone) ==
  [number |-> number, price |-> price, quantity |-> 2, section |-> section, row |-> row,
   zone |-> zone, marketplace |-> "stubhub", active |-> TRUE, note |-> "", view |-> Unsaid,
   nth |-> 9]
Data ==
  { <<Item(1, 100, "101", "C", "lower"), Item(2, 90, "102", "A", "lower"), Item(3, 40, "301", "A", "upper")>>,
    <<[Item(1, 85, "101", "C", "lower") EXCEPT !.note = "obstructed"], Item(2, 95, "101", "D", "lower"),
      [Item(3, 70, "102", "B", "lower") EXCEPT !.quantity = 1]>>,
    <<[Item(1, 80, "101", "D", "lower") EXCEPT !.note = "apart"],
      [Item(2, 60, "102", "B", "lower") EXCEPT !.active = FALSE], Item(3, 90, "101", "B", "lower")>> }
Market(raw) ==
  [NoMarket EXCEPT !.raw = raw, !.tracked = TRUE, !.visible = TRUE, !.floor = raw[3].price]
Sends(what) == [Message EXCEPT !.sends = <<what @@ Nothing>>]
Shows(page) == Sends([page |-> page])
Seat101 == [Page EXCEPT !.price = 100, !.quantity = 2, !.section = "101", !.row = "C"]
Fix(fix) == Sends([fix |-> fix @@ NoFix])
Found(label, area, each) ==
  [label |-> label, area |-> area, each |-> each, basis |-> "per_ticket", fees |-> "unknown",
   standing |-> area = "floor"]
Results ==
  [Page EXCEPT !.quantity = 2,
     !.rows = <<Found("GA", "floor", 95), Found("Balcony", "balcony", 60), Found("Box", "", Unsaid)>>]
ListingLines ==
  { Shows([Seat101 EXCEPT !.fees = "before_fees", !.total = 260, !.by = "unsaid"]),
    Shows([Seat101 EXCEPT !.fees = "all_in", !.codes = {"obstructed_view"}, !.together = "no"]),
    Shows([Page EXCEPT !.price = 190, !.as = "whole_party", !.quantity = 2, !.fees = "all_in",
                       !.unclear = {"row"}]),
    Shows([Seat101 EXCEPT !.as = "unknown", !.name = "near", !.quantity = 3, !.notes = {"extras"}]),
    Shows([Page EXCEPT !.price = 95, !.quantity = 2, !.fees = "before_fees", !.by = "late"]),
    Shows([Page EXCEPT !.section = "101", !.kept = TRUE]),
    Fix([replaces |-> TRUE, quantity |-> 4, each |-> 70]), Fix([orderFee |-> 20, each |-> 100, fees |-> "before_fees"]),
    Fix([total |-> 250]),
    [Sends([price |-> 100, forAll |-> TRUE, asks |-> {"seats"}]) EXCEPT !.says.cap = 210],
    [Message EXCEPT !.elsewhere = TRUE] }
Judging(market) == [Thread(ListingLines, 3) EXCEPT !.matched = TRUE, !.market = market]
Checked ==
  { [section |-> "101", row |-> "B", zone |-> "lower", total |-> 180],
    [section |-> "110", row |-> "B", zone |-> "lower", total |-> 150] }
Listed ==
  { Judging(Market(raw)) : raw \in Data } \cup
  { Judging([Market(raw) EXCEPT !.best = 180]) : raw \in Data } \cup
  { Judging([NoMarket EXCEPT !.best = 185, !.checked = Checked]),
    Judging([NoMarket EXCEPT !.leftOut = {[total |-> 120, quantity |-> 2, flaw |-> "apart"]}]) }
\* A page of results, and the areas they want or rule out.
Area(word, area) == Sends([areas |-> <<[word |-> word, area |-> area]>>])
ResultLines ==
  { Shows(Results), Shows([Results EXCEPT !.quantity = Unsaid, !.kept = FALSE]),
    Shows([Results EXCEPT !.rows[3].each = 55]), Area("want", "floor"), Area("out", "floor"),
    Area("out", "balcony"), Sends([price |-> 60]),
    [Sends([named |-> <<1, 2>>, asks |-> {"cheaper", "afford"}]) EXCEPT !.says.cap = 130] }
Rowed == { [Thread(ResultLines, 3) EXCEPT !.matched = TRUE, !.market = Market(raw)] : raw \in Data }
\* A link to one of them, or to none.
At(site, number) == [Url EXCEPT !.site = site, !.number = number]
Links(urls) == Sends([urls |-> urls])
Redirected(url, wraps) == [url EXCEPT !.wraps = wraps]
LinkLines ==
  { Links(<<At("stubhub", 1)>>), Links(<<Redirected(At("stubhub", 2), 2)>>),
    Links(<<Redirected(At("vividseats", 1), 1), Redirected(At("stubhub", 2), 3)>>),
    Links(<<At("stubhub", 1), At("seatgeek", 1), At("short", 0)>>),
    Links(<<[At("stubhub", 7) EXCEPT !.garbled = TRUE], [At("stubhub", 1) EXCEPT !.parses = FALSE]>>),
    Shows(Seat101), Words([NoWords EXCEPT !.cap = 150]) }
Twins(raw) == [raw EXCEPT ![1].marketplace = "", ![3].number = 1, ![3].marketplace = "vividseats"]
Unnamed(raw) == [raw EXCEPT ![1].marketplace = ""]
Linked ==
  { [Thread(LinkLines, 3) EXCEPT !.matched = TRUE, !.market = [Market(raw) EXCEPT !.gated = gated]] :
      raw \in Data \cup {Twins(d) : d \in Data} \cup {Unnamed(d) : d \in Data}, gated \in BOOLEAN }
\* Seats named within what they can pay.
Views(raw) == [raw EXCEPT ![1].view = 1, ![2].quantity = 3, ![3].quantity = 6]
Odd(raw) == [raw EXCEPT ![2].price = 50, ![2].quantity = 3]
Named ==
  { [Thread({Words([NoWords EXCEPT !.cap = cap]) : cap \in {120, 200, 240, 400}} \cup {Words(NoWords)}, 2)
       EXCEPT !.matched = TRUE,
              !.market = [Market(raw) EXCEPT !.goal = goal, !.beforeFees = before, !.visible = seen]] :
      raw \in Data \cup {Views(d) : d \in Data} \cup {Odd(d) : d \in Data} \cup {<<d[1], [d[1] EXCEPT !.number = 9], d[3]>> : d \in Data},
      goal \in {"value", "price", "view"}, before \in BOOLEAN, seen \in {TRUE} }

Showings == Listed \cup Rowed \cup Linked \cup Named
MCTalksAll == Prices \cup Terms \cup Needs \cup Counts \cup Concerts \cup Sent \cup Showings
=============================================================================
