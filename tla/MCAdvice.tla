------------------------------- MODULE MCAdvice -------------------------------
(***************************************************************************)
(* Threads for Journey: few acts and venues, each scene one kind of        *)
(* conversation (today is Sunday, October 1).  Requests for Advice:        *)
(* families of cases, each varied around one base in the direction it is   *)
(* about.                                                                  *)
(***************************************************************************)
EXTENDS Journey, TLC

P == INSTANCE Replies   \* the vocabulary of threads

Oct(d) == 272 + d

MCMarkets == ("ny" :> "ny") @@ ("brooklyn" :> "ny") @@ ("phl" :> "phl") @@ ("ct" :> "ct")
             @@ ("tx" :> "tx") @@ ("la" :> "la")
MCMiles(ny, phl) == [m \in {"ny", "phl", "ct", "tx", "la"} |->
                       CASE m = "ny" -> ny [] m = "phl" -> phl [] OTHER -> 900]
Place(city, market, state, ny, phl) ==
  [city |-> city, market |-> market, state |-> state, us |-> TRUE, zoned |-> TRUE,
   miles |-> MCMiles(ny, phl)]
MCVenues ==
  [garden |-> Place("ny", "ny", "NY", 0, 95), bay |-> Place("brooklyn", "ny", "NY", 5, 100),
   center |-> Place("phl", "phl", "PA", 95, 0), sun |-> Place("ct", "ct", "CT", 50, 200),
   field |-> Place("tx", "tx", "TX", 1400, 1300), forum |-> Place("la", "la", "CA", 2400, 2400),
   abroad |-> [Place("london", "london", "UK", 3400, 3500) EXCEPT !.us = FALSE]]

Act(order, names, team, home, market) ==
  [order |-> order, names |-> names, within |-> {}, starts |-> {}, team |-> team,
   home |-> home, market |-> market]
MCActs ==
  [blue |-> [Act(2, {"rangers", "new york rangers"}, TRUE, "garden", "ny")
               EXCEPT !.within = {"york"}],
   red |-> Act(4, {"rangers", "texas rangers"}, TRUE, "field", "tx"),
   orange |-> Act(3, {"flyers"}, TRUE, "center", "phl"),
   metal |-> Act(1, {"metallica"}, FALSE, P!NoOne, P!NoOne),
   tribute |-> [Act(5, {"metal echo"}, FALSE, P!NoOne, P!NoOne) EXCEPT !.within = {"metal"},
                                                                  !.starts = {"metal"}]]

\* A row of the catalog, and what the provider lists.
Game(id, act, other, venue, day, hour, home) ==
  [id |-> id, act |-> act, other |-> other,
   sides |-> MCActs[act].names \cup (IF other = P!NoOne THEN {} ELSE MCActs[other].names),
   home |-> home, venue |-> venue, day |-> Oct(day), hour |-> hour, status |-> "scheduled",
   kind |-> "game", show |-> act, extras |-> 0]
Show(id, act, venue, day) == Game(id, act, P!NoOne, venue, day, 20, "unknown")
Listed(g, title) ==
  [id |-> g.id, sides |-> IF g.other = P!NoOne THEN <<g.act>> ELSE <<g.act, g.other>>,
   title |-> title, venue |-> g.venue, start |-> "local", day |-> g.day, hour |-> g.hour,
   code |-> "scheduled", kind |-> g.kind, show |-> g.show, extras |-> g.extras]

NoReply ==
  [place |-> P!None, cheapest |-> FALSE, month |-> P!None, date |-> P!None, weekday |-> P!None,
   side |-> P!NoOne, rejects |-> FALSE, order |-> "none", yes |-> FALSE]
Message ==
  [brief |-> P!BlankBrief, says |-> P!Silent, reply |-> NoReply, links |-> {}, cheapest |-> FALSE,
   alt |-> FALSE, notify |-> FALSE, another |-> FALSE]
Names(act) == [Message EXCEPT !.brief.act = act]
For(m) == [m EXCEPT !.brief.count = "said"]
On(m, day) == [m EXCEPT !.brief.date = Oct(day), !.says.dated = TRUE]
In(m, city) == [m EXCEPT !.brief.city = city]
Says(m, says) == [m EXCEPT !.says = says]
Replies(reply) == [Message EXCEPT !.reply = reply]
Nth(n) == Replies([NoReply EXCEPT !.place = n])
Two == For(Message)

BaseScene ==
  [acts |-> MCActs, venues |-> MCVenues, markets |-> MCMarkets, default |-> "ny", home |-> P!NoOne,
   catalog |-> {}, listed |-> {}, script |-> <<>>, now |-> 24 * Oct(1) + 10, changes |-> 0,
   step |-> 0, other |-> P!NoOne, ahead |-> 10, perishable |-> {}, available |-> FALSE,
   later |-> {}, web |-> FALSE, route |-> "researching", prices |-> <<>>, onFile |-> {}]

RangersGames ==
  {Game(1, "blue", "orange", "garden", 5, 19, "yes"), Game(2, "blue", "orange", "center", 7, 19, "unknown"),
   Game(3, "blue", P!NoOne, "garden", 10, 13, "yes"), Game(4, "orange", "blue", "center", 14, 19, "yes")}
TexasGames == {Game(5, "red", P!NoOne, "field", 6, 19, "yes")}
Tour ==
  {Show(11, "metal", "center", 12), Show(12, "metal", "sun", 19), Show(13, "metal", "sun", 21),
   [Show(14, "metal", "sun", 21) EXCEPT !.extras = 1]}

Scene(catalog, script) ==
  [BaseScene EXCEPT !.catalog = catalog, !.script = script]
Off(rule) == [P!Silent EXCEPT !.out = rule]

\* Settled, a count asked for, and a further rule or question that may move it.
RuleScenes ==
  { Scene(RangersGames \cup TexasGames, <<Names("rangers"), m, Two>>) :
      m \in { Two,
              Says(Two, [P!Silent EXCEPT !.home = TRUE, !.next = TRUE]),
              Says(Two, [P!Silent EXCEPT !.before = 17]),
              Says(Message, Off({"garden"})),
              Says(Message, [P!Silent EXCEPT !.notDays = {4}]),
              Says(Message, [P!Silent EXCEPT !.region = "west"]),
              Says(Two, [P!Silent EXCEPT !.span = [kind |-> "next_week"]]),
              [Two EXCEPT !.alt = TRUE, !.brief.date = Oct(10)],
              For(Names("flyers")), For(Names("metallica")),
              On(Names("rangers"), 14) } }
  \cup
  { Scene(RangersGames, <<[For(On(Names("rangers"), 7)) EXCEPT !.says.venues = {"garden"},
                                                              !.brief.city = "ny"],
                          Says(Two, [P!Silent EXCEPT !.home = TRUE])>>),
    Scene(RangersGames, <<For(On(Names("flyers"), 5)), Nth(1)>>),
    Scene(RangersGames, <<[For(Names("rangers")) EXCEPT !.brief.versus = "flyers",
                                                        !.brief.matchup = TRUE]>>),
    Scene({}, <<For(Names("rangers")), Message, Message, Message, Message>>) }

\* Several that fit: picked by place, day, name, price; one is called off meanwhile.
ListScenes ==
  { [Scene(Tour, <<For(Names("metallica")), m, Nth(1)>>) EXCEPT
       !.changes = 1, !.perishable = {11, 12}] :
      m \in { Nth(2), Nth(P!LastOne), Nth(4), Replies([NoReply EXCEPT !.date = 19]),
              Replies([NoReply EXCEPT !.weekday = 4, !.rejects = TRUE]),
              Replies([NoReply EXCEPT !.order = "later"]), On(Message, 40) } }
  \cup
  { [Scene(RangersGames, <<[For(Names("rangers")) EXCEPT !.cheapest = TRUE], m>>) EXCEPT
       !.prices = (1 :> 90) @@ (3 :> 70), !.onFile = onFile] :
      onFile \in {{}, {1, 3}},
      m \in {[Replies([NoReply EXCEPT !.cheapest = TRUE]) EXCEPT !.cheapest = TRUE], Nth(1)} }
  \cup { [Scene(Tour, <<For(Names("metallica"))>>) EXCEPT !.home = "phl"],
         Scene(Tour, <<For(Names("metal"))>>),
         Scene(Tour, <<[For(Names("metallica")) EXCEPT !.links = {12}]>>) }

\* Nothing where they asked: shows elsewhere, near or far; the web; abroad.
PlaceScenes ==
  { [Scene(shows, <<For(In(m, "ny")), reply>>) EXCEPT !.available = available,
       !.listed = {Listed(Show(12, "metal", "sun", 19), "none")}, !.web = web] :
      shows \in {Tour, {Show(15, "metal", "forum", 19)}, {Show(16, "metal", "abroad", 19)}},
      m \in {Names("metallica"), On(Names("metallica"), 19)}, reply \in {Nth(1)},
      available \in BOOLEAN, web \in {FALSE} }
  \cup { [Scene({}, <<For(Names("metallica"))>>) EXCEPT !.web = TRUE],
         Scene({Show(16, "metal", "abroad", 19)}, <<For(Names("metallica"))>>),
         [Scene(Tour, <<For(Names("metallica"))>>) EXCEPT !.route = "referred"] }

\* The provider is asked, by others too; an answer is cut at a page; calls run out.
SearchScenes ==
  { [Scene({}, <<For(m), reply>>) EXCEPT
       !.available = TRUE, !.changes = 2, !.other = "rangers", !.step = step,
       !.listed = {Listed(g, "vs") : g \in RangersGames}] :
      m \in {On(Names("rangers"), 7), On(Names("rangers"), 9), Says(Names("rangers"), Off({"center"}))},
      reply \in {On(Message, 10)}, step \in {2, 24} }
  \cup
  { [Scene({}, <<For(On(Names("rangers"), 10))>>) EXCEPT
       !.available = TRUE, !.changes = 2, !.other = "rangers", !.listed = {Listed(Game(1, "blue", "orange", "garden", 5, 19, "yes"), "vs")},
       !.later = later] :
      later \in {{}, {Listed(Game(3, "blue", P!NoOne, "garden", 10, 13, "yes"), "none")}} }

MCScenesAll == {BaseScene} \cup RuleScenes \cup ListScenes \cup PlaceScenes \cup SearchScenes

-----------------------------------------------------------------------------
(* Requests.                                                               *)

T == INSTANCE MCTalks
MCTalksAll == T!MCTalksAll

Hour == 200

\* An offer that suits the base request, and what may be wrong with one.
Seat(id) ==
  [id |-> id, ours |-> TRUE, quantity |-> 2, restrictions |-> {}, together |-> "yes",
   reserved |-> TRUE, class |-> "low", level |-> "lower", availability |-> "available",
   payable |-> 40000, base |-> 36000, fees |-> 3000, tax |-> 1000, delivery |-> 0,
   delivered |-> TRUE, verified |-> TRUE, at |-> 0, source |-> "fix", place |-> id,
   staff |-> FALSE]
Pool ==
  { Seat(1),
    [Seat(2) EXCEPT !.payable = 30000, !.level = "upper", !.class = "high"],
    [Seat(3) EXCEPT !.payable = 28000, !.together = "no"],
    [Seat(4) EXCEPT !.payable = 29000, !.restrictions = {"obstructed_view"}],
    [Seat(5) EXCEPT !.payable = NoPrice, !.fees = NoPrice],
    [Seat(6) EXCEPT !.payable = NoPrice, !.class = "high"],
    [Seat(7) EXCEPT !.payable = 15000, !.quantity = 1],
    [Seat(8) EXCEPT !.payable = 27000, !.restrictions = {"accessible"}, !.place = 1,
                    !.source = "man"],
    [Seat(9) EXCEPT !.payable = 26000, !.together = "unknown", !.level = "upper"],
    [Seat(10) EXCEPT !.payable = 25000, !.ours = FALSE],
    [Seat(11) EXCEPT !.payable = 24000, !.availability = "unavailable"],
    [Seat(12) EXCEPT !.payable = 23000, !.verified = FALSE],
    [Seat(14) EXCEPT !.payable = 22000, !.restrictions = {"section_not_acceptable"}],
    [Seat(13) EXCEPT !.payable = NoPrice, !.delivery = NoPrice, !.class = "club"] }
ByStaff(o) == [o EXCEPT !.id = 20, !.staff = TRUE, !.source = "man"]

Source(implementation) ==
  [enabled |-> TRUE, quotes |-> TRUE, approved |-> TRUE, implementation |-> implementation,
   manual |-> implementation \in {"fixture", "manual"}, monitoring |-> FALSE]
Open == [status |-> "approved", uses |-> Uses, raw |-> "open", derived |-> "open"]
Hidden == [Open EXCEPT !.uses = {"benchmark", "advice"}]

Base ==
  [now |-> Hour, start |-> Hour + 100, ticks |-> 0, changes |-> 0,
   category |-> "concert", format |-> "touring", us |-> TRUE, overrides |-> <<>>,
   blocked |-> FALSE, mode |-> "enforce",
   candidates |-> <<"fix">>, adapters |-> [fix |-> Source("fixture")], covered |-> {},
   listed |-> [fix |-> {Seat(1)}], entered |-> {}, ago |-> {0},
   terms |-> [quantity |-> 2, together |-> "unsaid", budget |-> NoPrice, accessible |-> FALSE,
              level |-> "any", area |-> FALSE, mustAttend |-> FALSE, risk |-> "unsaid",
              deadline |-> NoTime, consent |-> FALSE, asks |-> {}, followUp |-> FALSE,
              quote |-> FALSE, needs |-> FALSE, watch |-> "none"],
   snapshots |-> {}, target |-> [event |-> 0, kind |-> "k", home |-> "home", quantity |-> 2,
                                 class |-> "none", lead |-> 100],
   reads |-> {}, series |-> {}, refresh |-> {}, shop |-> {}, asOf |-> -1,
   basis |-> "whole_party", past |-> {}, rights |-> [d1 |-> Open],
   licence |-> {}, listings |-> "none", face |-> FALSE, official |-> FALSE, opens |-> FALSE,
   otherGames |-> FALSE,
   follows |-> [sendEnabled |-> TRUE, marketKey |-> TRUE, alerts |-> FALSE, followed |-> FALSE],
   staffed |-> FALSE, autoApprove |-> FALSE,
   risen |-> 45000]

-----------------------------------------------------------------------------
(* Comparison: what is listed, what they want.                             *)
OfferCases ==
  {[Base EXCEPT !.listed.fix = offers, !.terms.together = together, !.terms.level = level,
                !.terms.budget = budget, !.terms.accessible = access,
                !.terms.asks = {"options", "count", "others", "cheapest"}] :
     offers \in {o \in SUBSET Pool : Cardinality(o) \in 1 .. 2}, together \in {"yes", "unsaid"},
     level \in {"any", "lower"}, budget \in {NoPrice, 32000}, access \in BOOLEAN}
  \cup
  {[Base EXCEPT !.listed.fix = {Seat(1), [Seat(2) EXCEPT !.payable = 20000]}, !.basis = basis,
                !.terms.budget = 21000] : basis \in {"whole_party", "per_person", "unknown"}}

-----------------------------------------------------------------------------
(* Their own trend: how prices went, when, by whose rights.                *)
Reads(prices, hours, last, dataset) ==
  {[at |-> last - hours * (Len(prices) - i), price |-> prices[i], complete |-> TRUE,
    sources |-> {"fix"}, dataset |-> dataset, class |-> "low"] : i \in DOMAIN prices}
Prices == { <<50000, 47000, 45000, 42000>>, <<50000, 49900, 49800, 49700>>,
            <<40000, 42000, 45000, 47000>>, <<50000, 42000, 49000, 43000>> }
Timed == [Base EXCEPT !.terms.budget = 42000, !.terms.risk = "medium", !.terms.deadline = Hour + 60,
                      !.terms.asks = {"trend"}, !.licence = {"tracking", "advice", "display"}]

TrendCases ==
  {[Timed EXCEPT !.reads = Reads(prices, hours, Hour - ago, "d1"), !.rights = [d1 |-> r],
                 !.terms.asks = asks] :
     prices \in Prices, hours \in {1, 3}, ago \in {0, 30}, r \in {Open, Hidden},
     asks \in {{"trend"}, {}}}
  \cup
  {[Timed EXCEPT !.reads = Reads(<<50000, 47000, 45000, 42000>>, 3, Hour, "d1"),
                 !.terms.risk = risk, !.terms.mustAttend = must, !.terms.deadline = day,
                 !.start = Hour + start, !.terms.consent = must, !.follows.alerts = TRUE,
                 !.follows.followed = must] :
     risk \in {"unsaid", "low", "high"}, must \in BOOLEAN, day \in {NoTime, Hour - 1, Hour + 10},
     start \in {20, 30, 100}}

-----------------------------------------------------------------------------
(* The market: dated or not, for one, two or four, falling, running out.   *)
Points(basis, prices, counts, dated, ago) ==
  {[basis |-> basis, zone |-> "all", at |-> Hour - ago - 10 * (Len(prices) - i), dated |-> dated,
    price |-> prices[i], count |-> counts[i]] : i \in DOMAIN prices}
Falling == <<30000, 28000, 27000, 25000>>
Level == <<30000, 30000, 30100, 30000>>
Plenty == <<90, 88, 91, 90>>
Leaving == <<90, 80, 60, 40>>

MarketCases ==
  {[Timed EXCEPT !.series = Points(basis, prices, counts, dated, ago)
                               \cup Points(1, Level, counts, dated, ago)
                               \cup zoned, !.terms.quantity = quantity,
                 !.listed.fix = {[Seat(1) EXCEPT !.quantity = quantity]},
                 !.licence = licence, !.terms.area = area] :
     basis \in {2, 4}, quantity \in {2, 4}, prices \in {Falling, Level},
     counts \in {Plenty, Leaving}, dated \in BOOLEAN, ago \in {0, 30},
     licence \in {{"tracking", "advice", "display"}, {"tracking", "display"}}, area \in BOOLEAN,
     zoned \in {{}, {[p EXCEPT !.zone = "area"] : p \in Points(2, Falling, Plenty, TRUE, 0)}}}
  \cup
  {[Timed EXCEPT !.series = Points(4, Falling, Plenty, TRUE, 12), !.terms.quantity = 4,
                 !.listed.fix = {}, !.asOf = asOf, !.terms.needs = TRUE,
                 !.shop = {[ordinary |-> i > 1, active |-> i > 2, quantity |-> i,
                            price |-> 20000 + 1000 * i] : i \in 1 .. 6}] :
     asOf \in {-1, Hour - 12, Hour - 1}}
  \cup
  {[Timed EXCEPT !.series = Points(1, Level, counts, TRUE, 0), !.start = Hour + start,
                 !.reads = Reads(<<50000, 47000, 45000, 42000>>, 3, Hour, "d1")] :
     counts \in {Plenty, Leaving}, start \in {30, 100}}
  \cup
  {[Timed EXCEPT !.series = Points(2, Falling, counts, TRUE, 0)
                              \cup Points(1, Falling, counts, TRUE, 0), !.listed.fix = {},
                 !.terms.needs = TRUE, !.terms.mustAttend = must, !.listings = listings,
                 !.staffed = TRUE, !.terms.watch = watch, !.otherGames = TRUE] :
     counts \in {Plenty, Leaving}, must \in BOOLEAN, listings \in {"none", "fits", "over"},
     watch \in {"none", "running", "refused"}}
  \cup
  {[Timed EXCEPT !.refresh = Points(2, Falling, counts, TRUE, 0)
                               \cup Points(1, Falling, counts, TRUE, 0), !.listed.fix = {},
                 !.reads = Reads(<<50000, 47000, 45000, 42000>>, 3, Hour, "d1"),
                 !.terms.asks = asks, !.terms.followUp = follow, !.official = follow] :
     counts \in {Plenty, Leaving}, asks \in {{}, {"trend"}, {"price"}, {"parking", "count"}},
     follow \in BOOLEAN}

-----------------------------------------------------------------------------
(* Past events.                                                            *)
Snap(id, event, price) ==
  [id |-> id, event |-> event, dataset |-> "d1", kind |-> "k", home |-> "home", quantity |-> 2,
   class |-> "low", complete |-> TRUE, price |-> price, lead |-> 100]
Past(n, spread) == {Snap(i, i, 30000 + spread * i) : i \in 1 .. n}
Odd == {[Snap(20, 0, 10000) EXCEPT !.lead = 101], [Snap(21, 21, 10000) EXCEPT !.quantity = 4],
        [Snap(22, 22, 10000) EXCEPT !.lead = 400], [Snap(23, 23, 10000) EXCEPT !.home = "unknown"],
        [Snap(24, 1, 10000) EXCEPT !.lead = 120], [Snap(25, 25, 10000) EXCEPT !.dataset = "d2"]}

HistoryCases ==
  {[Base EXCEPT !.snapshots = Past(n, spread) \cup odd, !.rights = [d1 |-> Open, d2 |-> r],
                !.terms.asks = {"history"}, !.terms.budget = budget] :
     n \in {4, 5, 6, 10}, spread \in {0, 1000}, odd \in {{}, Odd},
     r \in {Open, Hidden, [Open EXCEPT !.raw = "over"], [Open EXCEPT !.status = "revoked"]},
     budget \in {NoPrice, 42000}}

-----------------------------------------------------------------------------
(* Depth and sources.                                                      *)
Sources == [a |-> Source("fixture"), b |-> Source("manual"),
            c |-> [Source("ticketmaster_discovery") EXCEPT !.approved = FALSE],
            d |-> [Source("custom") EXCEPT !.enabled = FALSE], e |-> Source("custom"),
            f |-> Source("manual"), g |-> Source("manual"), h |-> Source("custom")]
Many == [Base EXCEPT !.candidates = <<"c", "h", "b", "d", "e", "f", "g", "a">>,
                     !.adapters = Sources, !.covered = {"e"},
                     !.listed = [a |-> {Seat(1)}]]

DepthCases ==
  {[Many EXCEPT !.category = category, !.format = format, !.overrides = over, !.mode = mode,
                !.blocked = blocked, !.us = us] :
     category \in {"concert", "broadway", "electronic", "unknown", "travel"},
     format \in {"touring", "club", "unknown"}, over \in {<<>>, <<"core">>, <<"guide", "core">>},
     mode \in {"enforce", "shadow"}, blocked \in BOOLEAN, us \in BOOLEAN}

-----------------------------------------------------------------------------
(* What happens while it is made, approved and mailed.                     *)
Falls == Reads(<<50000, 47000, 45000, 42000>>, 3, Hour, "d1")
Kept == [Base EXCEPT !.entered = {ByStaff([Seat(1) EXCEPT !.class = "low"])}, !.ago = {0, 8},
                     !.reads = Falls, !.terms.asks = {"history"}, !.listed.fix = {}]

LifeCases ==
  { [Kept EXCEPT !.ticks = 3, !.changes = 1],
    [Kept EXCEPT !.ticks = 2, !.changes = 2, !.listed.fix = {Seat(1)}, !.entered = {},
                 !.autoApprove = TRUE],
    [Kept EXCEPT !.ticks = 2, !.changes = 1, !.start = Hour + 20, !.autoApprove = TRUE],
    [Kept EXCEPT !.ticks = 8, !.entered = {}],
    [Kept EXCEPT !.ticks = 2, !.changes = 2, !.entered = {}, !.category = "broadway",
                 !.overrides = <<"core">>],
    [Kept EXCEPT !.ticks = 1, !.changes = 1, !.mode = "shadow"],
    [Kept EXCEPT !.ticks = 2, !.changes = 1, !.terms.quote = TRUE, !.listed.fix = {},
                 !.licence = {"tracking", "advice", "display"}, !.entered = {},
                 !.refresh = Points(2, Falling, Plenty, TRUE, 0)] }

\* A request settled in a scene goes on as the base case.
MCSettled == {Base}
MCCases == OfferCases \cup TrendCases \cup MarketCases \cup HistoryCases \cup DepthCases
              \cup LifeCases \cup MCSettled
=============================================================================
