-------------------------------- MODULE Packet --------------------------------
(***************************************************************************)
(* What an answer says and shows (lib/advice/packet.ts, buildPacket): one  *)
(* claim for each fact, with the evidence it rests on, the datasets whose  *)
(* prices its text carries, and whether the customer sees it.              *)
(*                                                                         *)
(* Wording is left out.  Modelled for a request with no listing, link or   *)
(* screenshot of the customer's own (those answers are the verdict's), at  *)
(* most a price they quoted.  Offers come from Offers, history from        *)
(* PriceHistory, the decision from Policy.  Pure: no state.                *)
(*                                                                         *)
(* The input `in` has what research found: best, alternatives, entry,      *)
(* levelWanted, togetherOver, closestOver, options (how many), leftOut,    *)
(* count, checked, bench, trend, trendShown, market, advice, and what it   *)
(* is asked: asks, followUp, quote, face, official, opens, budget, needs,  *)
(* watch, staff, picks, comparing.                                         *)
(***************************************************************************)
EXTENDS Offers

NoTrend == [used |-> {}, adequate |-> FALSE, historical |-> FALSE, window |-> FALSE,
            direction |-> "none"]
NoBench == [adequacy |-> "insufficient", reps |-> {}, shown |-> FALSE,
            p25 |-> 0, median |-> 0, p75 |-> 0]
\* The market: visible under its licence, dated and fresh, long enough to be read, for seats
\* like theirs (fits), a count of listings held, past games to compare.
NoMarket == [held |-> FALSE, visible |-> FALSE, current |-> FALSE, dated |-> FALSE,
             stale |-> FALSE, adequate |-> FALSE, group |-> FALSE, fits |-> TRUE,
             counted |-> FALSE, typical |-> FALSE, direction |-> "none"]

Claim(id, kind) ==
  [id |-> id, kind |-> kind, evidence |-> {}, shows |-> {}, visible |-> TRUE]
Say(condition, claim) == IF condition THEN {claim} ELSE {}

OfferClaim(id, kind, o) == [Claim(id, kind) EXCEPT !.evidence = {o.id}]
Priced(o) == o # NoOffer /\ Total(o) # NoPrice

\* The seats: the pick, what they could take instead, what is named and not offered.
OfferClaims(in) ==
     Say(Priced(in.best), OfferClaim("C_BEST", "current_offer", in.best))
  \cup Say(in.options > 1, Claim("C_OPTIONS", "option_count"))
  \cup Say(Priced(in.togetherOver),
           OfferClaim("C_TOGETHER_OVER", "alternative_offer", in.togetherOver))
  \cup Say(~Priced(in.togetherOver) /\ Priced(in.closestOver),
           OfferClaim("C_TOGETHER_OVER", "alternative_offer", in.closestOver))
  \cup Say(in.levelWanted # NoOffer, OfferClaim("C_LEVEL", "alternative_offer", in.levelWanted))
  \cup Say(Priced(in.entry), OfferClaim("C_ENTRY", "entry_reference", in.entry))
  \cup Say(in.leftOut # {}, Claim("C_LEFT_OUT", "coverage"))
  \cup UNION {Say(Priced(in.alternatives[i]),
                  OfferClaim(<<"C_ALT1", "C_ALT2">>[i], "alternative_offer", in.alternatives[i])) :
                i \in DOMAIN in.alternatives}

MarketCurrent(in) == in.market.visible /\ in.market.current

\* The range of past events, or that there is none.
BenchClaims(in) ==
  LET range == in.bench.adequacy \in {"limited", "sufficient"}
  IN    Say(range,
            [Claim("C_BENCH", "benchmark_range") EXCEPT
               !.evidence = {s.id : s \in in.bench.reps},
               !.shows = {s.dataset : s \in in.bench.reps}, !.visible = in.bench.shown])
   \cup Say(/\ ~range /\ in.checked # {} /\ ~(in.market.visible /\ in.market.typical),
            Claim("C_NOHIST", "missing_history"))

\* The trend of their basket, said only with a window to say it over.  A series that ended
\* is said with its own dates and prices; one too thin, by how many reads there are.
TrendClaims(in) ==
  LET said == in.trend.adequate /\ in.trend.window
      evidence == {o.at : o \in in.trend.used}
      prices == {o.dataset : o \in in.trend.used}
  IN    Say(in.trend # NoTrend /\ said,
            [Claim("C_TREND", "trend_change") EXCEPT
               !.evidence = evidence, !.shows = prices, !.visible = in.trendShown])
   \cup Say(in.trend # NoTrend /\ ~said,
            [Claim("C_NOTREND", "trend_change") EXCEPT
               !.evidence = evidence,
               !.shows = IF in.trend.historical THEN prices ELSE {},
               !.visible = in.trend.historical => in.trendShown])

\* Whether there are seats at all, and how many.
CountClaims(in) ==
  LET nothing == in.best = NoOffer /\ ~in.official /\ ~in.quote
      notOnSale == in.opens /\ nothing
      none == ~notOnSale /\ nothing /\ in.checked # {} /\ in.count = 0 /\ "count" \in in.asks
  IN    Say(notOnSale, Claim("C_SALE_OPENS", "official_sale"))
   \cup Say(none, Claim("C_NONE_LISTED", "option_count"))
   \cup Say(in.count # NoPrice /\ in.checked # {} /\ ~notOnSale /\ ~none,
            Claim("C_COUNT", "option_count"))

\* Listings named from the licensed read, when nothing verified stands in their place.
PicksShown(in) == in.picks # "none" /\ ~in.quote /\ ~Priced(in.best) /\ ~in.comparing
\* "How much?", when nothing else holds the price.
PriceAnswered(in) ==
  /\ "price" \in in.asks /\ ~in.quote /\ ~Priced(in.best) /\ ~in.comparing /\ ~PicksShown(in)
  /\ IF in.market.current THEN in.picks = "none" /\ in.market.visible ELSE in.picks = "none"

\* The price they saw, the official sale, what they asked for and what happens next.
QuoteClaims(in) ==
     Say(in.quote, Claim("C_QUOTE", "quoted_price"))
  \cup Say(~in.quote /\ in.face,
           [Claim("C_FACE", "face_value") EXCEPT !.visible = ~PriceAnswered(in)])
  \cup Say(PicksShown(in), Claim("C_PICKS", "market_price"))
  \cup Say(PriceAnswered(in),
           Claim("C_PRICE_ANSWER", IF in.market.current THEN "market_price" ELSE "coverage"))
  \cup Say(/\ in.official
           /\ PicksShown(in) \/ in.best # NoOffer \/ MarketCurrent(in) => in.face,
           Claim("C_OFFICIAL", "official_sale"))
NextClaims(in) ==
  LET priced == Priced(in.best) \/ Priced(in.togetherOver) \/ Priced(in.closestOver)
  IN    Say(/\ in.needs /\ ~priced /\ ~PriceAnswered(in) /\ ~PicksShown(in) /\ ~in.comparing,
            [Claim("C_REQS", "coverage") EXCEPT !.visible = in.watch # "running"])
   \cup Say(/\ in.budget # NoPrice /\ ~PicksShown(in) /\ ~Priced(in.best)
            /\ ~in.quote /\ ~in.comparing /\ in.otherGames,
            Claim("C_WAY_FORWARD", "alternative_market"))
   \cup Say(in.staff, Claim("C_STAFF", "coverage"))
   \cup Say(in.comparing, Claim("C_OFFERS", "quoted_price"))
   \cup Say("parking" \in in.asks, Claim("C_PARKING", "catches"))
   \cup Say(in.watch # "none", Claim("C_WATCH", "coverage"))
   \cup Say(in.advice.checkpoint # NoPrice, Claim("C_CHECKPOINT", "checkpoint"))

\* The market's own claims; none while their offers are compared.
MarketClaims(in) ==
  LET m == in.market
      seen(c) == [c EXCEPT !.visible = m.visible]
      priced == m.current /\ (m.adequate \/ (m.group /\ ~m.stale))
      against == in.quote /\ m.current /\ (priced \/ (m.dated /\ ~m.stale))
  IN  IF in.comparing \/ ~m.held THEN {}
      ELSE Say(priced, seen(Claim("C_MARKET", "market_price")))
        \cup Say(~priced /\ m.counted, seen(Claim("C_MARKET", "market_supply")))
        \cup Say(priced /\ m.typical, seen(Claim("C_MARKET_TYPICAL", "market_benchmark")))
        \cup Say(against, seen(Claim("C_QUOTE_MARKET", "quoted_price")))
        \cup Say(priced /\ m.visible /\ (in.timing \/ (in.budget # NoPrice /\ ~in.quote)),
                 Claim("C_READ", "market_read"))

-----------------------------------------------------------------------------
(* Asked "buy now or wait?": the answer, and whose prices it carries.      *)

Visible(claims, ids) == \E c \in claims : c.id \in ids /\ c.visible
Hide(claims, ids) == {[c EXCEPT !.visible = c.visible /\ c.id \notin ids] : c \in claims}
HideBut(claims, ids) == {[c EXCEPT !.visible = c.visible /\ c.id \in ids] : c \in claims}

MarketReady(m) == m.visible /\ m.current /\ m.adequate /\ m.dated /\ ~m.stale
\* The resale series answers for them: its own claim is shown, it can be read, it fits.
MarketAnswers(in, claims) ==
  Visible(claims, {"C_MARKET"}) /\ MarketReady(in.market) /\ in.market.fits
\* Why it cannot, when that is something they should hear.
MarketGap(in, claims) ==
  /\ in.market.visible /\ in.market.current
  /\ \/ ~in.market.dated
     \/ in.market.stale
     \/ Visible(claims, {"C_MARKET"}) /\ ~in.market.fits /\ MarketReady(in.market)

\* Their own trend when it is shown; else the market; else that there is none, in the words
\* of C_NOTREND whether it is shown or not.
TrendAnswer(in, claims) ==
  LET trend == {c \in claims : c.id = "C_TREND" /\ c.visible}
      thin == {c \in claims : c.id = "C_NOTREND"}
      words == CASE trend # {} -> trend
                 [] trend = {} /\ (MarketAnswers(in, claims) \/ MarketGap(in, claims)) -> {}
                 [] OTHER -> thin
  IN  {[Claim("C_TREND_ANSWER", "trend_change") EXCEPT
          !.shows = UNION {c.shows : c \in words}, !.evidence = UNION {c.evidence : c \in trend}]}

AnswerClaims(in) ==
     Say("view" \in in.asks /\ in.best # NoOffer, Claim("C_VIEW", "catches"))
  \cup Say("cheapest" \in in.asks /\ Priced(in.best), Claim("C_CHEAPEST", "option_count"))

\* Answers that make a reply in a thread only the answer.
FollowUpAnswers == {"C_TREND_ANSWER", "C_VIEW", "C_CHEAPEST", "C_OPTIONS", "C_TOGETHER_OVER",
                    "C_WATCH", "C_PARKING"}

\* Everything that can be said.
Sayable(in) ==
  QuoteClaims(in) \cup OfferClaims(in) \cup BenchClaims(in) \cup TrendClaims(in)
    \cup CountClaims(in) \cup NextClaims(in) \cup MarketClaims(in)

\* What is left out then, one rule after the other.
Answered(in, all) ==
  (IF "trend" \notin in.asks THEN all
   ELSE Hide(all, {"C_TREND", "C_NOTREND", "C_NOHIST"}) \cup TrendAnswer(in, all))
    \cup AnswerClaims(in)
Picked(all) ==
  IF Visible(all, {"C_PICKS"}) THEN Hide(all, {"C_MARKET", "C_MARKET_TYPICAL", "C_READ"}) ELSE all
Parked(in, all) == IF "parking" \in in.asks THEN HideBut(all, {"C_PARKING"}) ELSE all
Unsold(all) ==
  IF \E c \in all : c.id \in {"C_SALE_OPENS", "C_NONE_LISTED"}
  THEN Hide(all, {"C_BENCH", "C_NOHIST", "C_TREND", "C_NOTREND"}) ELSE all
Compared(in, all) == IF in.comparing THEN HideBut(all, {"C_OFFERS", "C_WATCH"}) ELSE all
Follow(in, all) ==
  IF in.followUp /\ Visible(all, FollowUpAnswers) THEN Hide(all, {"C_PICKS"}) ELSE all
Noise(asks) ==
  (IF "others" \in asks THEN {} ELSE {"C_LEFT_OUT", "C_ALT1", "C_ALT2"})
    \cup (IF asks \cap {"trend", "history"} # {} THEN {}
          ELSE {"C_NOHIST", "C_NOTREND", "C_BENCH", "C_TREND"})
    \cup (IF "count" \in asks THEN {} ELSE {"C_COUNT", "C_ENTRY"})
Focused(in, all) ==
  IF Visible(all, {"C_BEST", "C_PICKS"}) /\ ~in.comparing THEN Hide(all, Noise(in.asks)) ELSE all
Watched(in, all) ==
  IF in.watch = "running" /\ Visible(all, {"C_WATCH"}) /\ "count" \notin in.asks
  THEN Hide(all, {"C_REQS", "C_COUNT"}) ELSE all

\* Everything that can be said, and then what is left out, in the code's order.
BuildPacket(in) ==
  Watched(in, Focused(in, Follow(in, Compared(in, Unsold(Parked(in, Picked(
    Answered(in, Sayable(in)))))))))

\* What has to be fresh for the draft to go out.
VerifiedOffers(in) ==
  {o \in {in.best, in.entry} \cup Range(in.alternatives) : o # NoOffer}
=============================================================================
