-------------------------------- MODULE Policy --------------------------------
(***************************************************************************)
(* What the evidence supports: buy now, wait and look again, an            *)
(* alternative, or nothing (lib/advice/policy.ts).                         *)
(*                                                                         *)
(* Times are hours.  Best is the pick's total for the whole party, or      *)
(* NoPrice; quartiles are four times the price, as PriceHistory gives      *)
(* them.  Wording, abstentions and the codes kept for staff are left out;  *)
(* what is asked of the customer and what makes a wait stop are kept.      *)
(* Pure: no state.                                                         *)
(***************************************************************************)
EXTENDS Offers

CONSTANT DeliveryBuffer  \* hours before the event when delivery is no longer safe (24)

ASSUME BufferAssumption == DeliveryBuffer \in Nat

NoTime == -1

Decisions == {"buy_now", "wait_and_recheck", "consider_alternative", "insufficient_evidence"}
Risks == {"low", "medium", "high", "unsaid"}

PriceAttractiveness(best, bench) ==
  CASE best = NoPrice \/ bench.adequacy = "insufficient" -> "unknown"
    [] best # NoPrice /\ bench.adequacy # "insufficient" /\ 4 * best < bench.p25 -> "below_typical"
    [] best # NoPrice /\ bench.adequacy # "insufficient" /\ 4 * best > bench.p75 -> "above_typical"
    [] OTHER -> "within_typical"

\* The earliest of the last safe delivery and the day they must decide by.
WaitDeadline(in) ==
  Min({in.start - DeliveryBuffer} \cup ({in.terms.deadline} \ {NoTime}))

WaitCheckpoint(in) == Min({WaitDeadline(in), in.now + 24})

Shrinking(in) == in.market.supply = "shrinking"
\* The customer's own prices falling, by the market's series, with listings holding.
MarketFalling(in) == in.market.basis /\ in.market.direction = "down" /\ ~Shrinking(in)

AcceptsRisk(in) == in.terms.risk \in {"medium", "high"}
Certain(in) == in.terms.mustAttend /\ in.terms.risk \in {"low", "unsaid"}

\* A wait: until when, when to look again, whether a watch keeps looking for them.
WaitAdvice(in) ==
  [decision |-> "wait_and_recheck", checkpoint |-> WaitCheckpoint(in),
   until |-> WaitDeadline(in), watch |-> in.terms.consent /\ in.monitored]
Advise(decision) ==
  [decision |-> decision, checkpoint |-> NoTime, until |-> NoTime, watch |-> FALSE]

HasOffer(in) == in.best # NoPrice
WithinBudget(in) == in.terms.budget = NoPrice \/ in.best <= in.terms.budget

\* With nothing verified, the market alone may argue for waiting.
MarketWait(in) ==
  /\ ~HasOffer(in) /\ MarketFalling(in)
  /\ in.now < WaitDeadline(in) /\ ~in.terms.mustAttend
  /\ AcceptsRisk(in) /\ in.terms.deadline # NoTime

\* The pressures that say buy, in the order they are asked.
Pressed(in) ==
  \/ in.now >= WaitDeadline(in)
  \/ Certain(in)
  \/ Shrinking(in)

AboveTarget(in) ==
  \/ PriceAttractiveness(in.best, in.bench) = "above_typical"
  \/ in.terms.budget # NoPrice /\ 10 * in.best > 9 * in.terms.budget

TrendWait(in) ==
  /\ ~Pressed(in)
  /\ (in.trend.adequate /\ in.trend.direction = "down") \/ MarketFalling(in)
  /\ AboveTarget(in)
  /\ AcceptsRisk(in) /\ in.terms.deadline # NoTime

\* The advice; deliveryFeasible is never "no" in research, and is left out.
Decide(in) ==
  CASE MarketWait(in) -> WaitAdvice(in)
    [] ~MarketWait(in) /\ ~(HasOffer(in) /\ WithinBudget(in)) ->
         Advise(IF in.alternative THEN "consider_alternative" ELSE "insufficient_evidence")
    [] HasOffer(in) /\ WithinBudget(in) /\ TrendWait(in) -> WaitAdvice(in)
    [] HasOffer(in) /\ WithinBudget(in) /\ ~TrendWait(in) -> Advise("buy_now")
=============================================================================
