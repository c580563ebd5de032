-------------------------------- MODULE Offers --------------------------------
(***************************************************************************)
(* Comparing ticket offers (lib/domain/comparison.ts, lib/domain/money.ts, *)
(* lib/domain/freshness.ts) and what research picks from a comparison      *)
(* (lib/intake/pipeline.ts, research).                                     *)
(*                                                                         *)
(* An offer is judged on the whole party's total, and a part of the price  *)
(* that is not known is never taken as zero.  Pure: no state.              *)
(***************************************************************************)
EXTENDS Integers, Sequences, FiniteSets, FiniteSetsExt, SequencesExt, Order

\* A price that is not known, and no offer.
NoPrice == -1
NoOffer == [id |-> 0]

\* An offer in another currency or in a section they would not take, which the code tells
\* from fields of their own, has one more restriction here; wheelchair and companion spaces
\* are "accessible".
Excluding == {"parking_only", "different_session", "resale_deposit", "vip_package", "currency"}
Restrictions == Excluding \cup {"obstructed_view", "section_not_acceptable", "accessible"}
ExclusionReason ==
  Excluding \cup {"wrong_event", "wrong_quantity", "obstructed_view", "not_accessible",
                  "accessible_only", "section_not_acceptable", "seats_not_together",
                  "unavailable", "over_budget"}

\* An offer as it is stored: prices in cents, "at" the minute it was read; "class" is its
\* seat quality, "place" its section and row.
Amount == Nat \cup {NoPrice}
Offer ==
  [id : Nat \ {0}, ours : BOOLEAN, quantity : Nat, restrictions : SUBSET Restrictions,
   together : {"yes", "no", "unknown"}, reserved : BOOLEAN, class : STRING, level : STRING,
   availability : {"available", "unknown", "unavailable"}, payable : Amount, base : Amount,
   fees : Amount, tax : Amount, delivery : Amount, delivered : BOOLEAN, verified : BOOLEAN,
   at : Int, source : STRING, place : Nat, staff : BOOLEAN]

\* Whole-party payable total; else the sum of its parts, when all are known.
Total(o) ==
  IF o.payable # NoPrice THEN o.payable
  ELSE IF NoPrice \in {o.base, o.fees, o.tax, o.delivery} THEN NoPrice
  ELSE o.base + o.fees + o.tax + o.delivery

\* The terms of a request, `c`: how many seats, together or not ("yes", "no", "unsaid"),
\* the whole party's budget, whether they need an accessible space.
Exclusions(o, c) ==
  {r \in ExclusionReason :
    \/ r \in Excluding /\ r \in o.restrictions
    \/ r = "wrong_event" /\ ~o.ours
    \/ r = "wrong_quantity" /\ o.quantity # c.quantity
    \/ r \in {"obstructed_view", "section_not_acceptable"} /\ r \in o.restrictions
    \/ r = "not_accessible" /\ c.accessible /\ "accessible" \notin o.restrictions
    \/ r = "accessible_only" /\ ~c.accessible /\ "accessible" \in o.restrictions
    \/ r = "seats_not_together" /\ c.together = "yes" /\ c.quantity > 1 /\ o.together = "no"
    \/ r = "unavailable" /\ o.availability = "unavailable"
    \/ r = "over_budget" /\ c.budget # NoPrice /\ Total(o) > c.budget}

\* What has to be checked by a person before an offer is called eligible.
Flags(o, c) ==
  {f \in {"adjacency_unknown", "availability_unknown", "fees_unknown", "tax_unknown",
          "delivery_unknown", "estimated_total"} :
    \/ /\ f = "adjacency_unknown"
       /\ c.together = "yes" /\ c.quantity > 1 /\ o.together = "unknown" /\ o.reserved
    \/ f = "availability_unknown" /\ o.availability = "unknown"
    \/ f = "fees_unknown" /\ o.payable = NoPrice /\ o.fees = NoPrice
    \/ f = "tax_unknown" /\ o.payable = NoPrice /\ o.tax = NoPrice
    \/ f = "delivery_unknown" /\ o.payable = NoPrice /\ o.delivery = NoPrice /\ ~o.delivered
    \/ f = "estimated_total" /\ ~o.verified}

Verdict(o, c) ==
  CASE Exclusions(o, c) # {} -> "excluded"
    [] Exclusions(o, c) = {} /\ Flags(o, c) # {} -> "needs_review"
    [] OTHER -> "eligible"

\* The order of a list: cheapest, then fresher, then with a delivery method; an
\* unknown total comes last.
Ranks(a, b) ==
  LET key(o) == << IF Total(o) = NoPrice THEN 1 ELSE 0, Total(o), -o.at,
                   IF o.delivered THEN 0 ELSE 1, o.id >>
  IN  \E i \in 1 .. 5 : key(a)[i] < key(b)[i] /\ \A j \in 1 .. i - 1 : key(a)[j] = key(b)[j]

\* Seats that are not together, for a party that has not said that is fine.
Apart(o, c) == c.quantity > 1 /\ c.together # "no" /\ o.together = "no"

Before(a, b, c) ==
  \/ ~Apart(a, c) /\ Apart(b, c)
  \/ Apart(a, c) = Apart(b, c) /\ Ranks(a, b)

Judged(offers, c, verdict) == {o \in offers : Verdict(o, c) = verdict}

\* A list as the customer's terms order it.
Ranked(offers, c) == LET before(a, b) == Before(a, b, c) IN Sorted(offers, before)
Eligible(offers, c) == Ranked(Judged(offers, c, "eligible"), c)
NeedsReview(offers, c) == Sorted(Judged(offers, c, "needs_review"), Ranks)
Excluded(offers, c) == Judged(offers, c, "excluded")

\* The first of a list that satisfies a test, if one does.
First(s) == IF s = <<>> THEN NoOffer ELSE Head(s)

\* Possible duplicates: the same seats from two sources, told by section and row.
PossibleDuplicates(offers, c) ==
  LET candidates == Judged(offers, c, "eligible") \cup Judged(offers, c, "needs_review")
  IN  {pair \in kSubset(2, candidates) :
        \E a, b \in pair : a.source # b.source /\ a.place = b.place /\ a.quantity = b.quantity}

\* NoPrice when the offers may be the same seats.
IndependentOptionCount(offers, c) ==
  IF PossibleDuplicates(offers, c) # {} THEN NoPrice ELSE Len(Eligible(offers, c))

WholePartyBudget(budget, basis, quantity) ==
  CASE budget = NoPrice \/ basis = "unknown" -> NoPrice
    [] budget # NoPrice /\ basis = "whole_party" -> budget
    [] OTHER -> budget * quantity

-----------------------------------------------------------------------------
(* What research takes from a comparison.                                  *)

\* Faulty variant of Best: the cheapest that fits leads, whatever level they asked for.
FaultyBest(offers, c) == First(Eligible(offers, c))

\* The cheapest that fits in the level they asked for, else the cheapest that fits.
Best(offers, c) ==
  LET fits == Judged(offers, c, "eligible")
      there == {o \in fits : o.level = c.level}
  IN  First(Ranked(IF c.level # "any" /\ there # {} THEN there ELSE fits, c))

\* The best of each class of seat but the pick's own, two at most.
Alternatives(offers, c) ==
  LET listed == Eligible(offers, c) \o NeedsReview(offers, c)
      best == Best(offers, c)
      leads(i) == /\ best # NoOffer => listed[i].class # best.class
                  /\ \A j \in 1 .. i - 1 : listed[j].class # listed[i].class
      first(i, j) == i < j
      leading == Sorted({i \in DOMAIN listed : leads(i)}, first)
  IN  [n \in DOMAIN leading \cap {1, 2} |-> listed[leading[n]]]

\* For a party: the cheapest single seat, a reference and not their price.
EntryReference(offers, c) ==
  IF c.quantity = 1 THEN NoOffer
  ELSE First(Eligible({o \in offers : o.quantity = 1 /\ o.ours},
                      [c EXCEPT !.quantity = 1, !.together = "no", !.budget = NoPrice]))

Unbudgeted(c) == [c EXCEPT !.budget = NoPrice]

\* Nothing in their level fits: what it costs there, whatever the budget.
LevelWanted(offers, c) ==
  LET best == Best(offers, c)
  IN  IF c.level = "any" \/ best = NoOffer \/ best.level = c.level THEN NoOffer
      ELSE First(Ranked({o \in Judged(offers, Unbudgeted(c), "eligible") : o.level = c.level}, c))

\* "What are the options?": the pick, the rest that fits, and what sits together whatever the
\* budget; three at most.
OptionCount(offers, c) ==
  LET fits == Judged(offers, c, "eligible")
      sits == {o \in Judged(offers, Unbudgeted(c), "eligible") : o.together = "yes"}
  IN  IF fits = {} THEN 0
      ELSE Min({3, Cardinality({<<o.place, o.together>> : o \in fits \cup sits})})

\* Asked to sit together, and nothing together fits: the cheapest together.
TogetherOver(offers, c) ==
  LET sit(fits) == {o \in fits : o.together = "yes"}
  IN  IF c.together # "yes" \/ c.quantity = 1 \/ sit(Judged(offers, c, "eligible")) # {}
      THEN NoOffer
      ELSE First(Ranked(sit(Judged(offers, Unbudgeted(c), "eligible")), c))

\* Nothing at all fits the budget: the closest with a total.
ClosestOver(offers, c) ==
  IF TogetherOver(offers, c) # NoOffer \/ Best(offers, c) # NoOffer \/ c.budget = NoPrice
  THEN NoOffer
  ELSE First(Ranked({o \in Judged(offers, Unbudgeted(c), "eligible") : Total(o) # NoPrice}, c))

\* Cheaper a seat than the pick (or the budget) and out for a requirement: named with the
\* reason, never offered.
LeftOut(offers, c) ==
  LET known(o) == IF o.payable # NoPrice THEN o.payable ELSE o.base
      ref(best) == IF best # NoOffer /\ Total(best) # NoPrice THEN Total(best) ELSE c.budget
      cheaper(o, price) ==
        known(o) # NoPrice /\ (price # NoPrice => known(o) * c.quantity < price * o.quantity)
      named(o, why) ==
        /\ why \cap (Excluding \cup {"wrong_event", "unavailable"}) = {}
        /\ \/ why \cap {"obstructed_view", "accessible_only", "seats_not_together",
                       "section_not_acceptable"} # {}
           \/ "wrong_quantity" \in why /\ o.quantity > c.quantity
      out(price) == {o \in Excluded(offers, c) : cheaper(o, price) /\ named(o, Exclusions(o, c))}
  IN  out(ref(Best(offers, c)))

-----------------------------------------------------------------------------
(* Freshness: minutes since a price was read, or since its source says it  *)
(* was true, if that is earlier.                                           *)

FreshnessWindow(minutesToEvent) == IF minutesToEvent < 24 * 60 THEN 5 ELSE 15

IsFresh(age, minutesToEvent) == age \in 0 .. FreshnessWindow(minutesToEvent)
=============================================================================
