-------------------------------- MODULE Advice --------------------------------
(***************************************************************************)
(* From a request to the advice that is mailed: research asks the sources, *)
(* compares what it got, reads the history, the trend and the market it    *)
(* may use, decides, and writes a draft (lib/intake/pipeline.ts, research);*)
(* staff enter offers, re-read prices and approve (addManualOffer,         *)
(* revalidateRecommendation, approveRecommendation); the dispatcher checks *)
(* it once more and sends (dispatchSend).                                  *)
(*                                                                         *)
(* Between any two of these steps others change what they rest on: the     *)
(* rights of a dataset, the depth of the event, the market's licence, the  *)
(* event itself.  One request on one revision: revisions, leases and the   *)
(* states of a request are those of Requests, the mail's own those of      *)
(* SendIntents.                                                            *)
(***************************************************************************)
EXTENDS Packet, PriceHistory, Policy, MarketSeries, ServiceDepth

CONSTANTS
  Cases,        \* the requests looked at: what each asks, what there is for it to find
  DraftLife,    \* minutes a draft may be sent for (15)
  ManualFor,    \* minutes an offer staff entered is compared for (360)
  ExpiryLimit,  \* expired drafts of a revision before a person takes it (3)
  Step          \* bound: minutes a tick of the clock takes

Uses4Market == {"tracking", "advice", "display"}

\* What a request asks; budgets in cents, "deadline" the hour they must decide by.
Wishes ==
  [quantity : Nat \ {0}, together : {"yes", "no", "unsaid"}, budget : Amount,
   accessible : BOOLEAN, level : STRING, area : BOOLEAN, mustAttend : BOOLEAN, risk : Risks,
   deadline : Nat \cup {NoTime}, consent : BOOLEAN, asks : SUBSET STRING,
   followUp : BOOLEAN, quote : BOOLEAN, needs : BOOLEAN, watch : STRING]

\* What the sources list and staff may enter: an id is one offer's, and only staff's are
\* staff's.
OffersOf(c) == c.entered \cup UNION {c.listed[s] : s \in DOMAIN c.listed}
OffersAssumption(c) ==
  /\ OffersOf(c) \subseteq Offer /\ IsFiniteSet(OffersOf(c))
  /\ \A o, p \in OffersOf(c) : o.id = p.id => o = p
  /\ \A s \in DOMAIN c.listed : \A o \in c.listed[s] : ~o.staff
  /\ \A o \in c.entered : o.staff

ASSUME AdviceAssumption ==
  /\ DraftLife \in Nat \ {0} /\ ManualFor \in Nat /\ ExpiryLimit \in Nat \ {0}
  /\ Step \in Nat \ {0}
  /\ \A c \in Cases :
       /\ c.ticks \in Nat /\ c.changes \in Nat /\ c.ago \subseteq Nat /\ c.risen \in Nat
       /\ c.terms \in Wishes /\ c.basis \in {"whole_party", "per_person", "unknown"}
       /\ c.rights \in [DOMAIN c.rights -> Rights] /\ c.licence \subseteq Uses4Market
       /\ c.blocked \in BOOLEAN
       /\ c.target \in Target /\ c.snapshots \subseteq Snapshot /\ IsFiniteSet(c.snapshots)
       /\ \A s, o \in c.snapshots : s.id = o.id => s = o
       /\ OffersAssumption(c)

VARIABLES
  case,     \* the case this behaviour is of
  clock,    \* minutes since it began
  hands,    \* what others hold: rights, overrides, a block, the licence, the event
  stored,   \* offers observed, by research or by staff
  run,      \* the research in progress
  draft,    \* the recommendation
  request,  \* where the request is
  mail,     \* the intent to send it
  changes,  \* bound: changes and crashes left, of the case's own
  expiries  \* drafts of this revision that expired

advising == <<case, clock, hands, stored, run, draft, request, mail, changes, expiries>>

World == case
Terms ==
  [World.terms EXCEPT !.budget = WholePartyBudget(@, World.basis, World.terms.quantity)]
Party == Terms.quantity

NoDecision == [depth |-> "outside", allowed |-> {}, limit |-> 0]
NoSignal == [basis |-> FALSE, direction |-> "insufficient", supply |-> "unknown"]
Idle ==
  [stage |-> "idle", at |-> 0, decision |-> NoDecision, plan |-> <<>>, next |-> 1,
   checked |-> {}, seen |-> {}, best |-> NoOffer, bench |-> NoBench,
   trend |-> NoTrend, shown |-> FALSE, series |-> {}, licence |-> {}]
NoDraft ==
  [status |-> "none", made |-> 0, claims |-> {}, chosen |-> {}, advice |-> Advise("none"),
   from |-> Idle]

Stages == {"idle", "asking", "trend", "market", "writing", "approving"}

\* The state is of its types.  An offer is stored once; what a research has seen of one is
\* what it was when it was read.
AdviceTypeOK ==
  /\ clock \in {Step * n : n \in 0 .. World.ticks}
  /\ hands \in [rights : [DOMAIN World.rights -> Rights], overrides : {World.overrides, <<>>},
               blocked : BOOLEAN, licence : SUBSET Uses4Market, scheduled : BOOLEAN]
  /\ stored \subseteq Offer /\ \A o, p \in stored : o.id = p.id => o = p
  /\ DOMAIN run = DOMAIN Idle
  /\ run.stage \in Stages /\ run.next \in Nat /\ run.at \in Nat /\ draft.made \in Nat
  /\ run.seen \subseteq Offer /\ \A o, p \in run.seen : o.id = p.id /\ o.at = p.at => o = p
  /\ DOMAIN draft = DOMAIN NoDraft
  /\ draft.status \in {"none", "pending", "approved", "auto_sent", "invalidated"}
  /\ draft.advice.decision \in Decisions \cup {"none"}
  /\ request \in {"unsettled", "needs_clarification", "unsupported", "referred", "researching",
                   "awaiting_review", "recommendation_sent", "manual_attention"}
  /\ mail \in {"none", "queued", "sent", "blocked"}
  /\ changes \in 0 .. World.changes /\ expiries \in 0 .. ExpiryLimit

Ready ==
  /\ case \in Cases
  /\ clock = 0
  /\ hands = [rights |-> World.rights, overrides |-> World.overrides,
              blocked |-> World.blocked, licence |-> World.licence, scheduled |-> TRUE]
  /\ stored = {}
  /\ run = Idle
  /\ draft = NoDraft
  /\ mail = "none"
  /\ changes = World.changes
  /\ expiries = 0

AdviceInit == Ready /\ request = "researching"

-----------------------------------------------------------------------------
(* Research.                                                               *)

\* Today's depth for the event, as anyone asking now would find it.
TodaysPolicy ==
  ResolveServicePolicy([category |-> World.category, format |-> World.format, us |-> World.us,
                        blocked |-> hands.blocked, overrides |-> hands.overrides])

\* Research goes by the depth it read when it started.
May(op) == Gate(World.mode, run.decision, op)

\* A research begins: the depth read, the sources planned, cut to the depth's budget.
StartResearch ==
  /\ request = "researching" /\ run.stage = "idle"
  /\ LET limit == IF World.mode = "enforce" THEN TodaysPolicy.limit
                  ELSE Len(World.candidates)
     IN  run' = [Idle EXCEPT
           !.stage = "asking", !.at = clock, !.decision = TodaysPolicy,
           !.plan = PlanSources(World.candidates, World.adapters, World.covered, limit)]
  /\ UNCHANGED <<case, clock, hands, stored, draft, request, mail, changes, expiries>>

\* What a source's adapter answers: only the fixture one has offers, and it may fail.
Answers(a) ==
  CASE ~a.enabled -> {"not_integrated"}
    [] a.enabled /\ a.implementation = "fixture" -> {"success", "timeout"}
    [] a.enabled /\ a.implementation = "manual" -> {"manual_pending"}
    [] a.enabled /\ a.implementation = "ticketmaster_discovery" -> {"not_supported"}
    [] OTHER -> {"not_integrated"}

\* One observation an offer: a later read of it takes the place of the one before.
Observe(offers) == {o \in stored : \A p \in offers : p.id # o.id} \cup offers

Lists(s) == IF s \in DOMAIN World.listed THEN World.listed[s] ELSE {}

\* The next source of the plan: one left out for coverage or depth is only recorded, any
\* other is called, and what it has is stored as read now.
AskSource ==
  /\ run.stage = "asking" /\ run.next <= Len(run.plan)
  /\ LET s == run.plan[run.next].source
         a == World.adapters[s]
     IN  IF run.plan[run.next].reason \in NeverCalled
         THEN run' = [run EXCEPT !.next = @ + 1] /\ UNCHANGED stored
         ELSE \E answer \in Answers(a) :
           LET got == IF answer = "success" THEN {[o EXCEPT !.at = clock] : o \in Lists(s)}
                      ELSE {}
           IN  /\ run' = [run EXCEPT
                    !.next = @ + 1, !.seen = @ \cup got,
                    !.checked = IF answer = "success" THEN @ \cup {s} ELSE @]
               /\ stored' = Observe(got)
  /\ UNCHANGED <<case, clock, hands, draft, request, mail, changes, expiries>>

\* Every source asked: staff's own offers for this party join those found, the best is
\* picked, and past events are read where the depth allows.
Compare ==
  /\ run.stage = "asking" /\ run.next > Len(run.plan)
  /\ LET manual == {o \in stored : o.staff /\ o.quantity = Party /\ run.at - o.at <= ManualFor}
         seen == run.seen \cup manual
         best == Best(seen, Terms)
         target == [World.target EXCEPT !.class = IF best = NoOffer THEN "none" ELSE best.class]
     IN  run' = [run EXCEPT
           !.stage = "trend", !.seen = seen, !.best = best,
           !.bench = IF May("historical_context")
                     THEN Benchmark(World.snapshots, target, hands.rights) ELSE NoBench]
  /\ UNCHANGED <<case, clock, hands, stored, draft, request, mail, changes, expiries>>

\* The group's own basket (this party, this class of seat), where the depth allows it,
\* from the reads whose rights allow it now.
ReadTrend ==
  /\ run.stage = "trend"
  /\ LET basket == {o \in World.reads :
                      o.class = IF run.best = NoOffer THEN "none" ELSE run.best.class}
         usable == Admitted(basket, hands.rights)
     IN  run' = IF ~May("trend_advice") \/ usable = {}
                THEN [run EXCEPT !.stage = "market"]
                ELSE [run EXCEPT !.stage = "market", !.trend = Trend(usable, World.now),
                                 !.shown = DisplayAllowed(basket, hands.rights)]
  /\ UNCHANGED <<case, clock, hands, stored, draft, request, mail, changes, expiries>>

\* Faulty variant of ReadMarket: a refresh that fails fails the research.
FaultyReadMarket ==
  /\ run.stage = "market"
  /\ \E fails \in BOOLEAN :
       run' = IF fails THEN Idle
              ELSE [run EXCEPT !.stage = "writing", !.licence = hands.licence,
                               !.series = World.series]
  /\ UNCHANGED <<case, clock, hands, stored, draft, request, mail, changes, expiries>>

\* The market, where its licence and the depth allow: refreshed first; a refresh that fails
\* costs what it would have added and nothing else.
ReadMarket ==
  /\ run.stage = "market"
  /\ \E fails \in BOOLEAN :
       LET read == /\ "tracking" \in hands.licence
                   /\ May("market_tracking") /\ May("historical_context")
           got == World.refresh \cup PointsFromListings(World.shop, {Party}, World.now, World.asOf)
           series == IF fails THEN World.series ELSE StoreSeriesPoints(World.series, got)
       IN  /\ fails => read
           /\ run' = [run EXCEPT !.stage = "writing", !.licence = hands.licence,
                                 !.series = IF read THEN series ELSE {}]
  /\ UNCHANGED <<case, clock, hands, stored, draft, request, mail, changes, expiries>>

\* The part of the venue they asked for, or all of it.
Zone == IF Terms.area THEN "area" ELSE "all"

\* The market's series as the decision uses it: for the whole venue, it is no basis for
\* someone who asked for a part of it.
MarketSignal ==
  LET signal(m) ==
        [basis |-> m.adequate /\ m.scope = Zone, direction |-> m.direction, supply |-> m.supply]
  IN  IF run.series = {} \/ "advice" \notin run.licence THEN NoSignal
      ELSE signal(MarketForGroup(run.series, Party, Zone, World.now))

\* The market as an answer may show it.
MarketShown ==
  LET shown(m, group) ==
        [held |-> TRUE, visible |-> "display" \in run.licence, current |-> m.current,
         dated |-> m.dated, stale |-> m.stale, adequate |-> m.adequate, group |-> group,
         fits |-> m.scope = Zone, counted |-> m.counted, direction |-> m.direction,
         typical |-> ~group /\ TypicalAtLead(World.past, World.start - World.now)]
  IN  IF run.series = {} THEN NoMarket
      ELSE shown(MarketForGroup(run.series, Party, Zone, World.now),
                 IsGroupBasis(BasisForQuantity(Party)))

\* Seats named from the licensed listings, when nothing is verified and none of their own
\* is to be judged.
Picks ==
  IF run.best = NoOffer /\ Terms.watch = "none" /\ {"tracking", "display"} \subseteq run.licence
     /\ May("market_tracking")
  THEN World.listings ELSE "none"

\* Something keeps looking at the event's price: outside "enforce" any source that may.
Monitored ==
  \/ WatchState("price_watch" \in run.decision.allowed, World.adapters, World.covered,
                World.follows)
  \/ World.mode # "enforce" /\ \E s \in DOMAIN World.adapters :
       World.adapters[s].enabled /\ World.adapters[s].monitoring

\* The decision on what was found.
Decided ==
  Decide([now |-> World.now, start |-> World.start,
          best |-> IF run.best = NoOffer THEN NoPrice ELSE Total(run.best),
          alternative |-> \/ Alternatives(run.seen, Terms) # <<>>
                          \/ NeedsReview(run.seen, Terms) # <<>>,
          bench |-> run.bench, trend |-> run.trend, market |-> MarketSignal,
          monitored |-> Monitored, terms |-> Terms])

\* All an answer is built from.
Found ==
  LET seen == run.seen
      unpriced == ~Priced(run.best)
  IN  [best |-> run.best, alternatives |-> Alternatives(seen, Terms),
       entry |-> EntryReference(seen, Terms), levelWanted |-> LevelWanted(seen, Terms),
       togetherOver |-> TogetherOver(seen, Terms), closestOver |-> ClosestOver(seen, Terms),
       options |-> IF "options" \in Terms.asks THEN OptionCount(seen, Terms) ELSE 0,
       leftOut |-> LeftOut(seen, Terms), count |-> IndependentOptionCount(seen, Terms),
       checked |-> run.checked, bench |-> run.bench, trend |-> run.trend,
       trendShown |-> run.shown, market |-> MarketShown, advice |-> Decided,
       asks |-> Terms.asks, followUp |-> Terms.followUp, quote |-> Terms.quote,
       face |-> World.face, official |-> World.official, opens |-> World.opens,
       budget |-> Terms.budget, needs |-> Terms.needs, watch |-> Terms.watch,
       staff |-> unpriced /\ Terms.needs /\ May("staff_comparison") /\ World.staffed,
       picks |-> Picks, comparing |-> FALSE, otherGames |-> World.otherGames,
       timing |-> \/ "trend" \in Terms.asks \/ Terms.deadline # NoTime
                  \/ Terms.risk # "unsaid" \/ Terms.mustAttend]

\* The answer written down: said by the model if what it says holds, else from the
\* evidence alone.  A price check with no listing of ours goes out by itself; else it waits
\* for approval, the system's own where that is switched on.
WriteDraft ==
  /\ run.stage = "writing"
  /\ \E found \in {Found} :
       LET chosen == VerifiedOffers(found)
           auto == chosen = {} /\ Terms.quote
       IN
       /\ draft' = [status |-> IF auto THEN "auto_sent" ELSE "pending", made |-> run.at,
                    claims |-> BuildPacket(found), chosen |-> {o.id : o \in chosen},
                    advice |-> found.advice, from |-> [run EXCEPT !.stage = "idle"]]
       /\ mail' = IF auto THEN "queued" ELSE "none"
       /\ request' = IF auto THEN "recommendation_sent" ELSE "awaiting_review"
       /\ run' = IF ~auto /\ World.autoApprove THEN [Idle EXCEPT !.stage = "approving"]
                 ELSE Idle
  /\ UNCHANGED <<case, clock, hands, stored, changes, expiries>>

\* The worker dies: its job runs again, from the start.
WorkerDies ==
  /\ changes > 0 /\ run.stage \notin {"idle", "approving"}
  /\ run' = Idle
  /\ changes' = changes - 1
  /\ UNCHANGED <<case, clock, hands, stored, draft, request, mail, expiries>>

-----------------------------------------------------------------------------
(* Staff.                                                                  *)

\* Staff enter an offer they saw some minutes ago.
AddManualOffer ==
  /\ \E o \in World.entered, ago \in World.ago :
       /\ \A p \in stored : p.id # o.id
       /\ stored' = stored \cup {[o EXCEPT !.at = clock - ago]}
  /\ UNCHANGED <<case, clock, hands, run, draft, request, mail, changes, expiries>>

Chosen == {o \in stored : o.id \in draft.chosen}
Fresh(o) == IsFresh(clock - o.at, (World.start - World.now) * 60 - clock)
DraftExpired == clock - draft.made >= DraftLife

TrendClaimsStillAllowed ==
  LET ids == UNION {c.evidence : c \in {d \in draft.claims : d.kind = "trend_change" /\ d.visible}}
      reads == {o \in draft.from.trend.used : o.at \in ids}
  IN  ids # {} => Admitted(reads, hands.rights) = reads /\ DisplayAllowed(reads, hands.rights)

\* An expired draft is withdrawn and the request researched again, while anything can be
\* sent; the third time a person takes it.
Reresearch(sendable) ==
  /\ draft' = [draft EXCEPT !.status = "invalidated"]
  /\ expiries' = expiries + 1
  /\ request' = IF ~sendable THEN request
                ELSE IF expiries + 1 >= ExpiryLimit THEN "manual_attention" ELSE "researching"

\* Approval: what a pending draft rests on is read again first.
Approve ==
  CASE draft.status # "pending" -> UNCHANGED <<draft, request, mail, expiries>>
    [] draft.status = "pending" /\ ~hands.scheduled ->
         /\ draft' = [draft EXCEPT !.status = "invalidated"]
         /\ UNCHANGED <<request, mail, expiries>>
    [] draft.status = "pending" /\ hands.scheduled /\ DraftExpired ->
         Reresearch(TRUE) /\ UNCHANGED mail
    [] /\ draft.status = "pending" /\ hands.scheduled /\ ~DraftExpired
       /\ (\A o \in Chosen : Fresh(o)) /\ TrendClaimsStillAllowed ->
         /\ draft' = [draft EXCEPT !.status = "approved"]
         /\ mail' = "queued"
         /\ UNCHANGED <<request, expiries>>
    [] OTHER -> UNCHANGED <<draft, request, mail, expiries>>

ApproveRecommendation ==
  /\ Approve
  /\ UNCHANGED <<case, clock, hands, stored, run, changes>>

\* Where automatic approval is switched on the system asks for it as soon as it has written.
AutoApprove ==
  /\ run.stage = "approving"
  /\ Approve
  /\ run' = Idle
  /\ UNCHANGED <<case, clock, hands, stored, changes>>

\* Each chosen price is read again; the draft keeps what it says.  Staff's own offers can
\* only be checked by staff.
Reread(o) ==
  IF o.staff THEN {[o EXCEPT !.availability = "unknown"]}
  ELSE {[o EXCEPT !.at = clock, !.payable = price, !.availability = "available"] :
          price \in {o.payable, World.risen}}
       \cup {[o EXCEPT !.availability = "unavailable"]}

RevalidateRecommendation ==
  /\ draft.status = "pending" /\ Chosen # {}
  /\ \E reads \in [Chosen -> UNION {Reread(o) : o \in Chosen}] :
       /\ \A o \in Chosen : reads[o] \in Reread(o)
       /\ stored' = Observe({reads[o] : o \in Chosen})
  /\ UNCHANGED <<case, clock, hands, run, draft, request, mail, changes, expiries>>

-----------------------------------------------------------------------------
(* The dispatcher.                                                         *)

\* What an approved draft claims, under the depth of today.
PolicyStillAllows ==
  \A op \in OperationsForClaims({c.kind : c \in draft.claims}) :
    Gate(World.mode, TodaysPolicy, op)

\* Faulty variant of EvidenceFresh: approval vouched for the prices.
FaultyEvidenceFresh == TRUE

EvidenceFresh == \A o \in Chosen : Fresh(o)

Sendable ==
  /\ draft.status = "approved" /\ hands.scheduled /\ ~DraftExpired
  /\ EvidenceFresh /\ PolicyStillAllows
  /\ \A o \in Chosen : o.staff

\* A price check went out unreviewed and has no approval to look at again; an approved
\* draft is checked against now.  A moved event withdraws it; one that only grew old is
\* researched again.
DispatchSend ==
  /\ mail = "queued"
  /\ IF draft.status = "auto_sent" \/ Sendable
     THEN /\ mail' = "sent"
          /\ request' = "recommendation_sent"
          /\ UNCHANGED <<draft, expiries>>
     ELSE /\ mail' = "blocked"
          /\ CASE ~hands.scheduled ->
                    /\ draft' = [draft EXCEPT !.status = "invalidated"]
                    /\ UNCHANGED <<request, expiries>>
               [] hands.scheduled /\ draft.status = "approved" /\ DraftExpired ->
                    Reresearch(PolicyStillAllows)
               [] OTHER -> UNCHANGED <<draft, request, expiries>>
  /\ UNCHANGED <<case, clock, hands, stored, run, changes>>

-----------------------------------------------------------------------------
(* The others, and time.                                                   *)

\* What a dataset's owner does: withdraw a use, revoke it, let its retention run out.
Lesser(r) ==
  {[r EXCEPT !.uses = @ \ {u}] : u \in r.uses} \cup {[r EXCEPT !.status = "revoked"]}
  \cup {[r EXCEPT !.raw = IF @ = "open" THEN "over" ELSE @,
                  !.derived = IF @ = "open" THEN "over" ELSE @]}

ChangeRights ==
  \E d \in DOMAIN hands.rights : \E r \in Lesser(hands.rights[d]) \ {hands.rights[d]} :
    hands' = [hands EXCEPT !.rights[d] = r]
ChangePolicy ==
  \/ hands.overrides # <<>> /\ hands' = [hands EXCEPT !.overrides = <<>>]
  \/ ~hands.blocked /\ hands' = [hands EXCEPT !.blocked = TRUE]
ChangeLicence ==
  \E u \in hands.licence : hands' = [hands EXCEPT !.licence = @ \ {u}]
ChangeEvent == hands.scheduled /\ hands' = [hands EXCEPT !.scheduled = FALSE]

OthersAct ==
  /\ changes > 0 /\ mail # "sent"
  /\ changes' = changes - 1
  /\ ChangeRights \/ ChangePolicy \/ ChangeLicence \/ ChangeEvent
  /\ UNCHANGED <<case, clock, stored, run, draft, request, mail, expiries>>

Tick ==
  /\ clock < Step * World.ticks /\ mail # "sent"
  /\ clock' = clock + Step
  /\ UNCHANGED <<case, hands, stored, run, draft, request, mail, changes, expiries>>

-----------------------------------------------------------------------------
Research ==
  \/ StartResearch \/ AskSource \/ Compare \/ ReadTrend \/ ReadMarket \/ WriteDraft
  \/ AutoApprove
Staff == AddManualOffer \/ ApproveRecommendation \/ RevalidateRecommendation

AdviceNext == Research \/ WorkerDies \/ Staff \/ DispatchSend \/ OthersAct \/ Tick

AdviceSpec == AdviceInit /\ [][AdviceNext]_advising

\* A research step can be taken: there is one exactly when this holds.
Working == run.stage # "idle" \/ request = "researching"

-----------------------------------------------------------------------------
(* What the advice promises.                                               *)

Made == draft.status # "none"
From == draft.from
Shows(id) == \E c \in draft.claims : c.id = id /\ c.visible
Waits == Made /\ draft.advice.decision = "wait_and_recheck"

\* What a customer would say of an offer: it is for all of us, on our event, to be had, on
\* our terms, at a price all of whose parts are known.
Suits(o) ==
  /\ o.ours /\ o.quantity = Party /\ o.availability = "available" /\ o.verified
  /\ o.restrictions \ {"accessible"} = {}
  /\ Terms.accessible <=> "accessible" \in o.restrictions
  /\ o.payable # NoPrice \/ {o.base, o.fees, o.tax, o.delivery} \subseteq Nat
  /\ World.terms.budget # NoPrice /\ World.basis # "unknown" =>
       Total(o) <= IF World.basis = "per_person" THEN Party * World.terms.budget
                   ELSE World.terms.budget
  /\ Terms.together = "yes" /\ Party > 1 =>
       o.together = "yes" \/ (o.together = "unknown" /\ ~o.reserved)

\* And which of two they would rather have: in the level they asked for, seats that are not
\* apart, a lower price for the party.
Rather(o, p) ==
  LET there(x) == Terms.level = "any" \/ x.level = Terms.level
      apart(x) == Party > 1 /\ Terms.together # "no" /\ x.together = "no"
  IN  \/ there(o) /\ ~there(p)
      \/ there(o) = there(p) /\ ~apart(o) /\ apart(p)
      \/ there(o) = there(p) /\ apart(o) = apart(p) /\ Total(o) < Total(p)

\* The pick an answer names suits the customer, and nothing research saw suits them better
\* (compareOffers and the choice of best in research).
PickIsTheirs ==
  Made /\ Shows("C_BEST") =>
    Suits(From.best) /\ \A o \in From.seen : Suits(o) => ~Rather(o, From.best)

\* The types, and the pick an answer names.
PickInv == AdviceTypeOK /\ PickIsTheirs

\* Their own prices fell: permitted, current reads of one basket over long enough, all with
\* a source in common, lower at the end by more than noise.
TrendFell(used) ==
  LET at == {o.at : o \in used}
      first == CHOOSE o \in used : o.at = Min(at)
      last == CHOOSE o \in used : o.at = Max(at)
  IN  /\ Cardinality(used) >= MinReads
      /\ last.at - first.at >= MinSpan /\ last.at \in World.now - CurrentFor .. World.now
      /\ \E s \in first.sources : \A o \in used : s \in o.sources
      /\ \A o \in used : World.rights[o.dataset].status = "approved"
      /\ first.price - last.price > MoveCents
      /\ 100 * (first.price - last.price) > MovePct * first.price

\* The market for a party of theirs, where they asked to sit, fell by prices the provider
\* dated: the newest not stale, below one of a day or three before.
MarketFell(series) ==
  LET theirs == {p \in series : /\ p.basis = Min({Party, MaxGroupSize}) /\ p.zone = Zone
                                /\ p.dated /\ p.at <= World.now}
  IN  /\ "advice" \in From.licence
      /\ Cardinality(theirs) >= MinPoints
      /\ \E new, old \in theirs :
           /\ \A p \in theirs : p.at <= new.at
           /\ World.now - new.at <= StaleAfter
           /\ new.at - old.at \in 18 .. 90
           /\ old.price - new.price >= ShiftCents

\* The listings went, those for a group of theirs or, for one or two, all of them: by a
\* quarter of the count of half a day or more before, and by ten.
ListingsWent(series) ==
  LET theirs == {p \in series : /\ p.basis = IF Party > 2 THEN Min({Party, MaxGroupSize}) ELSE 1
                                /\ p.zone = "all" /\ p.dated /\ p.at <= World.now}
  IN  \E new, old \in theirs :
        /\ \A p \in theirs : p.at <= new.at
        /\ \A p \in theirs : new.at - p.at \in 12 .. 72 => old.at <= p.at
        /\ new.at - old.at \in 12 .. 72
        /\ World.now - new.at <= StaleAfter
        /\ old.count - new.count >= DropMin
        /\ 100 * (old.count - new.count) >= DropPct * old.count

\* Nobody is told to wait unless prices for them really fell (policy.ts decide over trend.ts
\* and series.ts).
WaitIsSupported == Waits => TrendFell(From.trend.used) \/ MarketFell(From.series)

\* A wait leaves them time and asks no more risk than they took: it ends before delivery
\* stops being safe and before the day they must decide by, is looked at again before then,
\* and is never said while seats for them run out (policy.ts waitDeadline and pressures).
WaitLeavesTime ==
  Waits =>
    /\ World.now < draft.advice.until
    /\ draft.advice.until <= World.start - DeliveryBuffer
    /\ draft.advice.until <= Terms.deadline
    /\ draft.advice.checkpoint <= draft.advice.until
    /\ Terms.risk \in {"medium", "high"}
    /\ "advice" \in From.licence => ~ListingsWent(From.series)

\* A wait rests on prices that fell, and can be kept.
WaitIsSound == WaitIsSupported /\ WaitLeavesTime

\* The range of past events is of other events like theirs, each counted once, at this lead
\* time and for as many seats; a quarter of them lie at or below its foot, a quarter at or
\* above its top (benchmark.ts).
RangeIsOfPastEvents ==
  Made /\ Shows("C_BENCH") =>
    LET reps == From.bench.reps
        n == Cardinality(reps)
    IN  /\ n >= SmallSample
        /\ \A s, o \in reps : s.event = o.event => s = o
        /\ \A s \in reps : /\ s.event # World.target.event /\ s.quantity = World.target.quantity
                           /\ s.kind = World.target.kind /\ s.complete
                           /\ LeadBucket(s.lead) = LeadBucket(World.target.lead)
        /\ 4 * Cardinality({s \in reps : 4 * s.price <= From.bench.p25}) >= n
        /\ 4 * Cardinality({s \in reps : 4 * s.price >= From.bench.p75}) >= n
        /\ 4 * Cardinality({s \in reps : 4 * s.price < From.bench.p25}) <= n + 3
        /\ 4 * Cardinality({s \in reps : 4 * s.price > From.bench.p75}) <= n + 3

\* A research calls the first sources of its route that it may call, and no more of them
\* than the depth of the event pays for (routing.ts planSources, service-depth.ts).
DepthIsSpentInOrder ==
  run.stage = "asking" /\ World.mode = "enforce" =>
    LET may(s) == LET a == World.adapters[s]
                  IN  a.enabled /\ a.quotes /\ a.approved /\ (a.manual \/ s \in World.covered)
        fit == SelectSeq(World.candidates, may)
        calls == SelectSeq(run.plan, LAMBDA p : p.reason = "call")
    IN  [i \in DOMAIN calls |-> calls[i].source]
          = SubSeq(fit, 1, Min({Len(fit), SourceLimit(run.decision.depth)}))

\* A price that is approved as part of a trend may be used and shown as the rights stand at
\* that moment, whatever they were when the draft was written (trendClaimsStillAllowed).  Of
\* the claims that name their evidence.
ApprovedTrendIsAllowed ==
  [][draft'.status = "approved" /\ draft.status # "approved" =>
       \A c \in draft.claims : c.kind = "trend_change" /\ c.visible /\ c.evidence # {} =>
         \A d \in c.shows :
           /\ hands.rights[d].status = "approved"
           /\ {"advice", "customer_display"} \subseteq hands.rights[d].uses
           /\ hands.rights[d].derived # "over"]_advising

Mails == mail = "queued" /\ mail' = "sent"

\* Where depth is enforced an approved answer is mailed only with claims the event's depth of
\* that moment allows: none on live prices, history or trends once an operator blocked the
\* event, none an override of the day of the draft allowed and that is gone (dispatchSend).
MailedAsAllowedToday ==
  [][Mails /\ draft.status = "approved" /\ World.mode = "enforce" =>
       LET relied == OperationsForClaims({c.kind : c \in draft.claims})
       IN  /\ hands.blocked => relied \subseteq {"official_lookup"}
           /\ hands.overrides = <<>> =>
                relied \subseteq OperationsByDepth(DepthFor(DepthRules[World.category],
                                                            World.format))]_advising

\* An approved answer is mailed only while its event stands, its draft is young and each
\* price it names was read within the window, however long the mail waited in its queue
\* (dispatchSend, draftExpired, checkFreshness).
MailedPricesAreFresh ==
  [][Mails /\ draft.status = "approved" =>
       /\ hands.scheduled /\ clock - draft.made < DraftLife
       /\ Cardinality(Chosen) = Cardinality(draft.chosen)
       /\ \A o \in Chosen :
            clock - o.at <= IF (World.start - World.now) * 60 - clock < 24 * 60 THEN 5 ELSE 15]_advising

\* What was true when an answer was written still is when it is approved and when it leaves.
MailedStillHolds == ApprovedTrendIsAllowed /\ MailedAsAllowedToday /\ MailedPricesAreFresh
=============================================================================
