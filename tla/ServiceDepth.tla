----------------------------- MODULE ServiceDepth -----------------------------
(***************************************************************************)
(* How much is invested in an event (lib/domain/service-depth.ts), what    *)
(* current rights and coverage add to that (the same file and lib/intake/  *)
(* service-policy.ts), and which sources a research may call               *)
(* (lib/sources/routing.ts).                                               *)
(*                                                                         *)
(* The table of categories is kept as its distinct rules: a category of    *)
(* the code stands for the rule it has.  Pure: no state.                   *)
(***************************************************************************)
EXTENDS Integers, Sequences, FiniteSets, SequencesExt

Depths == {"outside", "guide", "compare", "core"}
Rank(d) == CASE d = "outside" -> 0 [] d = "guide" -> 1 [] d = "compare" -> 2 [] d = "core" -> 3

Operations ==
  {"official_lookup", "provided_offer_check", "live_comparison", "historical_context",
   "trend_advice", "market_tracking", "price_watch", "event_alert", "staff_comparison"}

\* The distinct rules: base, club and local formats, touring formats, a format not known.
\* "none" where the rule does not say.
Rule(base, club, touring, unknown) ==
  [base |-> base, club |-> club, touring |-> touring, unknown |-> unknown]
DepthRules ==
  [ nhl |-> Rule("core", "none", "none", "none"),
    soccer |-> Rule("core", "guide", "none", "none"),
    concert |-> Rule("core", "guide", "none", "compare"),
    broadway |-> Rule("compare", "none", "none", "none"),
    family |-> Rule("compare", "guide", "none", "none"),
    club_concert |-> Rule("guide", "none", "compare", "none"),
    electronic |-> Rule("guide", "none", "core", "none"),
    high_school |-> Rule("guide", "none", "none", "none"),
    unknown |-> Rule("guide", "none", "none", "none"),
    travel |-> Rule("outside", "none", "none", "none") ]
Categories == DOMAIN DepthRules
Formats == {"touring", "club", "festival", "local", "unknown"}

OperationsByDepth(d) ==
  CASE d = "core" -> Operations
    [] d = "compare" ->
         {"official_lookup", "provided_offer_check", "live_comparison", "event_alert"}
    [] d = "guide" -> {"official_lookup", "provided_offer_check"}
    [] d = "outside" -> {}

\* Sources a research may search, by depth.
SourceLimit(d) ==
  CASE d = "core" -> 8 [] d = "compare" -> 4 [] d = "guide" -> 0 [] d = "outside" -> 0

DepthFor(rule, format) ==
  CASE format \in {"club", "local"} /\ rule.club # "none" -> rule.club
    [] format = "touring" /\ rule.touring # "none" -> rule.touring
    [] format = "unknown" /\ rule.unknown # "none" -> rule.unknown
    [] OTHER -> rule.base

\* An event as the policy sees it: its category and format, its country ("us" BOOLEAN), and
\* what staff hold over it: a block of the category, overrides in their order that have not
\* expired and name it.
ResolveServicePolicy(e) ==
  LET rule == DepthRules[e.category]
      byFormat == DepthFor(rule, e.format)
      raised == /\ e.overrides # <<>> /\ Rank(Head(e.overrides)) > Rank(byFormat)
                /\ e.category # "unknown" /\ rule.base # "outside"
      depth == IF raised THEN Head(e.overrides) ELSE byFormat
  IN  CASE ~e.us -> [depth |-> "outside", allowed |-> {}, limit |-> SourceLimit("outside")]
        [] e.us /\ e.blocked ->
             [depth |-> byFormat, allowed |-> {"official_lookup"}, limit |-> SourceLimit(byFormat)]
        [] OTHER ->
             [depth |-> depth, allowed |-> OperationsByDepth(depth), limit |-> SourceLimit(depth)]

\* Whether work may start: under "enforce" what the depth allows; "shadow" only records.
Gate(mode, decision, op) == mode = "enforce" => op \in decision.allowed

\* Rights and coverage, beside the depth: whether a price watch could run.  SeatData's
\* listings stand in when no seller can be monitored.
WatchState(allowed, adapters, covered, f) ==
  LET usable == {s \in DOMAIN adapters :
                   adapters[s].enabled /\ adapters[s].approved /\ adapters[s].monitoring}
  IN  /\ allowed /\ f.sendEnabled
      /\ \/ usable \cap covered # {}
         \/ f.marketKey /\ f.alerts /\ f.followed

\* An operation's claims in a draft, and what they rely on.
ClaimOperation(kind) ==
  CASE kind \in {"current_offer", "alternative_offer", "option_count", "alternative_market"}
         -> {"live_comparison"}
    [] kind \in {"benchmark_range", "market_price", "market_benchmark", "market_supply"}
         -> {"historical_context"}
    [] kind \in {"trend_change", "market_read"} -> {"trend_advice"}
    [] kind = "checkpoint" -> {"price_watch"}
    [] OTHER -> {}
OperationsForClaims(kinds) == UNION {ClaimOperation(k) : k \in kinds}

\* The plan of a research: candidates in the route's order, each called or left out with
\* the reason, those called first; those left out for coverage or depth are never called.
\* Faulty variant of PlanReason: one source more than the depth allows.
FaultyPlanReason(a, covered, s, called, limit) ==
  CASE ~a.enabled \/ ~a.quotes ->
         IF limit = 0 THEN "depth_no_automated_sources" ELSE "source_not_integrated"
    [] a.enabled /\ a.quotes /\ ~a.approved -> "source_access_unapproved"
    [] a.enabled /\ a.quotes /\ a.approved /\ s \notin covered /\ ~a.manual -> "event_not_covered"
    [] a.enabled /\ a.quotes /\ a.approved /\ (s \in covered \/ a.manual) /\ called > limit ->
         IF limit = 0 THEN "depth_no_automated_sources" ELSE "budget_exhausted"
    [] OTHER -> "call"

PlanReason(a, covered, s, called, limit) ==
  CASE ~a.enabled \/ ~a.quotes ->
         IF limit = 0 THEN "depth_no_automated_sources" ELSE "source_not_integrated"
    [] a.enabled /\ a.quotes /\ ~a.approved -> "source_access_unapproved"
    [] a.enabled /\ a.quotes /\ a.approved /\ s \notin covered /\ ~a.manual -> "event_not_covered"
    [] a.enabled /\ a.quotes /\ a.approved /\ (s \in covered \/ a.manual) /\ called >= limit ->
         IF limit = 0 THEN "depth_no_automated_sources" ELSE "budget_exhausted"
    [] OTHER -> "call"

PlanSources(candidates, adapters, covered, limit) ==
  LET called(plan) == SelectSeq(plan, LAMBDA p : p.reason = "call")
      left(plan) == SelectSeq(plan, LAMBDA p : p.reason # "call")
      plans[i \in 0 .. Len(candidates)] ==
        IF i = 0 THEN <<>>
        ELSE LET s == candidates[i]
             IN  Append(plans[i - 1],
                        [source |-> s, reason |-> PlanReason(adapters[s], covered, s,
                                                             Len(called(plans[i - 1])), limit)])
      plan == plans[Len(candidates)]
  IN  called(plan) \o left(plan)

NeverCalled == {"event_not_covered", "budget_exhausted", "depth_no_automated_sources"}
=============================================================================
