-------------------------------- MODULE Resolve --------------------------------
(***************************************************************************)
(* Which event a customer means: the catalog's rows that fit what they     *)
(* said, and the choice among them (lib/intake/pipeline.ts, resolveEvent   *)
(* and what it calls).  A situation s is [catalog, acts, venues, markets,  *)
(* default, now]: "markets" the market of each city, "now" in hours.  A    *)
(* brief x is [act, versus, matchup, place, shot, date, expr, bare, city,  *)
(* state, asks]: "versus" the opponent, "place" the place of its name,     *)
(* "matchup" that both sides came as one name, "shot" that only a          *)
(* screenshot named it, "expr" a phrase of days, "bare" that it is only a *)
(* weekday.  q is EventRules' rules with [cheapest, linked].  Pure: no     *)
(* state.                                                                  *)
(***************************************************************************)
EXTENDS EventRules, Catalog

\* A brief that says nothing yet.
NoPhrase == [kind |-> "none"]
BlankBrief ==
  [act |-> NoOne, versus |-> NoOne, matchup |-> FALSE, place |-> NoOne, shot |-> FALSE,
   date |-> NoDay, expr |-> NoPhrase, bare |-> FALSE, city |-> NoOne, state |-> NoOne,
   asks |-> {}, count |-> NoOne]

Today(s) == s.now \div 24
Sooner(e, f) == Start(e) < Start(f) \/ (Start(e) = Start(f) /\ e.id < f.id)
Upcoming(s) == {e \in s.catalog : e.status = "scheduled" /\ Start(e) >= s.now}
Cut(list, n) == SubSeq(list, 1, Least(n, Len(list)))
MarketOf(s, city) == IF city = NoOne THEN NoOne ELSE s.markets[city]

\* Acts a word may mean, in the order to try them: by their names and nicknames, then by a
\* word of the name, those that start with it and those with a date first, ten of them.
EntityTiers(s, word) ==
  LET exact == {a \in DOMAIN s.acts : word \in s.acts[a].names}
      rest == {a \in DOMAIN s.acts : word \in s.acts[a].within} \ exact
      alphabetical(a, b) == s.acts[a].order < s.acts[b].order
      rank(a) == (IF word \in s.acts[a].starts THEN 0 ELSE 2)
                   + IF \E e \in Upcoming(s) : e.act = a THEN 0 ELSE 1
      ranked(a, b) == rank(a) < rank(b) \/ (rank(a) = rank(b) /\ alphabetical(a, b))
  IN  SelectSeq(<<Sorted(exact, alphabetical), Cut(Sorted(rest, ranked), 10)>>,
                LAMBDA tier : tier # <<>>)

\* A month, a range or "next Saturday" wins over the one date read from the same words.
RuleWindow(x, q) ==
  IF q.window # NoSpan /\ (x.date = NoDay \/ x.bare \/ q.twoWays \/ ~Within(x.date, q.window))
  THEN q.window ELSE NoSpan
\* "Any Saturday or Sunday" is a kind of day, not the Saturday read from it.
IgnoresDate(x, q) ==
  RuleWindow(x, q) = NoSpan /\ x.bare
    /\ ((q.days # AnyDay /\ Cardinality(q.days) > 1) \/ q.next)

\* The days that fit: the rules' window, any, the span of their words, or the date.
FitsDay(x, rule, span, ignores, day) ==
  CASE rule # NoSpan -> Within(day, rule)
    [] rule = NoSpan /\ ignores -> TRUE
    [] rule = NoSpan /\ ~ignores /\ span # NoSpan -> Within(day, span)
    [] OTHER -> x.date \in {NoDay, day}

\* A venue they named wins over a city; a city is its market.
FitsPlace(s, x, q, e) ==
  LET v == s.venues[e.venue]
  IN  IF x.city # NoOne
      THEN \/ e.venue \in q.venues \/ v.market = MarketOf(s, x.city) \/ v.city = x.city
      ELSE x.state \in {NoOne, v.state}

\* A team's home by its venue, or by its market when the venue is not known.
AtHome(s, a, venue) ==
  LET act == s.acts[a]
  IN  CASE act.home = venue -> "yes"
        [] act.home # venue /\ act.market # NoOne ->
             IF s.venues[venue].market # act.market THEN "no"
             ELSE IF act.home = NoOne THEN "yes" ELSE "unknown"
        [] OTHER -> IF act.home = NoOne THEN "unknown" ELSE "no"
Away(s, a, e) == s.acts[a].team /\ "no" \in {e.home, AtHome(s, a, e.venue)}

\* Passes and parking are no admission; tours and practice only for who asks.
Admits(s, x, a, e) ==
  /\ e.kind # "pass"
  /\ e.kind = "tour" => "tour" \in x.asks
  /\ e.kind = "practice" /\ s.acts[a].team => "practice" \in x.asks

\* The games against an opponent: by its name, by the place of it where it was renamed, or
\* that day's one game where only a screenshot named it.
Against(s, x, a, versus, rows) ==
  LET side(e) == IF e.act = a THEN e.other ELSE e.act
      named == {e \in rows : versus \in e.sides}
      placed == {e \in rows : /\ side(e) # NoOne /\ x.place # NoOne
                              /\ s.acts[side(e)].market = x.place /\ s.acts[a].market # x.place}
      thatDay == {e \in rows : x.shot /\ e.day = x.date}
  IN  CASE versus = NoOne -> rows
        [] versus # NoOne /\ named # {} -> named
        [] versus # NoOne /\ named = {} /\ placed # {} -> placed
        [] OTHER -> IF Cardinality(thatDay) = 1 THEN thatDay ELSE {}

\* One listing of a show: at one place and start, the plainest of those of one act or name.
OneListingPerShow(rows) ==
  LET twin(e, f) == /\ e.venue = f.venue /\ Start(e) = Start(f)
                    /\ e.act = f.act \/ e.show = f.show
  IN  {e \in rows : \A f \in rows \ {e} : twin(e, f) =>
         e.extras < f.extras \/ (e.extras = f.extras /\ e.id < f.id)}

Reason(e, why) == [event |-> e.id, start |-> Start(e), why |-> why]

\* Those a link names, where it names any; in another city, those set aside.
Linked(q, where) ==
  IF \E e \in where : e.id \in q.linked THEN {e \in where : e.id \in q.linked} ELSE where
Elsewhere(x, q, when, where) ==
  IF x.city # NoOne /\ (q.venues # {} \/ q.home) THEN when \ where ELSE {}

\* Soonest first those that break no rule, and the rest with what they break.
Ruled(q, a, asked, elsewhere, why) ==
  LET shows(kept) == Sorted(OneListingPerShow(kept), Sooner)
      next(list) == IF q.next THEN Cut(list, 1) ELSE list
  IN  [act |-> a,
       cands |-> next(shows({e \in asked : why[e] = {}})),
       dropped |-> {Reason(e, {"elsewhere"}) : e \in elsewhere}
                     \cup {Reason(e, why[e]) : e \in {f \in asked : why[f] # {}}}]

\* An act's events that fit: against whom, when and where, then by the rules.
Fitting(s, x, q, a, versus, rows) ==
  LET broken(asked) == [e \in asked |-> Breaks(q, e, s.venues[e.venue], Away(s, a, e))]
      sorted(asked, elsewhere) == Ruled(q, a, asked, elsewhere, broken(asked))
      placed(when, where) == sorted(Linked(q, where), Elsewhere(x, q, when, where))
      timed(when) == placed(when, {e \in when : FitsPlace(s, x, q, e)})
      dated(found, rule, span) ==
        {e \in found : FitsDay(x, rule, span, IgnoresDate(x, q), e.day)}
  IN  timed(dated(Against(s, x, a, versus, {e \in rows : Admits(s, x, a, e)}),
                  RuleWindow(x, q), WindowFor(x.expr, Today(s))))

\* The act's own rows: none called home that its market says is away.
HomeRows(s, a) ==
  {IF s.acts[a].team /\ s.acts[a].market # NoOne /\ e.venue # s.acts[a].home
        /\ s.venues[e.venue].market # s.acts[a].market
   THEN [e EXCEPT !.home = "no"] ELSE e : e \in {f \in Upcoming(s) : f.act = a}}
\* And those of its games that are another team's.
AwayRows(s, a) ==
  {[e EXCEPT !.home = "no"] : e \in {f \in Upcoming(s) : s.acts[a].team /\ f.other = a}}

\* A matchup is tried with either side as the team, the first named first.
Attempts(x) ==
  IF x.matchup THEN <<[word |-> x.act, versus |-> x.versus], [word |-> x.versus, versus |-> x.act]>>
  ELSE <<[word |-> x.act, versus |-> x.versus]>>

\* Each tier of each attempt, with what fits of each act in it.
Stages(s, x, q, away) ==
  LET fit(visits, tier, versus) ==
        [i \in DOMAIN tier |->
           Fitting(s, x, q, tier[i], versus,
                   IF visits THEN AwayRows(s, tier[i]) ELSE HomeRows(s, tier[i]))]
      of(tier, versus) == [visits \in BOOLEAN |-> fit(visits, tier, versus)]
      dated(versus) == x.date # NoDay \/ x.expr.kind # "none" \/ versus # NoOne
      none(stage) == \A i \in DOMAIN stage : stage[i].cands = <<>>
      stage(games, versus) == games[away /\ ~q.home /\ dated(versus) /\ none(games[FALSE])]
      tiers(t, versus) == [i \in DOMAIN t |-> stage(of(t[i], versus), versus)]
      all(tries) == [i \in DOMAIN tries |-> tiers(EntityTiers(s, tries[i].word), tries[i].versus)]
  IN  FlattenSeq(all(Attempts(x)))

-----------------------------------------------------------------------------
(* The choice.  An answer is [kind, event, list, reason, other, same].      *)

NoEvent == 0
Miss(reason) ==
  [kind |-> "no_match", event |-> NoEvent, list |-> <<>>, reason |-> reason,
   other |-> NoEvent, same |-> NoEvent]
Conflict(other, same) == [Miss("constraint_conflict") EXCEPT !.other = other, !.same = same]
Resolved(id) == [Miss("none") EXCEPT !.kind = "resolved", !.event = id]
Ambiguous(ids) == [Miss("none") EXCEPT !.kind = "ambiguous", !.list = ids]
NonUs == [Miss("none") EXCEPT !.kind = "non_us"]
Ids(list) == [i \in DOMAIN list |-> list[i].id]

IsHome(s, a, e) == e.home = "yes" \/ s.acts[a].home = e.venue

\* An act's shows in their own market, where they named no place and it has some.
InMarket(s, x, q, home, act, cands) ==
  LET near(list) == IF list # <<>> THEN list ELSE cands
  IN  IF ~s.acts[act].team /\ home # NoOne /\ {x.city, x.state} = {NoOne} /\ q.venues = {}
      THEN near(SelectSeq(cands, LAMBDA e : s.venues[e.venue].market = home)) ELSE cands

\* One act's events: an only one; of a team's with no day named the next, at home first; else
\* they choose.
ChooseEvent(s, x, q, act, cands, homes) ==
  LET team == s.acts[act].team
      oneDay == \A i \in DOMAIN cands : cands[i].day = cands[1].day
      named == RuleWindow(x, q) # NoSpan \/ (x.expr.kind # "none" /\ ~q.next)
      us(e) == s.venues[e.venue].us
      pick == IF homes # <<>> THEN homes[1] ELSE cands[1]
      takes == team /\ x.date = NoDay /\ ~oneDay /\ (~named \/ Len(homes) = 1) /\ us(pick)
  IN  CASE Len(cands) = 1 -> IF us(cands[1]) THEN Resolved(cands[1].id) ELSE NonUs
        [] Len(cands) > 1 /\ q.cheapest ->
             Ambiguous(Ids(Cut(IF Len(homes) >= 2 THEN homes ELSE cands, 12)))
        [] Len(cands) > 1 /\ ~q.cheapest /\ takes -> Resolved(pick.id)
        [] OTHER -> Ambiguous(Ids(Cut(cands, 12)))

\* Of several acts of one name, the only one of their market's; else one event of each.
ChooseAct(s, x, q, home, fits) ==
  LET market == IF x.city # NoOne THEN MarketOf(s, x.city)
                ELSE IF home # NoOne THEN home ELSE s.default
      local(f) == \/ s.acts[f.act].market = market
                  \/ \E i \in DOMAIN f.cands : /\ f.cands[i].home = "yes"
                                               /\ s.venues[f.cands[i].venue].market = market
      locals == SelectSeq(fits, local)
      choose(act, cands) ==
        ChooseEvent(s, x, q, act, cands, SelectSeq(cands, LAMBDA e : IsHome(s, act, e)))
      of(act, cands) == choose(act, InMarket(s, x, q, home, act, cands))
  IN  CASE Len(fits) = 1 -> of(fits[1].act, fits[1].cands)
        [] Len(fits) > 1 /\ Len(locals) = 1 -> of(locals[1].act, locals[1].cands)
        [] OTHER -> Ambiguous([i \in 1 .. Least(5, Len(fits)) |-> fits[i].cands[1].id])

\* The first stage at which anything fits; a miss says whether anything was set aside.
Chosen(s, x, q, home, stages) ==
  LET with(stage) == SelectSeq(stage, LAMBDA f : f.cands # <<>>)
      hits == {i \in DOMAIN stages : with(stages[i]) # <<>>}
      dropped == UNION {UNION {stages[i][j].dropped : j \in DOMAIN stages[i]} :
                          i \in DOMAIN stages}
  IN  CASE stages = <<>> -> Miss("unknown_performer")
        [] stages # <<>> /\ hits # {} ->
             ChooseAct(s, x, q, home, with(stages[CHOOSE i \in hits : \A j \in hits : i <= j]))
        [] OTHER -> IF dropped = {} THEN Miss("no_scheduled_event")
                    ELSE [Conflict(NoEvent, NoEvent) EXCEPT
                            !.list = IF \A d \in dropped : d.why = {"region"}
                                     THEN <<"region">> ELSE <<>>]

\* What would keep every rule but the dates: the next one, and the next against the same
\* opponent where it is another.
Relaxed(q) == [q EXCEPT !.window = NoSpan, !.next = TRUE, !.exact = NoHour]
Undated(x) == [x EXCEPT !.date = NoDay, !.expr = [kind |-> "none"], !.bare = FALSE]

\* resolveEvent: what they named, and where it breaks a rule the nearest that breaks none.
ResolveEvent(s, x, q, home, away) ==
  LET briefs == [asked |-> x, same |-> Undated(x),
                 other |-> [Undated(x) EXCEPT !.versus = NoOne, !.matchup = FALSE]]
      core(y, r, visits) == Chosen(s, y, r, home, Stages(s, y, r, visits))
      one(answer) == IF answer.kind = "resolved" THEN answer.event ELSE NoEvent
      conflict(same, other) == Conflict(other, IF same = other THEN NoEvent ELSE same)
      settle(answers, answer) ==
        IF answer.reason = "constraint_conflict" /\ answer.list = <<>>
        THEN conflict(IF x.versus = NoOne THEN NoEvent ELSE one(answers["same"]),
                      one(answers["other"]))
        ELSE [answer EXCEPT !.list = IF @ = <<"region">> THEN <<>> ELSE @]
      told(answers) == settle(answers, answers["asked"])
  IN  IF x.act = NoOne THEN Miss("no_performer")
      ELSE told([k \in DOMAIN briefs |->
                   core(briefs[k], IF k = "asked" THEN q ELSE Relaxed(q), away /\ k = "asked")])
=============================================================================
