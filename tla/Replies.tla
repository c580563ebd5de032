-------------------------------- MODULE Replies --------------------------------
(***************************************************************************)
(* What a further message of a thread does to the request: which of the    *)
(* events offered it picks, whether the event settled stays, and what is   *)
(* offered when nothing is found where they asked (lib/intake/pipeline.ts).*)
(* A reply p is what it says of a list: [place, cheapest, month, date,     *)
(* weekday, side, rejects, order, yes]; None where it does not say.  Pure: *)
(* no state.                                                               *)
(***************************************************************************)
EXTENDS Resolve

CONSTANTS
  Reach,     \* miles worth travelling for a show that is not where they asked (300)
  SameTrip   \* miles that are the same trip (60)

None == -1
LastOne == 99

Row(s, id) == CHOOSE e \in s.catalog : e.id = id
Known(s, ids) == SelectSeq(ids, LAMBDA id : \E e \in s.catalog : e.id = id)
EventRows(s, ids) == LET known == Known(s, ids) IN [i \in DOMAIN known |-> Row(s, known[i])]

\* The place they name of n; nothing past the end of the list.
OrdinalChoice(p, n) ==
  CASE p.place = LastOne -> n
    [] p.place \in 1 .. n -> p.place
    [] OTHER -> None

SaysDay(p) == {p.date, p.weekday} # {None}
OnDay(p, e) ==
  CASE p.month # None -> MonthOf(e.day) = p.month /\ DateOf(e.day) = p.date
    [] p.month = None /\ p.date # None -> DateOf(e.day) = p.date
    [] OTHER -> Weekday(e.day) = p.weekday
Sole(S) == IF Cardinality(S) = 1 THEN CHOOSE i \in S : TRUE ELSE None

\* The one listed game a reply names by its other side; the side all share names none.
NameChoice(p, rows) ==
  IF p.side = NoOne \/ \A i \in DOMAIN rows : p.side \in rows[i].sides THEN None
  ELSE Sole({i \in DOMAIN rows : p.side \in rows[i].sides})

\* By place, then by the day that fits one, then by name; "the cheapest" of a list by price.
ListChoice(p, rows, byPrice) ==
  LET day == IF SaysDay(p) THEN Sole({i \in DOMAIN rows : OnDay(p, rows[i])}) ELSE None
  IN  CASE byPrice /\ p.cheapest -> 1
        [] ~(byPrice /\ p.cheapest) /\ OrdinalChoice(p, Len(rows)) # None ->
             OrdinalChoice(p, Len(rows))
        [] OTHER -> IF day # None THEN day ELSE NameChoice(p, rows)

\* Which of the events offered is left once all a reply says is applied; what fits none of
\* them is a new request.
OfferedChoice(p, rows, named) ==
  LET all == DOMAIN rows
      sided(name) == {i \in all : name \in rows[i].sides}
      narrowing(hits) == IF hits # {} /\ hits # all THEN {hits} ELSE {}
      ends == Sorted({rows[i] : i \in all}, Sooner)
      timed == CASE p.order = "earlier" -> {{i \in all : rows[i] = ends[1]}}
                 [] p.order = "later" -> {{i \in all : rows[i] = ends[Len(ends)]}}
                 [] OTHER -> {}
      filters == narrowing(sided(named)) \cup narrowing(sided(p.side))
                   \cup (IF SaysDay(p) THEN {{i \in all : OnDay(p, rows[i])}} ELSE {})
                   \cup (IF OrdinalChoice(p, Len(rows)) # None
                         THEN {{OrdinalChoice(p, Len(rows))}} ELSE {})
                   \cup (IF Len(rows) > 1 THEN timed ELSE {})
      signal == filters # {} \/ (Len(rows) = 1 /\ (p.yes \/ sided(p.side) # {}))
  IN  IF rows = <<>> \/ p.rejects \/ (named # NoOne /\ sided(named) = {}) \/ ~signal THEN None
      ELSE Sole({i \in all : \A f \in filters : i \in f})

-----------------------------------------------------------------------------
(* What is offered where there is nothing.                                 *)

TypedOpponent(x) == IF x.shot THEN NoOne ELSE x.versus

\* The dates nearest the day they named, at home or away, three of them.
NearestDates(s, x) ==
  LET apart(e) == IF e.day >= x.date THEN e.day - x.date ELSE x.date - e.day
      nearer(e, f) == apart(e) < apart(f) \/ (apart(e) = apart(f) /\ Sooner(e, f))
      fits(a) ==
        {e \in Upcoming(s) :
           /\ a \in {e.act, e.other} /\ apart(e) <= 10 /\ e.kind # "pass"
           /\ x.city # NoOne => s.venues[e.venue].market = MarketOf(s, x.city)}
      of(tier) == UNION {Against(s, [x EXCEPT !.shot = FALSE], tier[i], TypedOpponent(x),
                                 fits(tier[i])) : i \in DOMAIN tier}
      three(list) == {list[i] : i \in 1 .. Least(3, Len(list))}
      first(found) == IF \A i \in DOMAIN found : found[i] = {} THEN <<>>
                      ELSE Sorted(three(Sorted(found[Min({i \in DOMAIN found : found[i] # {}})],
                                               nearer)), Sooner)
      all(tiers) == first([i \in DOMAIN tiers |-> of(tiers[i])])
  IN  IF x.act = NoOne \/ x.date = NoDay THEN <<>> ELSE all(EntityTiers(s, x.act))

\* Their shows outside the place they named, nearest first: those within reach, else any.
NearestElsewhere(s, x) ==
  LET here == MarketOf(s, x.city)
      acts(tiers) == IF tiers = <<>> THEN {} ELSE {tiers[1][i] : i \in DOMAIN tiers[1]}
      miles(e) == s.venues[e.venue].miles[here]
      shows(of, span) == OneListingPerShow(
        {e \in Upcoming(s) :
           /\ e.act \in of /\ e.kind # "pass"
           /\ s.venues[e.venue].us /\ s.venues[e.venue].market # here
           /\ IF x.date # NoDay THEN e.day = x.date
              ELSE span # NoSpan => Within(e.day, span)})
      nearer(e, f) == miles(e) < miles(f) \/ (miles(e) = miles(f) /\ Sooner(e, f))
      best(all, near) == Sorted(IF near # {} THEN near ELSE all, nearer)
      three(all) == Cut(best(all, {e \in all : miles(e) <= Reach}), 3)
  IN  three(shows(acts(EntityTiers(s, x.act)), WindowFor(x.expr, Today(s))))
InReach(s, x, list) ==
  \E i \in DOMAIN list : s.venues[list[i].venue].miles[MarketOf(s, x.city)] <= Reach
OneTrip(s, x, e) ==
  x.date # NoDay \/ s.venues[e.venue].miles[MarketOf(s, x.city)] <= SameTrip

-----------------------------------------------------------------------------
(* The thread's request.                                                   *)

Standing(s, id) ==
  \E e \in s.catalog : /\ e.id = id /\ e.status = "scheduled" /\ Start(e) > s.now
                       /\ s.venues[e.venue].us

\* What a message says takes the place of what was said; a place is replaced whole.
MergeExtraction(x, m) ==
  [k \in DOMAIN x |->
     CASE k \in {"city", "state"} -> IF {m.city, m.state} = {NoOne} THEN x[k] ELSE m[k]
       [] k = "date" -> IF m.date # NoDay THEN m.date ELSE x.date
       [] k = "expr" -> IF m.expr.kind # "none" THEN m.expr ELSE x.expr
       [] k = "asks" -> x.asks \cup m.asks
       [] k \in {"bare", "matchup", "shot"} ->
            IF k = "bare" THEN IF {m.date} = {NoDay} THEN x.bare ELSE m.bare
            ELSE IF m.act = NoOne THEN x[k] ELSE m[k]
       [] OTHER -> IF m[k] # NoOne THEN m[k] ELSE x[k]]

\* The brief of a game they picked: its act, day and city, not the words of the reply.
BoundToEvent(s, x, e) ==
  [Undated(x) EXCEPT
     !.act = CHOOSE name \in s.acts[e.act].names : TRUE, !.versus = NoOne, !.matchup = FALSE,
     !.date = e.day, !.city = s.venues[e.venue].city, !.state = s.venues[e.venue].state]

SaysNothingNew(m) == m.act = NoOne /\ m.date = NoDay /\ m.expr.kind = "none"

\* The event settled stays unless this message moves it: by naming another, by asking for
\* the next, or by a rule it breaks.
KeepSettled(s, id, answer, m, q, fromResolver) ==
  LET e == Row(s, id)
      act == s.acts[e.act]
      away == act.team /\ (e.home = "no"
                \/ (act.home # e.venue /\ act.market \notin {NoOne, s.venues[e.venue].market}))
  IN  /\ id # NoEvent
      /\ answer.kind # "non_us" /\ answer.reason # "constraint_conflict"
      /\ answer.kind = "resolved" =>
           answer.event # id /\ SaysNothingNew(m) /\ fromResolver
      /\ SaysNothingNew(m) \/ id \in {answer.list[i] : i \in DOMAIN answer.list}
      /\ Standing(s, id)
      /\ Breaks(q, e, s.venues[e.venue], away) = {}

\* A choice made before among these is not asked for again: the latest, if it still stands.
Remembered(s, held, list) ==
  LET among == SelectSeq(held, LAMBDA id : \E i \in DOMAIN list : list[i] = id)
  IN  IF Len(list) < 2 \/ among = <<>> THEN NoEvent
      ELSE IF Standing(s, among[1]) THEN among[1] ELSE NoEvent
=============================================================================
