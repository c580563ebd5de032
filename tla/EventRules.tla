------------------------------ MODULE EventRules ------------------------------
(***************************************************************************)
(* The days a phrase means (domain/dates.ts), and the rules a customer puts*)
(* on which event they mean: what they say across a thread, and what an    *)
(* event breaks (domain/event-constraints.ts).  Pure: no state.            *)
(*                                                                         *)
(* Days are numbered from a Sunday, January 1 of year 0, in years of 365;  *)
(* leap days and the zone's clock changes are left out.  A message is what *)
(* it says of each kind of rule; how the words are found is left out.      *)
(***************************************************************************)
EXTENDS Integers, Sequences, FiniteSets, SequencesExt

-----------------------------------------------------------------------------
(* The day or the span of days read from a phrase.                         *)

NoDay == -1

Lengths == <<31, 28, 31, 30, 31, 30, 31, 31, 30, 31, 30, 31>>
DaysBefore == <<0, 31, 59, 90, 120, 151, 181, 212, 243, 273, 304, 334>>
DayOf(y, m, d) == 365 * y + DaysBefore[m] + d - 1
YearOf(day) == day \div 365
MonthOf(day) == CHOOSE m \in 1 .. 12 : (day % 365) - DaysBefore[m] \in 0 .. Lengths[m] - 1
DateOf(day) == (day % 365) - DaysBefore[MonthOf(day)] + 1
Weekday(day) == day % 7

Least(a, b) == IF a < b THEN a ELSE b
Most(a, b) == IF a > b THEN a ELSE b

\* A named month is this year's, or next year's once it has passed.
YearFor(m, today) == YearOf(today) + IF m < MonthOf(today) THEN 1 ELSE 0

\* A stretch of days, both ends included; no stretch at all.
Span(from, to) == [from |-> from, to |-> to]
NoSpan == Span(NoDay, NoDay)
Within(day, w) == w.from <= day /\ day <= w.to

\* Days until the weekday that is next, never today.
ComingDays(today, weekday) == LET d == (weekday - Weekday(today)) % 7 IN IF d = 0 THEN 7 ELSE d

\* The day a phrase names; what is said within an hour of midnight is a day nobody can be
\* sure of.
RelativeDay(p, today) ==
  CASE p.kind = "today" -> today
    [] p.kind = "in_days" -> today + p.n
    [] p.kind = "weekday" -> today + ComingDays(today, p.weekday)
    [] p.kind = "next_weekday" ->
         today + ComingDays(today, p.weekday) + IF ComingDays(today, p.weekday) < 7 THEN 7 ELSE 0
    [] OTHER -> NoDay
NearMidnight(hour) == hour >= 23 \/ hour < 1

\* Weeks run from Monday to Sunday.
ToMonday(today) == IF Weekday(today) = 0 THEN -6 ELSE 1 - Weekday(today)
\* The Friday to come, or today once the weekend has begun.
ToFriday(today) == IF Weekday(today) \in {0, 6} THEN 0 ELSE 5 - Weekday(today)

\* Weeks and weekends; "next weekend" is read both ways, the coming one and the one after.
WeekWindow(kind, today) ==
  LET sunday == today + ToMonday(today) + 6
      last == IF Weekday(today) = 0 THEN today ELSE sunday
  IN  CASE kind = "this_week" -> Span(today, sunday)
        [] kind = "next_week" -> Span(sunday + 1, sunday + 7)
        [] kind = "this_weekend" -> Span(today + ToFriday(today), last)
        [] kind = "next_weekend" -> Span(today + ToFriday(today), last + 7)
        [] OTHER -> NoSpan

\* From today up to a day still to come: without it, or with it ("by", "until").
BeforeWindow(p, today) ==
  LET year == CASE p.holiday -> YearOf(today)
                                  + IF DayOf(YearOf(today), p.m, p.d) >= today THEN 0 ELSE 1
                [] OTHER -> YearFor(p.m, today)
      d == IF p.d = NoDay THEN 1 ELSE Least(p.d, Lengths[p.m])
      upTo(to) == IF to >= today THEN Span(today, to) ELSE NoSpan
  IN  upTo(DayOf(year, p.m, d) - IF p.d # NoDay /\ p.inclusive THEN 0 ELSE 1)

\* The week that holds a day they named.
WeekOf(p, today) ==
  LET week(monday) == Span(monday, monday + 6)
      of(day) == week(day + ToMonday(day))
  IN  of(DayOf(YearFor(p.m, today), p.m, p.d))

\* A week of a month, counted from its first day; the last is its last seven.
WeekInMonth(p, first, last) ==
  IF p.n = 5 THEN Span(last - 6, last)
  ELSE Span(first + 7 * (p.n - 1), Least(first + 7 * p.n - 1, last))

PartOfMonth(p, first, last) ==
  CASE p.kind = "week_in_month" -> WeekInMonth(p, first, last)
    [] p.kind = "part" /\ p.part = "early" -> Span(first, first + 9)
    [] p.kind = "part" /\ p.part = "mid" -> Span(first + 10, first + 19)
    [] p.kind = "part" /\ p.part = "late" -> Span(first + 20, last)
    [] OTHER -> Span(first, last)

\* From one day to another, over the new year where the second month is the earlier.
DayRange(p, today) ==
  LET days(from, to) == IF from <= to THEN Span(from, to) ELSE NoSpan
      of(y) == days(DayOf(y, p.m, Least(p.d, Lengths[p.m])),
                    DayOf(IF p.m2 < p.m THEN y + 1 ELSE y, p.m2, Least(p.d2, Lengths[p.m2])))
  IN  of(YearFor(p.m, today))

MonthSpan(y, m) == Span(DayOf(y, m, 1), DayOf(y, m, Lengths[m]))
InMonth(p, month) == PartOfMonth(p, month.from, month.to)

\* The span a phrase names without naming a day.
WindowFor(p, today) ==
  CASE p.kind = "week_of" -> WeekOf(p, today)
    [] p.kind = "before" -> BeforeWindow(p, today)
    [] p.kind = "year_end" -> Span(today, DayOf(YearOf(today), 12, 31))
    [] p.kind = "ahead" -> Span(today + Most(0, p.n - 7), today + p.n + 7)
    [] p.kind \in {"week_in_month", "part", "month"} -> InMonth(p, MonthSpan(YearFor(p.m, today), p.m))
    [] p.kind = "range" -> DayRange(p, today)
    [] p.kind = "weeks" -> Span(today, today + 7 * p.n)
    [] p.kind = "this_month" -> Span(today, MonthSpan(YearOf(today), MonthOf(today)).to)
    [] p.kind = "next_month" ->
         MonthSpan(YearOf(today) + IF MonthOf(today) = 12 THEN 1 ELSE 0, (MonthOf(today) % 12) + 1)
    [] OTHER -> WeekWindow(p.kind, today)

-----------------------------------------------------------------------------
(* The rules.                                                              *)

NoHour == 99
AnyDay == 0 .. 6

\* What a message that says nothing says.  "span" is a phrase for days, "dated" that a day
\* is named, "weekend" one of none, only, loose and weekdays.
Silent ==
  [venues |-> {}, soft |-> {}, out |-> {}, home |-> FALSE,
   after |-> NoHour, strict |-> FALSE, before |-> NoHour, exact |-> NoHour, notTimes |-> {},
   part |-> "none", weekend |-> "none", days |-> {}, notDays |-> {},
   span |-> [kind |-> "none"], dated |-> FALSE, next |-> FALSE,
   region |-> "unsaid", living |-> FALSE]

NoRules ==
  [venues |-> {}, out |-> {}, home |-> FALSE, after |-> NoHour, strict |-> FALSE,
   before |-> NoHour, exact |-> NoHour, also |-> {}, notTimes |-> {}, part |-> "none",
   days |-> AnyDay, notDays |-> {}, window |-> NoSpan, twoWays |-> FALSE, next |-> FALSE,
   region |-> "anywhere"]

\* The states of a part of the country.
Regions == [east |-> {"NY", "PA", "CT"}, west |-> {"CA"}]

\* A region named as where the event should be: not where they live, nor where they do not
\* want it.
RegionIn(s) == IF s.living THEN "unsaid" ELSE s.region

\* "Starting after 7, not at 7" is after 7.
TimesIn(s) ==
  [after |-> s.after, strict |-> s.strict \/ (s.after # NoHour /\ s.after \in s.notTimes),
   before |-> s.before, exact |-> s.exact]

\* A weekend has a Friday night, except for games.
WeekdaysIn(s, sports) ==
  CASE s.weekend = "only" -> {6, 0}
    [] s.weekend = "loose" -> IF sports THEN {6, 0} ELSE {5, 6, 0}
    [] s.weekend = "weekdays" -> 1 .. 5
    [] OTHER -> s.days

\* "Next Saturday" is the coming one to some and the one after to others.
WindowIn(s, today) ==
  IF s.span.kind = "next_weekday"
  THEN LET d == today + ComingDays(today, s.span.weekday)
       IN  Span(d, IF d - today < 7 THEN d + 7 ELSE d)
  ELSE WindowFor(s.span, today)

\* Faulty variant of Restated: a day named later leaves an earlier month standing.
FaultyRestated(rules, s, out, times, days, window, region) ==
  [rules EXCEPT
     !.out = out, !.home = @ \/ s.home, !.days = IF days # {} THEN days ELSE @,
     !.window = IF window # NoSpan THEN window ELSE @, !.next = @ \/ s.next]

\* One more message: of each kind of rule the last that states it wins; home only and the
\* next one stay asked for.  Hours are replaced together, and a day they now name takes the
\* place of an earlier month or range.
Restated(rules, s, out, times, days, window, region) ==
  LET named == s.venues \ (s.out \cup s.soft)
      retimed == {s.after, s.before, s.exact} # {NoHour}
      coming == s.span.kind = "next_weekday"
  IN  [rules EXCEPT
         !.out = out,
         !.venues = (IF named # {} THEN named ELSE @) \ out,
         !.home = @ \/ s.home,
         !.after = IF retimed THEN times.after ELSE @,
         !.strict = IF retimed THEN times.strict ELSE @,
         !.before = IF retimed THEN times.before ELSE @,
         !.exact = IF retimed THEN times.exact ELSE @,
         !.notTimes = IF s.notTimes # {} THEN s.notTimes ELSE @,
         !.part = IF s.part # "none" THEN s.part ELSE @,
         !.days = CASE days # {} -> days
                    [] days = {} /\ coming -> {s.span.weekday}
                    [] OTHER -> @,
         !.notDays = IF s.notDays # {} THEN s.notDays ELSE @,
         !.window = CASE window # NoSpan -> window
                      [] window = NoSpan /\ s.dated -> NoSpan
                      [] OTHER -> @,
         !.twoWays = IF window # NoSpan THEN coming ELSE @,
         !.next = @ \/ s.next,
         !.region = IF region # "unsaid" THEN region ELSE @]
Stated(rules, s, today, sports) ==
  Restated(rules, s, IF s.out # {} THEN s.out ELSE rules.out, TimesIn(s), WeekdaysIn(s, sports),
           WindowIn(s, today), RegionIn(s))

\* Every message, each read on the day of the last.
EventConstraints(said, today, sports) ==
  FoldLeft(LAMBDA rules, s : Stated(rules, s, today, sports), NoRules, said)

\* What of an event breaks the rules; "before" is the first hour too late.  "away" is given
\* by who asks: the team's own market decides it when it is known.
Breaks(r, e, v, away) ==
  LET place == IF e.venue \in r.out THEN {"ruled_out"}
               ELSE IF r.venues # {} /\ e.venue \notin r.venues THEN {"venue"}
               ELSE {}
      holds ==
        [away |-> r.home /\ away /\ place = {},
         exact |-> r.exact # NoHour /\ e.hour \notin {r.exact} \cup r.also,
         not_then |-> e.hour \in r.notTimes,
         early |-> r.after # NoHour /\ (e.hour < r.after \/ (r.strict /\ e.hour = r.after)),
         late |-> r.before # NoHour /\ e.hour >= r.before,
         matinee |-> r.part = "evening" /\ e.hour < 17,
         evening |-> r.part = "matinee" /\ e.hour >= 17,
         weekday |-> Weekday(e.day) \notin r.days \/ Weekday(e.day) \in r.notDays,
         region |-> r.region # "anywhere" /\ v.state \notin Regions[r.region],
         window |-> r.window # NoSpan /\ ~Within(e.day, r.window)]
  IN  place \cup {k \in DOMAIN holds : holds[k]}
=============================================================================
