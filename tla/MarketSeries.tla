----------------------------- MODULE MarketSeries -----------------------------
(***************************************************************************)
(* The resale market's series (lib/market/series.ts): listed prices before *)
(* fees, by the size of the party they are for, as the provider dated      *)
(* them, and what they say now.  Reading and storing them, and the signal  *)
(* for a party, are those of lib/market/tracker.ts.                        *)
(*                                                                         *)
(* A point is a price and a count of listings at an hour.  "dated" says    *)
(* the provider gave that hour; else it is the hour we fetched the read.   *)
(* Pure: no state.                                                         *)
(***************************************************************************)
EXTENDS Integers, Sequences, FiniteSets, FiniteSetsExt, SequencesExt

CONSTANTS
  MinPoints,   \* dated points for a series to be read (4)
  MinHours,    \* hours they span (12)
  StaleAfter,  \* hours the newest describes the market (24)
  ShiftPct,    \* percent of a move (5)
  ShiftCents,  \* and cents (300)
  DropPct,     \* percent of a change in listings (25)
  DropMin,     \* and listings (10)
  TypicalMin   \* past events for a typical price (5)

ASSUME SeriesAssumption ==
  /\ MinPoints \in Nat \ {0} /\ MinHours \in Nat /\ StaleAfter \in Nat
  /\ ShiftPct \in Nat /\ ShiftCents \in Nat /\ DropPct \in Nat /\ DropMin \in Nat
  /\ TypicalMin \in Nat \ {0}

LOCAL NoCount == -1
MaxGroupSize == 12
LOCAL Abs(n) == IF n < 0 THEN -n ELSE n

\* The series a party reads: singles and pairs have their own, larger ones by size.
BasisForQuantity(quantity) == Min({quantity, MaxGroupSize})
IsGroupBasis(basis) == basis > 2

\* A read of listings, one point a group size of three or more: the cheapest ordinary
\* seat still for sale with that many tickets, and how many such listings there are.
PointsFromListings(listings, sizes, now, asOf) ==
  LET fit(n) == {l \in listings : l.ordinary /\ l.active /\ l.quantity >= n}
  IN  {[basis |-> n, zone |-> "all", at |-> IF asOf = NoCount THEN now ELSE asOf,
        dated |-> asOf # NoCount, price |-> Min({l.price : l \in fit(n)}), count |-> Cardinality(fit(n))] :
          n \in {m \in {BasisForQuantity(q) : q \in sizes} : m >= 3 /\ fit(m) # {}}}

\* One row an event, basket and time: the same observation stored again is one row.
StoreSeriesPoints(series, points) ==
  series \cup {p \in points :
                 \A o \in series : <<o.basis, o.zone, o.at>> # <<p.basis, p.zone, p.at>>}

-----------------------------------------------------------------------------
(* What a series says.                                                     *)

\* The nearest point to an hour, within a tolerance; the earlier of two as near.
Nearest(points, hour, tolerance) ==
  LET near == {p \in points : Abs(p.at - hour) <= tolerance}
      nearer(p, q) == \/ Abs(p.at - hour) < Abs(q.at - hour)
                      \/ Abs(p.at - hour) = Abs(q.at - hour) /\ p.at <= q.at
  IN  {p \in near : \A q \in near : nearer(p, q)}

\* How a window moved: "down", "up", "held" or, with no baseline, "none".
WindowMove(points, current, hours) ==
  LET base == Nearest(points \ {current}, current.at - hours, Max({3, hours \div 4}))
      from == (CHOOSE p \in base : TRUE).price
      by == current.price - from
      moved == 100 * Abs(by) >= ShiftPct * from /\ Abs(by) >= ShiftCents
  IN  CASE base = {} -> "none"
        [] base # {} /\ moved -> IF by < 0 THEN "down" ELSE "up"
        [] OTHER -> "held"

\* The day and the three days must agree.
Agreed(long, short) ==
  CASE long = "none" -> IF short = "held" THEN "flat" ELSE short
    [] short = "none" -> IF long = "held" THEN "flat" ELSE long
    [] long # "none" /\ short = "held" -> IF long = "held" THEN "flat" ELSE long
    [] OTHER -> IF long = short THEN long ELSE "mixed"

\* The count now against the oldest of the 12 to 72 hours before it.
Supply(points, now) ==
  LET counted == {p \in points : p.count # NoCount}
      last == CHOOSE p \in counted : \A q \in counted : q.at <= p.at
      older == {p \in counted : last.at - p.at \in 12 .. 72}
      first == CHOOSE p \in older : \A q \in older : p.at <= q.at
      by == last.count - first.count
      large == /\ Abs(by) >= DropMin
               /\ 100 * Abs(by) >= DropPct * Max({first.count, 1})
  IN  CASE counted = {} \/ older = {} \/ last.at < now - StaleAfter -> "unknown"
        [] OTHER -> IF ~large THEN "stable" ELSE IF by < 0 THEN "shrinking" ELSE "growing"

\* Only points the provider dated make a series.
Dated(points, now) == {p \in points : p.at <= now /\ p.dated}

\* What a series says now.  With no dated point, an undated one still is the current price.
ComputeMarketContext(points, now) ==
  LET last(pts) == CHOOSE p \in pts : \A q \in pts : q.at <= p.at
      enough(pts, current) ==
        /\ now - current.at <= StaleAfter /\ Cardinality(pts) >= MinPoints
        /\ current.at - Min({p.at : p \in pts}) >= MinHours
      says(pts, current, long, short) ==
        [adequate |-> enough(pts, current) /\ {long, short} # {"none"},
         stale |-> now - current.at > StaleAfter, dated |-> TRUE, current |-> TRUE,
         direction |-> IF enough(pts, current) /\ {long, short} # {"none"}
                       THEN Agreed(long, short) ELSE "insufficient",
         supply |-> Supply(pts, now), counted |-> current.count # NoCount, scope |-> "all"]
      read(pts, current) ==
        says(pts, current, WindowMove(pts, current, 72), WindowMove(pts, current, 24))
  IN  IF Dated(points, now) = {}
      THEN [adequate |-> FALSE, stale |-> FALSE, dated |-> FALSE,
            current |-> {p \in points : p.at <= now} # {}, direction |-> "insufficient",
            supply |-> "unknown", counted |-> FALSE, scope |-> "all"]
      ELSE read(Dated(points, now), last(Dated(points, now)))

-----------------------------------------------------------------------------
(* Past events on the market: one value an event, nearest this lead time.  *)

LeadBucketFor(hours) ==
  LET ends == <<24, 72, 168, 336, 720>> IN Cardinality({i \in DOMAIN ends : ends[i] <= hours})

NearestPerEvent(past, lead) ==
  LET here == {c \in past : LeadBucketFor(c.lead) = LeadBucketFor(lead)}
      off(c) == Abs(c.lead - lead)
  IN  {c \in here : \A o \in here : o.event = c.event =>
         off(c) < off(o) \/ (off(c) = off(o) /\ c.lead <= o.lead)}

\* A typical price is said of TypicalMin events or more.
TypicalAtLead(past, lead) ==
  Cardinality({c.event : c \in NearestPerEvent(past, lead)}) >= TypicalMin

-----------------------------------------------------------------------------
(* The signal for a party.                                                 *)

Of(series, basis, zone) == {p \in series : p.basis = basis /\ p.zone = zone}

\* A party of three or more goes by its own count once that has a trend; until then, and
\* for one or two, by the count of all listings.  Prices are those of the part of the venue
\* they asked for where there are any, else the venue's.
\* Faulty variant of MarketForGroup: a group reads the prices of pairs.
FaultyMarketForGroup(series, quantity, zone, now) ==
  [ComputeMarketContext(Of(series, Min({quantity, 2}), "all"), now) EXCEPT !.scope = zone]

MarketForGroup(series, quantity, zone, now) ==
  LET supply(basis, venue, single) ==
        IF IsGroupBasis(basis) /\ venue # "unknown" THEN venue ELSE single
      priced(theirs, venue) ==
        IF zone = "all" \/ theirs = {} THEN venue
        ELSE [ComputeMarketContext(theirs, now) EXCEPT !.scope = zone]
      own(basis, venue) ==
        [priced({p \in Of(series, basis, zone) : p.at <= now}, venue) EXCEPT !.supply =
           supply(basis, venue.supply, ComputeMarketContext(Of(series, 1, "all"), now).supply)]
  IN  own(BasisForQuantity(quantity),
          ComputeMarketContext(Of(series, BasisForQuantity(quantity), "all"), now))
=============================================================================
