----------------------------- MODULE PriceHistory -----------------------------
(***************************************************************************)
(* What past prices say, and who may use them: the range of comparable     *)
(* past events (lib/advice/benchmark.ts), the trend of a group's own       *)
(* basket (lib/advice/trend.ts) and the rights a trend is derived and      *)
(* shown under (lib/advice/trend-rights.ts).                               *)
(*                                                                         *)
(* A dataset says what its prices may be used for and until when.  Dates   *)
(* against which "now" is compared are kept as "none", "open" or "over".   *)
(* Rows of the synthetic fixture world are left out.  Pure: no state.      *)
(***************************************************************************)
EXTENDS Integers, Sequences, FiniteSets, FiniteSetsExt, SequencesExt, Functions, Order

CONSTANTS
  SmallSample,  \* benchmark: independent events for a range to be said at all (5)
  FullSample,   \* benchmark: independent events for it to be "sufficient" (10)
  MinReads,     \* trend: valid observations (4)
  MinSpan,      \* trend: hours they span (6)
  MovePct,      \* trend: percent an endpoint moves by (3)
  MoveCents,    \* trend: and cents (500)
  Lookback,     \* trend: hours up to the latest valid observation that count (72)
  Tolerance,    \* trend: hours a baseline may be off its window (1.5)
  CurrentFor    \* trend: hours the latest observation counts as current (24)

ASSUME HistoryAssumption ==
  /\ SmallSample \in Nat \ {0} /\ FullSample \in Nat /\ SmallSample <= FullSample
  /\ MinReads \in Nat \ {0, 1} /\ MinSpan \in Nat
  /\ MovePct \in Nat /\ MoveCents \in Nat
  /\ Lookback \in Nat /\ Tolerance \in Nat /\ CurrentFor \in Nat

Uses == {"benchmark", "advice", "customer_display"}
Ends == {"none", "open", "over"}
Statuses == {"quarantined", "approved", "revoked", "expired"}
Rights == [status : Statuses, uses : SUBSET Uses, raw : Ends, derived : Ends]

-----------------------------------------------------------------------------
(* The benchmark.                                                          *)

Homes == {"home", "away", "unknown"}
Target ==
  [event : Nat, kind : STRING, home : Homes, quantity : Nat, class : STRING, lead : Int]
Snapshot ==
  [id : Nat, event : Nat, dataset : STRING, kind : STRING, home : Homes, quantity : Nat,
   class : STRING, complete : BOOLEAN, price : Int, lead : Int]

LeadBucket(hours) ==
  LET ends == <<6, 24, 72, 168, 336, 720>> IN Cardinality({i \in DOMAIN ends : ends[i] <= hours})

\* Faulty variant of Quartile: the position is counted over n rather than n - 1.
FaultyQuartile(prices, k) ==
  LET h == Len(prices) * k
      lo == prices[Min({h \div 4 + 1, Len(prices)})]
      hi == prices[Min({h \div 4 + 2, Len(prices)})]
  IN  4 * lo + (h % 4) * (hi - lo)

\* Four times the k-th quartile of prices in order, type 7: linear between the two it falls
\* between.
Quartile(prices, k) ==
  LET h == (Len(prices) - 1) * k
      lo == prices[h \div 4 + 1]
      hi == prices[Min({h \div 4 + 2, Len(prices)})]
  IN  4 * lo + (h % 4) * (hi - lo)

\* A home or away that is not known matches either; the rest of an event's context
\* (performer, venue, layout, category, phase) has to be the same.
ContextMatches(a, b) == a.kind = b.kind /\ (a.home # b.home => "unknown" \in {a.home, b.home})

MayBenchmark(s, rights) ==
  /\ rights[s.dataset].status = "approved" /\ "benchmark" \in rights[s.dataset].uses
  /\ rights[s.dataset].raw # "over"

\* The filters of the cohort, past the rights: the event itself is not its own history.
Comparable(s, target) ==
  /\ s.event # target.event
  /\ ContextMatches(target, s)
  /\ s.quantity = target.quantity
  /\ target.class # "none" => s.class = target.class
  /\ s.complete
  /\ s.price > 0
  /\ LeadBucket(s.lead) = LeadBucket(target.lead)

\* One snapshot an event: the nearest to the target's lead time, the first by id of two.
Representatives(snapshots, target, rights) ==
  LET cohort == {s \in snapshots : MayBenchmark(s, rights) /\ Comparable(s, target)}
      off(s) == IF s.lead > target.lead THEN s.lead - target.lead ELSE target.lead - s.lead
      nearer(a, b) == off(a) < off(b) \/ (off(a) = off(b) /\ a.id < b.id)
  IN  {s \in cohort : \A o \in cohort : o # s /\ o.event = s.event => nearer(s, o)}

Cheaper(a, b) == a.price < b.price \/ (a.price = b.price /\ a.id < b.id)

\* Adequacy, quartiles (four times over) and whether a customer may see them.  A dataset
\* that may not be shown denies it as soon as it holds any snapshot with the right to
\* steer, a comparable one or not.
Benchmark(snapshots, target, rights) ==
  LET reps == Representatives(snapshots, target, rights)
      ranked == Sorted(reps, Cheaper)
      prices == [i \in DOMAIN ranked |-> ranked[i].price]
      n == Cardinality(reps)
  IN  [ adequacy |-> CASE n >= FullSample -> "sufficient"
                       [] n < FullSample /\ n >= SmallSample -> "limited"
                       [] OTHER -> "insufficient",
        p25 |-> IF n >= SmallSample THEN Quartile(prices, 1) ELSE 0,
        median |-> IF n >= SmallSample THEN Quartile(prices, 2) ELSE 0,
        p75 |-> IF n >= SmallSample THEN Quartile(prices, 3) ELSE 0,
        reps |-> reps,
        shown |-> /\ reps # {}
                  /\ \A s \in snapshots : (s.event # target.event /\ MayBenchmark(s, rights))
                        => "customer_display" \in rights[s.dataset].uses ]

-----------------------------------------------------------------------------
(* The rights of a trend.                                                  *)

MayDerive(r) ==
  /\ r.status = "approved" /\ "advice" \in r.uses
  /\ (IF r.derived # "none" THEN r.derived ELSE r.raw) # "over"

Admitted(reads, rights) == {o \in reads : MayDerive(rights[o.dataset])}
DisplayAllowed(reads, rights) ==
  /\ Admitted(reads, rights) # {}
  /\ \A o \in Admitted(reads, rights) : "customer_display" \in rights[o.dataset].uses

-----------------------------------------------------------------------------
(* The trend of one basket: reads at the hours they were made, "now" the   *)
(* hour it is asked.                                                       *)

InOrder(reads) == Sorted(reads, LAMBDA a, b : a.at < b.at)

ValidReads(reads, now) == {o \in reads : o.at <= now /\ o.price > 0 /\ o.complete}

\* Those of the lookback, if all of them share a source; in order.
UsableReads(reads, now) ==
  LET valid == ValidReads(reads, now)
      last == Max({o.at : o \in valid})
      window == {o \in valid : last - o.at <= Lookback + Tolerance}
      shared == {s \in UNION {o.sources : o \in window} : \A o \in window : s \in o.sources}
  IN  IF valid = {} \/ shared = {} THEN <<>> ELSE InOrder(window)

\* The sign of the median slope between two reads: slopes a/b compared by cross
\* multiplication; for an even number the two in the middle are added.
SlopeSign(used) ==
  LET pairs == {p \in (DOMAIN used) \X (DOMAIN used) : p[1] < p[2]}
      rise(p) == used[p[2]].price - used[p[1]].price
      time(p) == used[p[2]].at - used[p[1]].at
      less(p, q) == LET d == rise(p) * time(q) - rise(q) * time(p)
                    IN  d < 0 \/ (d = 0 /\ (p[1] < q[1] \/ (p[1] = q[1] /\ p[2] < q[2])))
      ranked(k) == CHOOSE p \in pairs : Cardinality({q \in pairs : less(q, p)}) = k - 1
      n == Cardinality(pairs)
      lo == ranked((n + 1) \div 2)
      hi == ranked(n \div 2 + 1)
      sum == rise(lo) * time(hi) + rise(hi) * time(lo)
  IN  CASE sum > 0 -> 1 [] sum < 0 -> -1 [] OTHER -> 0

Direction(used) ==
  LET first == used[1]
      moved == used[Len(used)].price - first.price
      by == IF moved < 0 THEN -moved ELSE moved
  IN  CASE by * 100 <= MovePct * first.price \/ by <= MoveCents -> "flat"
        [] by * 100 > MovePct * first.price /\ by > MoveCents
             /\ moved > 0 /\ SlopeSign(used) > 0 -> "up"
        [] by * 100 > MovePct * first.price /\ by > MoveCents
             /\ moved < 0 /\ SlopeSign(used) < 0 -> "down"
        [] OTHER -> "mixed"

\* A baseline 6, 24 or 72 hours before the latest read: the move a trend is said by.
HasWindow(used) ==
  \E h \in {6, 24, 72}, o \in Range(SubSeq(used, 1, Len(used) - 1)) :
    LET off == used[Len(used)].at - h - o.at IN off \in -Tolerance .. Tolerance

\* A series long enough but ended too long ago is history: insufficient for timing, its
\* own dates and prices kept.
Trend(reads, now) ==
  LET enough(used) == Len(used) >= MinReads /\ used[Len(used)].at - used[1].at >= MinSpan
      current(used) == used # <<>> /\ now - used[Len(used)].at <= CurrentFor
      trend(used) ==
        [adequate |-> enough(used) /\ current(used),
         historical |-> enough(used) /\ ~current(used),
         direction |-> IF enough(used) /\ current(used) THEN Direction(used) ELSE "insufficient",
         window |-> used # <<>> /\ HasWindow(used),
         used |-> Range(used)]
  IN  trend(UsableReads(reads, now))
=============================================================================
