--------------------------------- MODULE Catalog ---------------------------------
(***************************************************************************)
(* What the ticket provider's event search tells the catalog, and when it  *)
(* is asked (catalog/sync.ts).  An act is [id, order, names, within, team, *)
(* home, market]: "names" are its name and aliases, "within" words its     *)
(* name contains, "order" its place in the alphabet, "home" its home venue *)
(* and "market" the city it plays for.  A venue is [city, market, state,   *)
(* us, zoned, miles], "miles" a function of markets.  What the provider    *)
(* lists is [id, sides, title, venue, start, day, hour, code, kind, show,  *)
(* extras]: "sides" in the provider's order, "title" which side the name   *)
(* puts at home, "start" how its time is given.  Pure: no state.           *)
(***************************************************************************)
EXTENDS Integers, Sequences, FiniteSets, FiniteSetsExt, Order

NoOne == "none"

\* A time said without its zone's offset is one instant, except in the hour a clock change
\* repeats or skips.
Placed(d, venues) ==
  venues[d.venue].us /\ venues[d.venue].zoned /\ d.start \in {"instant", "local"}

StatusFor(code) ==
  CASE code \in {"cancelled", "postponed"} -> code
    [] OTHER -> "scheduled"

Called(a, keyword) == keyword \in a.names \cup a.within

\* The side the search was for; the first when neither is.
PrimarySide(d, keyword, acts) ==
  LET of == {i \in DOMAIN d.sides : Called(acts[d.sides[i]], keyword)}
  IN  IF of = {} THEN 1 ELSE Min(of)

\* Home as the name says, and never where the team does not play at home.
HomeFor(d, i, acts, venues) ==
  LET a == acts[d.sides[i]]
      v == venues[d.venue]
      said == IF Len(d.sides) # 2 \/ d.title = "none" THEN "unknown"
              ELSE IF (i = 1) = (d.title = "vs") THEN "yes"
              ELSE "no"
  IN  IF a.market # NoOne /\ v.market # a.market THEN "no" ELSE said

\* The row the catalog keeps of it: whose event it is, is the last search's.
RowFor(d, keyword, acts, venues) ==
  LET i == PrimarySide(d, keyword, acts)
  IN  [id |-> d.id, act |-> d.sides[i],
       other |-> IF Len(d.sides) = 2 THEN d.sides[3 - i] ELSE NoOne,
       sides |-> UNION {acts[a].names : a \in {d.sides[j] : j \in DOMAIN d.sides}},
       home |-> HomeFor(d, i, acts, venues), venue |-> d.venue, day |-> d.day,
       hour |-> d.hour, status |-> StatusFor(d.code), kind |-> d.kind, show |-> d.show,
       extras |-> d.extras]

\* An event synced twice is one row, rewritten.
Upserted(catalog, found, keyword, acts, venues) ==
  LET rows == {RowFor(d, keyword, acts, venues) : d \in {x \in found : Placed(x, venues)}}
  IN  {e \in catalog : \A r \in rows : r.id # e.id} \cup rows

-----------------------------------------------------------------------------
(* Searches.  One is [keyword, place, from, to], in hours; one on record   *)
(* also says when it was and how it went, and its "to" how far it covers.  *)
Everywhere == "everywhere"
Start(e) == 24 * e.day + e.hour

\* Recently enough, for the same words and place, over a window at least as wide.
RecentlySynced(syncs, s, now, freshFor) ==
  \E r \in syncs :
    /\ r.keyword = s.keyword /\ r.place = s.place /\ r.status = "success"
    /\ r.from <= s.from /\ s.to <= r.to /\ now - r.at <= freshFor

CallsToday(syncs, now) ==
  Cardinality({r \in syncs : r.at \div 24 = now \div 24 /\ r.status # "skipped_budget"})

\* What the provider lists for a search.
Hits(listed, s, acts, venues) ==
  {d \in listed : /\ \E i \in DOMAIN d.sides : Called(acts[d.sides[i]], s.keyword)
                  /\ s.place \in {Everywhere, venues[d.venue].market, venues[d.venue].city}
                  /\ s.from <= Start(d) /\ Start(d) <= s.to}

\* What it answers: one page, the earliest first.
PageFor(listed, s, acts, venues, size) ==
  LET before(d, e) == Start(d) < Start(e) \/ (Start(d) = Start(e) /\ d.id < e.id)
      first(page) == {page[i] : i \in 1 .. Min({size, Len(page)})}
  IN  first(Sorted(Hits(listed, s, acts, venues), before))

\* Faulty variant of CoveredTo: a full page stands for the whole window.
FaultyCoveredTo(page, s, size) == s.to

\* A full page stops at its last event, not at the end of the window.
CoveredTo(page, s, size) ==
  IF Cardinality(page) >= size THEN Max({Start(d) : d \in page}) ELSE s.to
=============================================================================
