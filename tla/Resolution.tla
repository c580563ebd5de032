------------------------------- MODULE Resolution -------------------------------
(***************************************************************************)
(* From what a customer writes to the event researched for them: each      *)
(* message of a thread is merged into the brief, an event offered before   *)
(* may be picked, the catalog is read, the provider asked where it has     *)
(* nothing, and the request goes to research, to the customer with a       *)
(* question, or to nobody (lib/intake/pipeline.ts, interpret and           *)
(* resolveEventWithDiscovery; catalog/sync.ts).                            *)
(*                                                                         *)
(* Another customer's search shares the catalog, the record of searches    *)
(* and the day's calls, and runs between any two steps.  The state of the  *)
(* request is that of whoever composes this module.                        *)
(***************************************************************************)
EXTENDS Replies

CONSTANTS
  Scenes,      \* the threads looked at: what is written, what there is to find
  FreshFor,    \* hours a search stands in for the same one (6)
  DailyLimit,  \* searches a day
  PageSize,    \* events in an answer of the provider (100)
  MaxRounds,   \* questions in a row before a person takes it (3)
  MaxAsked     \* times the count is asked before two are assumed (2)

VARIABLES
  scene,    \* the thread this behaviour is of
  world,    \* the catalog, what the provider lists, the searches on record, the hour
  calls,    \* the search under way, of ours and of another customer's
  enq,      \* the message being interpreted
  thread,   \* what the thread's messages came to
  spare,    \* bound: what others may still do
  request   \* where the request is

rvars == <<scene, world, calls, enq, thread, spare>>

Callers == {"ours", "theirs"}
NoSearch == [keyword |-> NoOne, place |-> NoOne, from |-> 0, to |-> 0]
NoCall == [stage |-> "idle", search |-> NoSearch, force |-> FALSE, status |-> "none"]
Blank == [stage |-> "idle", bound |-> NoEvent, answer |-> Miss("none"), near |-> <<>>]
NoThread ==
  [read |-> 0, brief |-> BlankBrief, settled |-> NoEvent, held |-> <<>>, offered |-> <<>>,
   offeredAt |-> 0, ranked |-> "none", open |-> {}, rounds |-> 0, counts |-> 0, outcome |-> "none",
   shown |-> <<>>, picked |-> 0, from |-> <<>>]

RInit ==
  /\ scene \in Scenes
  /\ world = [catalog |-> scene.catalog, listed |-> scene.listed, syncs |-> {},
              now |-> scene.now]
  /\ calls = [c \in Callers |-> NoCall]
  /\ enq = Blank
  /\ thread = NoThread
  /\ spare = scene.changes
  /\ request = IF scene.script = <<>> THEN "researching" ELSE "unsettled"

S == [catalog |-> world.catalog, acts |-> scene.acts, venues |-> scene.venues,
      markets |-> scene.markets, default |-> scene.default, now |-> world.now]
Revision == thread.read
Said == scene.script[thread.read]
X == thread.brief

\* The rules of the thread's messages, each read on the day of the last.
Sports(x) ==
  \E a \in DOMAIN scene.acts : scene.acts[a].team /\ x.act \in scene.acts[a].names
Q ==
  LET said == [i \in 1 .. thread.read |-> scene.script[i].says]
      with(rules) == [k \in DOMAIN rules \cup {"cheapest", "linked"} |->
        CASE k = "cheapest" -> enq.bound = NoEvent /\ Said.cheapest
          [] k = "linked" -> UNION {scene.script[i].links : i \in 1 .. thread.read}
          [] OTHER -> rules[k]]
  IN  with(EventConstraints(said, Today(S), Sports(X)))
Home == IF {X.city, X.state} = {NoOne} THEN scene.home ELSE NoOne

-----------------------------------------------------------------------------
(* A message is read.                                                      *)

\* Faulty variant of OfferedRows: a list of an earlier email is read as the last one's.
FaultyOfferedRows ==
  IF request # "needs_clarification" THEN <<>>
  ELSE SelectSeq(EventRows(S, thread.offered), LAMBDA e : e.status = "scheduled")

\* What the last email offered, if it asked them to choose; what was called off is left out.
OfferedRows ==
  IF request # "needs_clarification" \/ thread.offeredAt # Revision THEN <<>>
  ELSE SelectSeq(EventRows(S, thread.offered), LAMBDA e : e.status = "scheduled")

\* Another act is another event: what named the old one goes.
NewAct(x, m) ==
  /\ NoOne \notin {x.act, m.act}
  /\ ~\E a \in DOMAIN scene.acts :
        {x.act, m.act} \subseteq scene.acts[a].names \cup scene.acts[a].within
Merged(x, m) ==
  IF NewAct(x, m)
  THEN MergeExtraction([Undated(x) EXCEPT !.versus = NoOne, !.matchup = FALSE], m)
  ELSE MergeExtraction(x, m)

\* A team named with no day that is a side of the game settled, or of the one other game
\* settled earlier, is that game.
SideOf(e, word) == word \in e.sides
ByItsSide(m) ==
  LET standing == {e \in Upcoming(S) : e.id \in {thread.held[i] : i \in DOMAIN thread.held}}
      current == {e \in standing : e.id = thread.settled /\ SideOf(e, m.brief.act)}
      earlier == {e \in standing : e.id # thread.settled /\ SideOf(e, m.brief.act)}
  IN  CASE m.brief.act = NoOne \/ m.brief.date # NoDay \/ m.brief.expr # NoPhrase
             \/ m.links # {} -> NoEvent
        [] current # {} -> IF m.another \/ m.cheapest THEN NoEvent ELSE thread.settled
        [] OTHER -> IF Cardinality(earlier) = 1 THEN (CHOOSE e \in earlier : TRUE).id ELSE NoEvent

\* The next message: the brief with what it says, or with the event it picks of those
\* offered.  Another act, and the event settled is settled no more.
Receive ==
  /\ request \in {"unsettled", "needs_clarification"} /\ enq.stage = "idle"
  /\ thread.read < Len(scene.script)
  /\ LET m == scene.script[thread.read + 1]
         rows == OfferedRows
         idx == IF m.notify THEN None ELSE OfferedChoice(m.reply, rows, m.brief.act)
         bound == CASE thread.read = 0 -> NoEvent
                    [] thread.read > 0 /\ idx # None -> rows[idx].id
                    [] OTHER -> ByItsSide(m)
         merged == Merged(X, m.brief)
     IN  /\ enq' = [Blank EXCEPT !.stage = "local", !.bound = bound]
         /\ thread' = [thread EXCEPT
              !.read = @ + 1,
              !.brief = IF bound = NoEvent THEN merged ELSE BoundToEvent(S, merged, Row(S, bound)),
              !.settled = IF NewAct(X, m.brief) THEN NoEvent ELSE @,
              !.picked = IF idx # None THEN idx ELSE 0,
              !.from = IF idx # None THEN Ids(rows) ELSE <<>>]
  /\ UNCHANGED <<scene, world, calls, spare, request>>

-----------------------------------------------------------------------------
(* The searches of the provider.                                           *)

\* A day either side of what they named, or from today for some months.
DiscoveryWindow(x, openDays) ==
  LET hours(from, to) == Span(24 * from, 24 * to + 23)
      around(span) == IF span # NoSpan THEN hours(span.from - 1, span.to + 1)
                      ELSE hours(Today(S), Today(S) + openDays)
  IN  around(IF x.date # NoDay THEN Span(x.date, x.date) ELSE WindowFor(x.expr, Today(S)))
SearchFor(x, place, openDays) ==
  LET over(w) == [keyword |-> x.act, place |-> place, from |-> w.from, to |-> w.to]
  IN  over(DiscoveryWindow(x, openDays))
PlaceOf(x) == IF x.city = NoOne THEN Everywhere ELSE MarketOf(S, x.city)

Ask(c, search, force) ==
  calls' = [calls EXCEPT ![c] = [NoCall EXCEPT !.stage = "look", !.search = search,
                                               !.force = force]]
Recorded(c, to, status) ==
  LET s == calls[c].search
  IN  world.syncs \cup {[nth |-> Cardinality(world.syncs), by |-> c, keyword |-> s.keyword,
                         place |-> s.place, from |-> s.from, to |-> to, status |-> status,
                         at |-> world.now]}

\* A search made recently is not made again, unless forced; past the day's limit none is.
LookUp(c) ==
  /\ calls[c].stage = "look"
  /\ LET s == calls[c].search
         fresh == ~calls[c].force /\ RecentlySynced(world.syncs, s, world.now, FreshFor)
         over == CallsToday(world.syncs, world.now) >= DailyLimit
         ended(status) == [calls EXCEPT ![c].stage = "done", ![c].status = status]
     IN  CASE fresh -> calls' = ended("skipped_fresh") /\ UNCHANGED world
           [] ~fresh /\ over -> /\ calls' = ended("skipped_budget")
                                /\ world' = [world EXCEPT
                                     !.syncs = Recorded(c, s.to, "skipped_budget")]
           [] OTHER -> calls' = [calls EXCEPT ![c].stage = "call"] /\ UNCHANGED world
  /\ UNCHANGED <<scene, enq, thread, spare, request>>

\* Its answer: one page, written into the catalog, or a failure, which is recorded too.
Call(c) ==
  /\ calls[c].stage = "call"
  /\ \E answers \in BOOLEAN :
       LET s == calls[c].search
           page == PageFor(world.listed, s, scene.acts, scene.venues, PageSize)
       IN  /\ world' = IF answers
                       THEN [world EXCEPT
                              !.catalog = Upserted(@, page, s.keyword, scene.acts, scene.venues),
                              !.syncs = Recorded(c, CoveredTo(page, s, PageSize), "success")]
                       ELSE [world EXCEPT !.syncs = Recorded(c, s.to, "failed")]
           /\ calls' = [calls EXCEPT ![c].stage = "done",
                                     ![c].status = IF answers THEN "success" ELSE "failed"]
  /\ UNCHANGED <<scene, enq, thread, spare, request>>
Answered == calls["ours"].status \in {"success", "skipped_fresh"}

-----------------------------------------------------------------------------
(* The event is looked for.                                                *)

Resolve == ResolveEvent(S, X, Q, Home, FALSE)
Missed(answer) == answer.kind = "no_match" /\ answer.reason # "no_performer"

\* At the end of the search: a team's away games, where a day or a date was named.
WithAway(answer) ==
  LET tries == /\ Missed(answer) /\ answer.reason # "constraint_conflict"
               /\ X.date # NoDay \/ X.expr # NoPhrase
      found(away) == IF away.kind \in {"resolved", "ambiguous"} THEN away ELSE answer
  IN  IF tries THEN found(ResolveEvent(S, X, Q, Home, TRUE)) ELSE answer

\* A conflict's other event is taken where this message names no date; and shows elsewhere
\* are looked for where nothing was found in the place they named.
Suggested(answer) ==
  IF answer.other # NoEvent /\ Said.brief.date = NoDay /\ Said.brief.expr = NoPhrase
  THEN Resolved(answer.other) ELSE answer
Anywhere(q) == q.venues = {} /\ ~q.home
LooksElsewhere(answer) ==
  /\ Missed(answer) /\ answer.reason # "constraint_conflict"
  /\ Anywhere(Q) /\ X.city # NoOne /\ X.act # NoOne

\* What the search came to: settled next, or a national search for shows elsewhere first.
Conclude(answer) ==
  \E looks \in {LooksElsewhere(answer)} :
  \E near \in {IF looks THEN NearestElsewhere(S, X) ELSE <<>>} :
    LET afar == looks /\ ~InReach(S, X, near) /\ scene.available
    IN  /\ enq' = [enq EXCEPT !.stage = IF afar THEN "afar" ELSE "settle",
                              !.answer = answer, !.near = near]
        /\ IF afar THEN Ask("ours", SearchFor(X, Everywhere, 180), FALSE)
           ELSE calls' = [calls EXCEPT !["ours"] = NoCall]

\* The catalog first; the provider only where it misses and may be asked.
ReadCatalog ==
  /\ enq.stage = "local"
  /\ \E answer \in {IF enq.bound # NoEvent THEN Resolved(enq.bound) ELSE Resolve} :
       IF Missed(answer) /\ answer.other = NoEvent /\ scene.available
       THEN /\ enq' = [enq EXCEPT !.stage = "asking", !.answer = answer]
            /\ Ask("ours", SearchFor(X, PlaceOf(X), 90), FALSE)
       ELSE Conclude(Suggested(WithAway(answer)))
  /\ UNCHANGED <<scene, world, thread, spare, request>>

NoResults(answer) ==
  IF Missed(answer) /\ answer.reason # "constraint_conflict" THEN Miss("discovery_no_results")
  ELSE answer

\* Read again after an answer; a miss on a search that was only remembered is asked once
\* more, and then that miss stands.
ReadAgain ==
  /\ enq.stage = "asking" /\ calls["ours"].stage = "done"
  /\ \E again \in {IF Answered THEN Resolve ELSE enq.answer} :
       IF calls["ours"].status = "skipped_fresh" /\ Missed(again)
       THEN /\ enq' = [enq EXCEPT !.stage = "forcing", !.answer = again]
            /\ Ask("ours", calls["ours"].search, TRUE)
       ELSE Conclude(Suggested(WithAway(IF Answered THEN NoResults(again) ELSE again)))
  /\ UNCHANGED <<scene, world, thread, spare, request>>

ReadForced ==
  /\ enq.stage = "forcing" /\ calls["ours"].stage = "done"
  /\ \E again \in {IF calls["ours"].status = "success" THEN Resolve ELSE enq.answer} :
       Conclude(Suggested(WithAway(NoResults(again))))
  /\ UNCHANGED <<scene, world, thread, spare, request>>

ReadElsewhere ==
  /\ enq.stage = "afar" /\ calls["ours"].stage = "done"
  /\ enq' = [enq EXCEPT !.stage = "settle",
                        !.near = IF Answered THEN NearestElsewhere(S, X) ELSE @]
  /\ calls' = [calls EXCEPT !["ours"] = NoCall]
  /\ UNCHANGED <<scene, world, thread, spare, request>>

-----------------------------------------------------------------------------
(* What the message comes to.                                              *)

\* A result so far: the answer, the shows elsewhere, whether the resolver itself gave it.
Result(answer, near, own) == [answer |-> answer, near |-> near, own |-> own]

\* The only show elsewhere is taken, for a day they named or a trip as short.
TakeSole(r) ==
  IF Len(r.near) = 1 /\ OneTrip(S, X, r.near[1])
  THEN Result(Resolved(r.near[1].id), <<>>, FALSE) ELSE r

\* A reply to a list picks from it: a ranking as it was sent, any other as it is now.
PickFromList(r) ==
  LET ranking == /\ thread.ranked # "none" /\ request = "needs_clarification"
                 /\ r.answer.kind = "ambiguous"
                 /\ \E i \in DOMAIN r.answer.list, j \in DOMAIN thread.offered :
                      r.answer.list[i] = thread.offered[j]
      options == IF ranking THEN EventRows(S, thread.offered)
                 ELSE IF Len(r.near) > 1 THEN r.near
                 ELSE EventRows(S, r.answer.list)
      pick(idx) == IF idx = None THEN r
                   ELSE Result(Resolved(options[idx].id), <<>>, FALSE)
  IN  IF enq.bound = NoEvent /\ thread.read > 1 /\ Len(options) > 1
      THEN pick(ListChoice(Said.reply, options, ranking /\ thread.ranked = "price")) ELSE r

\* A question about another date leaves the event settled.
AsksOtherDate ==
  /\ Said.alt /\ enq.bound = NoEvent /\ thread.settled # NoEvent
  /\ Row(S, thread.settled).status = "scheduled"

\* The event settled, kept; or a choice they made before.
Keep(r) ==
  LET next == Said.says.next
      remembered == Remembered(S, thread.held, r.answer.list)
  IN  CASE AsksOtherDate -> Result(Resolved(thread.settled), r.near, FALSE)
        [] ~AsksOtherDate /\ enq.bound = NoEvent /\ ~(Q.cheapest /\ r.answer.kind = "ambiguous")
             /\ KeepSettled(S, thread.settled, r.answer, Said.brief, Q, r.own /\ ~next) ->
             Result(Resolved(thread.settled), r.near, r.own)
        [] OTHER -> IF remembered # NoEvent /\ ~Q.cheapest
                    THEN Result(Resolved(remembered), r.near, FALSE) ELSE r

\* How many is asked, twice; then it is two, unless what they said was unclear.
CountOpen ==
  \/ X.count = "few"
  \/ X.count = NoOne /\ ~(request = "needs_clarification" /\ thread.counts >= MaxAsked)

\* Rounds of questions in a row: they start again whenever a reply fills what was asked.
QuestionRound(open) ==
  1 + IF request # "needs_clarification" \/ thread.open = {} \/ thread.open \ open # {} THEN 0
      ELSE thread.rounds

\* What a question offers them to choose from.
Offered(r) ==
  CASE r.near # <<>> -> Ids(r.near)
    [] r.near = <<>> /\ r.answer.kind = "no_match" ->
         IF r.answer.reason = "constraint_conflict" THEN <<>> ELSE Ids(NearestDates(S, X))
    [] r.answer.kind = "ambiguous" -> r.answer.list
    [] OTHER -> <<r.answer.event>>

Settles(id) ==
  IF thread.held # <<>> /\ thread.held[1] = id THEN thread.held
  ELSE <<id>> \o SelectSeq(thread.held, LAMBDA h : h # id)

\* Their request goes on: to the customer with a question, to a person when too many went
\* unanswered, else to research or where the event is sold.
GoOn(r, open) ==
  LET id == r.answer.event
      round == QuestionRound(open)
      list == Offered(r)
      asks == open # {} /\ round <= MaxRounds
  IN  /\ request' = CASE open = {} -> scene.route
                      [] open # {} /\ round > MaxRounds -> "manual_attention"
                      [] OTHER -> "needs_clarification"
      /\ thread' = [thread EXCEPT
           !.settled = id, !.held = IF id = NoEvent THEN @ ELSE Settles(id),
           !.offered = IF asks /\ list # <<>> THEN list ELSE @,
           !.offeredAt = IF asks /\ list # <<>> THEN Revision ELSE @,
           !.shown = IF asks THEN list ELSE <<>>, !.ranked = IF asks THEN "none" ELSE @,
           !.open = open, !.rounds = IF open = {} THEN @ ELSE round,
           !.counts = IF "count" \in open THEN @ + 1 ELSE 0,
           !.brief.date = IF AsksOtherDate THEN Row(S, thread.settled).day ELSE @,
           !.brief.expr = IF AsksOtherDate THEN NoPhrase ELSE @,
           !.outcome = r.answer.reason]

\* Asked for the cheapest of several, they get five ranked on the prices on file or read
\* just now; with none of them, all in the order of their dates.
Priced(list, fetched) ==
  {i \in DOMAIN list : list[i].id \in DOMAIN scene.prices /\ (fetched \/ list[i].id \in scene.onFile)}
Ranking(list, fetched) ==
  LET cents(e) == scene.prices[e.id]
      cheaper(e, f) == cents(e) < cents(f) \/ (cents(e) = cents(f) /\ Sooner(e, f))
      all(S0) == {list[i] : i \in S0}
  IN  IF Priced(list, fetched) # {} THEN Cut(Sorted(all(Priced(list, fetched)), cheaper), 5)
      ELSE Sorted(all(DOMAIN list), Sooner)
CompareGames(list) ==
  \E fetched \in BOOLEAN :
    /\ request' = "needs_clarification"
    /\ thread' = [thread EXCEPT
         !.settled = NoEvent, !.offered = Ids(Ranking(list, fetched)), !.offeredAt = Revision,
         !.shown = Ids(Ranking(list, fetched)), !.open = {"event"}, !.outcome = "none",
         !.counts = 0, !.ranked = IF Priced(list, fetched) # {} THEN "price" ELSE "date"]
Comparable(ids) ==
  SelectSeq(EventRows(S, ids), LAMBDA e : e.status = "scheduled" /\ Start(e) > world.now)

End(state, reason) ==
  /\ request' = state
  /\ thread' = [thread EXCEPT !.settled = NoEvent, !.shown = <<>>, !.outcome = reason]

\* Outside the country is not served; found only on the web is told so; the rest goes on.
Settle ==
  /\ enq.stage = "settle"
  /\ \E found \in {PickFromList(TakeSole(Result(enq.answer, enq.near, enq.answer.other = NoEvent)))} :
     \E r \in {Keep(found)} :
       CASE found.answer.kind = "ambiguous" /\ Q.cheapest /\ ~AsksOtherDate
              /\ Len(Comparable(found.answer.list)) >= 2 ->
              CompareGames(Comparable(found.answer.list))
         [] r.answer.kind = "non_us" -> End("unsupported", "none")
         [] Missed(r.answer) /\ r.answer.reason # "constraint_conflict" /\ r.near = <<>>
              /\ scene.web -> End("referred", r.answer.reason)
         [] OTHER -> GoOn(r, (IF r.answer.kind = "resolved" THEN {} ELSE {"event"})
                               \cup IF CountOpen THEN {"count"} ELSE {})
  /\ enq' = Blank
  /\ UNCHANGED <<scene, world, calls, spare>>

-----------------------------------------------------------------------------
(* The others.                                                             *)

Others(step) == /\ spare > 0 /\ request \in {"unsettled", "needs_clarification"}
                /\ spare' = spare - 1 /\ step

\* Another customer's search of the same catalog.
OthersSearch ==
  /\ calls["theirs"].stage \in {"idle", "done"} /\ scene.other # NoOne
  /\ Ask("theirs", [keyword |-> scene.other, place |-> Everywhere, from |-> 24 * Today(S),
                    to |-> 24 * (Today(S) + scene.ahead) + 23], FALSE)
  /\ UNCHANGED world

\* An event is called off, and the catalog learns it.
CallOff ==
  /\ \E e \in world.catalog :
       /\ e.status = "scheduled" /\ e.id \in scene.perishable
       /\ world' = [world EXCEPT
            !.catalog = (@ \ {e}) \cup {[e EXCEPT !.status = "cancelled"]},
            !.listed = {IF d.id = e.id THEN [d EXCEPT !.code = "cancelled"] ELSE d : d \in @}]
  /\ UNCHANGED calls

\* The provider lists what it did not.
GoesOnSale ==
  /\ ~scene.later \subseteq world.listed
  /\ world' = [world EXCEPT !.listed = @ \cup scene.later]
  /\ UNCHANGED calls

\* Hours pass between their messages.
Later ==
  /\ enq.stage = "idle" /\ scene.step > 0
  /\ world' = [world EXCEPT !.now = @ + scene.step]
  /\ UNCHANGED calls

OthersStep ==
  /\ Others(OthersSearch \/ CallOff \/ GoesOnSale \/ Later)
  /\ UNCHANGED <<scene, enq, thread, request>>

-----------------------------------------------------------------------------
Interpret ==
  \/ LookUp("ours") \/ Call("ours")
  \/ ReadCatalog \/ ReadAgain \/ ReadForced \/ ReadElsewhere \/ Settle
TheirSearch == LookUp("theirs") \/ Call("theirs")

RNext == Receive \/ Interpret \/ TheirSearch \/ OthersStep

\* An interpretation goes on exactly while this holds.
Interpreting == enq.stage # "idle"

-----------------------------------------------------------------------------
(* What it promises.                                                       *)

RTypeOK ==
  /\ enq.stage \in {"idle", "local", "asking", "forcing", "afar", "settle"}
  /\ enq.stage \in {"asking", "forcing", "afar"} <=> calls["ours"].stage # "idle"
  /\ \A c \in Callers : calls[c].stage \in {"idle", "look", "call", "done"}
  /\ \A e, f \in world.catalog : e.id = f.id => e = f
  /\ thread.read \in 0 .. Len(scene.script) /\ thread.rounds \in 0 .. MaxRounds + 1
  /\ thread.open \subseteq {"event", "count"} /\ thread.offeredAt \in 0 .. thread.read
  /\ request = "needs_clarification" /\ enq.stage = "idle" => thread.open # {}
  /\ spare \in 0 .. scene.changes

\* An event picked by its place in a list is one the last email showed them, and is at that place
\* if nothing up to it has been called off since: the code counts what is left, so a call-off
\* further up shifts the places (offeredRows, offeredChoice).
PickIsWhatWasShown ==
  thread.picked # 0 /\ enq.stage = "local" =>
    /\ enq.bound \in {thread.shown[i] : i \in DOMAIN thread.shown}
    /\ (\A i \in 1 .. thread.picked : Row(S, thread.shown[i]).status = "scheduled") =>
         thread.shown[thread.picked] = enq.bound

\* Types, and what a reply picks.
ChoiceInv == RTypeOK /\ PickIsWhatWasShown

\* What their messages rule out, each kind of rule as the last message that states it says.
LastOf(states(_)) ==
  LET those == {i \in 1 .. thread.read : states(scene.script[i].says)}
  IN  IF those = {} THEN Silent ELSE scene.script[Max(those)].says
RuledOut(e) ==
  LET out == LastOf(LAMBDA m : m.out # {})
      days == LastOf(LAMBDA m : m.weekend # "none" \/ m.days # {} \/ m.span.kind = "next_weekday")
      notDays == LastOf(LAMBDA m : m.notDays # {})
      hours == LastOf(LAMBDA m : {m.after, m.before, m.exact} # {NoHour})
      span == LastOf(LAMBDA m : m.dated \/ WindowIn(m, Today(S)) # NoSpan)
  IN  \/ e.venue \in out.out
      \/ Weekday(e.day) \in notDays.notDays
      \/ days.days # {} /\ days.weekend = "none" /\ Weekday(e.day) \notin days.days
      \/ hours.before # NoHour /\ e.hour >= hours.before
      \/ hours.after # NoHour /\ e.hour < hours.after
      \/ ~span.dated /\ WindowIn(span, Today(S)) # NoSpan /\ ~Within(e.day, WindowIn(span, Today(S)))
      \/ /\ \E i \in 1 .. thread.read : scene.script[i].says.home
         /\ scene.acts[e.act].team /\ scene.acts[e.act].market # NoOne
         /\ scene.acts[e.act].home # e.venue
         /\ scene.venues[e.venue].market # scene.acts[e.act].market

\* The event that the search of a message settles breaks none of the rules their messages
\* came to, and is one still to come, here: the catalog as it is then (breaks, eventConstraints,
\* keepSettledEvent).
SettledKeepsTheRules ==
  [][enq.stage = "settle" /\ thread'.settled # NoEvent /\ ~AsksOtherDate
       /\ enq.bound = NoEvent /\ enq.answer.other = NoEvent
       /\ thread'.settled \in {enq.answer.event, thread.settled} =>
         LET e == Row(S, thread'.settled)
         IN  /\ scene.venues[e.venue].us
             /\ ~RuledOut(e)]_<<scene, world, calls, enq, thread, spare, request>>

\* Told that nothing is on, they are told so by the provider: of a search like theirs, made
\* this message or in the hours before, that could show all there is in their dates, or that
\* asked for it just now.  And no day has more searches than are allowed, but for those that
\* were under way when the last was counted (recentlySynced, syncFromDiscovery).
SearchIsHonest ==
  /\ enq.stage = "settle" /\ enq.answer.reason = "discovery_no_results" =>
       \E r \in world.syncs :
         \E asked \in {SearchFor(X, PlaceOf(X), 90)} :
             /\ r.status = "success" /\ r.keyword = asked.keyword /\ r.place = asked.place
             /\ r.from <= asked.from /\ world.now - r.at <= FreshFor
             /\ \/ r.by = "ours" /\ r.at = world.now
                \/ Cardinality(Hits(world.listed, [asked EXCEPT !.from = r.from], scene.acts,
                                    scene.venues)) <= PageSize
  /\ \A r \in world.syncs :
       Cardinality({p \in world.syncs : /\ p.at \div 24 = r.at \div 24
                                        /\ p.status \in {"success", "failed"}})
         <= DailyLimit + Cardinality(Callers) - 1
=============================================================================
