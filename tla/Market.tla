-------------------------------- MODULE Market --------------------------------
(***************************************************************************)
(* The market tracker (lib/market/tracker.ts): one followed game, its paid *)
(* reads and the price series built from them.                             *)
(*                                                                         *)
(* The hourly pass and a customer's research each read the game's row,     *)
(* match it to the supplier's id, poll its statistics and read past games, *)
(* each with its own client; a price watch reads the listings beside them, *)
(* in the pass's lane.  What a client may still call is read from          *)
(* market_fetches before an operation and counted there after it, so two   *)
(* can spend the same call; the background's share of the day must hold    *)
(* for each of them all the same, and every call be counted once, whatever *)
(* fails.  A poll asks only for what is newer than the last snapshot held: *)
(* one that is passed over is lost for good.                               *)
(***************************************************************************)
EXTENDS Naturals, FiniteSets, FiniteSetsExt

CONSTANTS
  Worker,       \* who reads: the hourly pass, price watches, customers' requests
  Background,   \* those in the background lane: the pass and the watches
  Watch,        \* price watches
  Past,         \* past games of the same team here
  Limit,        \* SEATDATA_DAILY_CALL_LIMIT
  Share,        \* the background's part of it (BACKGROUND_SHARE, at least one call)
  HistoryLimit, \* SEATDATA_HISTORY_CALL_LIMIT
  Tries,        \* attempts the client makes of one call (3 in the code)
  MaxMatches,   \* MAX_MATCH_ATTEMPTS
  MaxSnapshots, \* bound: snapshots the supplier publishes
  MaxActs       \* bound: crashes, snapshots published later, requests opened or closed,
                \* licence changes, polls fallen due, days

ASSUME MarketAssumption ==
  /\ IsFiniteSet(Worker) /\ Background \subseteq Worker /\ Watch \subseteq Background
  /\ Limit \in Nat /\ Share \in Nat \ {0} /\ HistoryLimit \in Nat
  /\ Tries \in Nat \ {0} /\ MaxMatches \in Nat \ {0}
  /\ MaxSnapshots \in Nat /\ MaxActs \in Nat

VARIABLES
  tracked,     \* the tracked_events row: state, supplier's id, last snapshot, match attempts, due
  held,        \* market_snapshots: snapshots stored
  history,     \* market_history: past games stored
  searches,    \* history_search rows: by worker, the status of its last one
  rows,        \* calls market_fetches counts today: by lane
  world,       \* snapshots published; licence for tracking; an open request; the game began
  work,        \* each worker: where, the row as it read it, calls no row counts, room, ...
  spent,       \* history: calls made today, by lane
  made,        \* history: calls made today by each background worker
  lost,        \* history: those of clients that died before they counted them, by lane
  unused,      \* history: reserved calls that a crash left unmade, by lane
  purged,      \* history: snapshots the licence had deleted
  cutOff,      \* history: snapshots that an answer cut at its last page passed over
  leftOut,     \* history: past games whose read failed, could not be placed, was deleted
  orphaned,    \* history: past games whose back-fill died after its search was written
  acts

lossVars == <<lost, unused>>
goneVars == <<purged, cutOff, leftOut, orphaned>>
pastVars == <<spent, made, lossVars, goneVars, acts>>
vars == <<tracked, held, history, searches, rows, world, work, pastVars>>

Lanes == {"customer", "background", "history"}
Lane(w) == IF w \in Background THEN "background" ELSE "customer"
Statuses == {"none", "success", "partial"}
Live == {"pending_match", "requested", "active"}
States == Live \cup {"absent", "paused", "unmatched", "ended"}

Labels ==
  {"idle", "enroll", "due", "route", "match", "ask", "found", "poll", "prompt", "stats",
   "store", "mark", "count", "past", "games", "groups", "listings", "reading", "finish", "threw"}

Rows == [state : States, id : BOOLEAN, last : 0 .. MaxSnapshots,
         tries : 0 .. MaxMatches, due : BOOLEAN]
Clients == [pc : Labels, seen : Rows, uncounted : Nat, room : Nat,
            got : SUBSET (1 .. MaxSnapshots), left : SUBSET Past]

TypeOK ==
  /\ tracked \in Rows
  /\ held \subseteq 1 .. MaxSnapshots /\ purged \cup cutOff \subseteq 1 .. MaxSnapshots
  /\ history \cup leftOut \cup orphaned \subseteq Past /\ searches \in [Worker -> Statuses]
  /\ rows \in [Lanes -> Nat] /\ spent \in [Lanes -> Nat] /\ made \in [Background -> Nat]
  /\ lost \in [Lanes -> Nat] /\ unused \in [Lanes -> Nat]
  /\ world \in [published : 0 .. MaxSnapshots, licence : BOOLEAN, open : BOOLEAN, began : BOOLEAN]
  /\ work \in [Worker -> Clients]
  /\ acts \in 0 .. MaxActs

Untracked == [state |-> "absent", id |-> FALSE, last |-> 0, tries |-> 0, due |-> TRUE]
AtRest ==
  [pc |-> "idle", seen |-> Untracked, uncounted |-> 0, room |-> 0, got |-> {}, left |-> {}]
NoCalls == [l \in Lanes |-> 0]

Init ==
  /\ tracked = Untracked /\ held = {} /\ history = {}
  /\ searches = [w \in Worker |-> "none"] /\ rows = NoCalls
  /\ world \in [published : 0 .. MaxSnapshots, licence : {TRUE}, open : BOOLEAN, began : {FALSE}]
  /\ work = [w \in Worker |-> AtRest]
  /\ spent = NoCalls /\ made = [w \in Background |-> 0] /\ lost = NoCalls /\ unused = NoCalls
  /\ purged = {} /\ cutOff = {} /\ leftOut = {} /\ orphaned = {} /\ acts = 0

-----------------------------------------------------------------------------
(* The client and the day's allowance *)

Minus(a, b) == IF a > b THEN a - b ELSE 0
AtMost(a, b) == IF a < b THEN a ELSE b

\* callsLeft: a customer's read has the day, the background its share of it, past games
\* their own.
CallsLeft(lane) ==
  LET day == Minus(Limit, rows["customer"] + rows["background"]) IN
    CASE lane = "history" -> Minus(HistoryLimit, rows["history"])
      [] lane = "customer" -> day
      [] lane = "background" -> AtMost(day, Minus(Share, rows["background"]))

At(w, label) == work[w].pc = label
Goto(w, label) == work' = [work EXCEPT ![w].pc = label]
\* Done with the row, or with the games: nothing read is used any more.
Leave(w, label) == work' = [work EXCEPT ![w] = [AtRest EXCEPT !.pc = label]]

\* n calls are made: history.
Spend(w, lane, n) ==
  /\ spent' = [spent EXCEPT ![lane] = @ + n]
  /\ made' = IF lane = "background" THEN [made EXCEPT ![w] = @ + n] ELSE made

\* api, then one request of it: as many attempts as it takes and the cap allows.
\* The cap is read first: Open.  Calls past n end with an answer or without.
Room(w, lane) == Minus(CallsLeft(lane), work[w].uncounted)

Attempt(w, lane, n, label) ==
  /\ n \in 0 .. AtMost(Tries, work[w].room)
  /\ Spend(w, lane, n)
  /\ work' = [work EXCEPT ![w].pc = label, ![w].room = @ - n, ![w].uncounted = @ + n]

Answered(w, lane, label) == \E n \in 1 .. Tries : Attempt(w, lane, n, label)
\* No answer, or no call at all once the cap is reached.
Refused(w, lane, label) ==
  \E n \in 0 .. Tries : (n = 0 => work[w].room = 0) /\ Attempt(w, lane, n, label)

\* unlogged: the calls a client made that no row counts, and those of a lane's clients.
CallsOf(w) == {w} \X (1 .. work[w].uncounted)
InFlight(l) == Cardinality(UNION {CallsOf(w) : w \in {x \in Worker : Lane(x) = l}})

\* The pass goes on; a request that is done with the refresh reads the listings.
After(w, label) == IF w \in Background THEN label ELSE "listings"

\* log: the row counts what the operation called.
Count(w, lane, label) ==
  /\ rows' = [rows EXCEPT ![lane] = @ + work[w].uncounted]
  /\ work' = [work EXCEPT ![w] = [AtRest EXCEPT !.pc = label,
                               !.seen = IF label = "poll" THEN work[w].seen ELSE Untracked]]

-----------------------------------------------------------------------------
(* Enrolment, and what is due *)

\* blocked: nothing runs without the licence.
Begin(w) ==
  /\ At(w, "idle") /\ world.licence
  /\ Goto(w, IF w \in Watch THEN "listings" ELSE "enroll")
  /\ UNCHANGED <<tracked, held, history, searches, rows, world, pastVars>>

\* enroll and refreshEvent: a row for a game an open request asks about.  The pass
\* wakes a paused one.
Enroll(w) ==
  /\ At(w, "enroll")
  /\ tracked' =
       IF ~world.open THEN tracked
       ELSE IF tracked.state = "absent" THEN [tracked EXCEPT !.state = "pending_match"]
       ELSE IF tracked.state = "paused" /\ w \in Background
         THEN [tracked EXCEPT !.state = IF tracked.id THEN "active" ELSE "pending_match",
                              !.due = TRUE]
       ELSE tracked
  /\ Goto(w, IF world.open THEN "due" ELSE After(w, "due"))
  /\ UNCHANGED <<held, history, searches, rows, world, pastVars>>

\* The row is read once and used to the end.  Nothing left: said so, and no read.  A
\* request whose stored price is too old polls a matched game before its time; one that
\* finds it fresh may read the listings for its groups of three or more.
ReadRow(w) ==
  LET matched == tracked.state = "active" /\ tracked.id
      asked == w \notin Background /\ matched
      may == tracked.state \in Live /\ CallsLeft(Lane(w)) > 0
  IN
    /\ At(w, "due")
    /\ \/ may /\ (tracked.due \/ asked)
          /\ work' = [work EXCEPT ![w].pc = "route", ![w].seen = tracked]
       \/ may /\ ~tracked.due /\ asked /\ ~world.began
          /\ work' = [work EXCEPT ![w].pc = "groups", ![w].room = Room(w, Lane(w))]
       \/ ~(may /\ tracked.due) /\ Leave(w, After(w, "past"))
    /\ UNCHANGED <<tracked, held, history, searches, rows, world, pastVars>>

\* refreshEvent, readGroups: its own calls are counted with it, and it fails alone.
ReadGroups(w) ==
  /\ At(w, "groups")
  /\ \E n \in 0 .. AtMost(Tries, work[w].room) :
       /\ Spend(w, Lane(w), n)
       /\ rows' = [rows EXCEPT ![Lane(w)] = @ + n]
  /\ Leave(w, "listings")
  /\ UNCHANGED <<tracked, held, history, searches, world, lossVars, goneVars, acts>>

\* The pass pauses a row whose reasons no longer hold, before any call; a game that has
\* started ends.
Route(w) ==
  /\ At(w, "route")
  /\ \/ /\ w \in Background /\ ~world.open
        /\ tracked' = [tracked EXCEPT !.state = "paused"] /\ Leave(w, "past")
     \/ /\ world.began /\ (w \in Background => world.open)
        /\ tracked' = IF w \in Background THEN [tracked EXCEPT !.state = "ended"] ELSE tracked
        /\ Leave(w, After(w, "past"))
     \/ /\ ~world.began /\ (w \in Background => world.open)
        /\ UNCHANGED tracked
        /\ LET s == work[w].seen IN
             work' = [work EXCEPT ![w].pc = IF s.state = "active" /\ s.id THEN "poll" ELSE "match",
                                  ![w].room = Room(w, Lane(w))]
  /\ UNCHANGED <<held, history, searches, rows, world, pastVars>>

-----------------------------------------------------------------------------
(* match *)

\* Found by its id or by name, date and city.
Search(w) ==
  /\ At(w, "match")
  /\ \/ Answered(w, Lane(w), "found")
     \/ Answered(w, Lane(w), "ask")
     \/ Refused(w, Lane(w), "threw")
  /\ UNCHANGED <<tracked, held, history, searches, rows, world, lossVars, goneVars, acts>>

\* The row is written from what was read before the search.
Found(w) ==
  /\ At(w, "found")
  /\ tracked' = [tracked EXCEPT !.id = TRUE, !.state = "active",
                                !.tries = AtMost(work[w].seen.tries + 1, MaxMatches)]
  /\ Count(w, Lane(w), "poll")
  /\ UNCHANGED <<held, history, searches, world, pastVars>>

\* Not found: the supplier is asked for it once, never retried; after MaxMatches the
\* game is left alone.
NotFound(w) ==
  /\ At(w, "ask")
  /\ LET tries == AtMost(work[w].seen.tries + 1, MaxMatches)
         next == After(w, "past")
     IN
       \/ /\ work[w].seen.tries = 0 /\ work[w].room > 0
          /\ tracked' = [tracked EXCEPT !.state = "requested", !.tries = tries, !.due = FALSE]
          /\ rows' = [rows EXCEPT ![Lane(w)] = @ + work[w].uncounted + 1]
          /\ Spend(w, Lane(w), 1)
          /\ Leave(w, next)
       \/ /\ work[w].seen.tries = 0
          /\ UNCHANGED <<tracked, rows>>
          /\ LET n == AtMost(1, work[w].room) IN
               Attempt(w, Lane(w), n, "threw")
       \/ /\ work[w].seen.tries > 0
          /\ tracked' = [tracked EXCEPT
               !.state = IF tries = MaxMatches THEN "unmatched" ELSE work[w].seen.state,
               !.tries = tries, !.due = FALSE]
          /\ Count(w, Lane(w), next) /\ UNCHANGED <<spent, made>>
  /\ UNCHANGED <<held, history, searches, world, lossVars, goneVars, acts>>

-----------------------------------------------------------------------------
(* poll *)

\* The cap is read again before the rescan prompt and the statistics.
OpenPoll(w) ==
  /\ At(w, "poll")
  /\ work' = [work EXCEPT ![w].pc = "prompt", ![w].room = Room(w, Lane(w))]
  /\ UNCHANGED <<tracked, held, history, searches, rows, world, pastVars>>

\* The group listings or the sales call: prompts a rescan, counts its own calls and
\* fails alone.  Not needed when one went in the last twenty hours.
Prompt(w) ==
  /\ At(w, "prompt")
  /\ \/ Goto(w, "stats") /\ UNCHANGED <<rows, spent, made>>
     \/ \E n \in 0 .. AtMost(Tries, work[w].room) :
          /\ Spend(w, Lane(w), n)
          /\ rows' = [rows EXCEPT ![Lane(w)] = @ + n]
          /\ work' = [work EXCEPT ![w].pc = "stats", ![w].room = @ - n]
  /\ UNCHANGED <<tracked, held, history, searches, world, lossVars, goneVars, acts>>

\* What the supplier dated after the last snapshot of the row as it was read.  The client
\* stops after five pages, whatever is left, and nobody asks whether it did; in what
\* order the supplier pages is not known, so a cut answer is any part.
Stats(w) ==
  LET newer == (work[w].seen.last + 1) .. world.published IN
    /\ At(w, "stats")
    /\ \/ /\ \E n \in 1 .. AtMost(Tries, work[w].room), got \in SUBSET newer :
               /\ got = {} => newer = {}
               /\ Spend(w, Lane(w), n)
               /\ work' = [work EXCEPT ![w].pc = "store", ![w].room = @ - n,
                                       ![w].uncounted = @ + n, ![w].got = got]
               /\ cutOff' = cutOff \cup {s \in newer \ got : \E later \in got : s < later}
       \/ Refused(w, Lane(w), "threw") /\ UNCHANGED cutOff
    /\ UNCHANGED <<tracked, held, history, searches, rows, world, lossVars, purged, leftOut,
                   orphaned, acts>>

\* storeSeriesPoints: one row for each basket and time.
Store(w) ==
  /\ At(w, "store")
  /\ held' = held \cup work[w].got
  /\ Goto(w, "mark")
  /\ UNCHANGED <<tracked, history, searches, rows, world, pastVars>>

\* Faulty variant of Poll: the row remembers the poll before what it found is stored.
FaultyPoll(w) ==
  \/ /\ At(w, "store")
     /\ tracked' = [tracked EXCEPT !.last = Max(work[w].got \cup {work[w].seen.last}), !.due = FALSE]
     /\ Goto(w, "mark")
     /\ UNCHANGED <<held, history, searches, rows, world, pastVars>>
  \/ /\ At(w, "mark")
     /\ held' = held \cup work[w].got
     /\ Goto(w, "count")
     /\ UNCHANGED <<tracked, history, searches, rows, world, pastVars>>

Mark(w) ==
  /\ At(w, "mark")
  /\ tracked' = [tracked EXCEPT !.last = Max(work[w].got \cup {work[w].seen.last}), !.due = FALSE]
  /\ Goto(w, "count")
  /\ UNCHANGED <<held, history, searches, rows, world, pastVars>>

Poll(w) == Store(w) \/ Mark(w)

CountPoll(w) ==
  /\ At(w, "count")
  /\ Count(w, Lane(w), "past")
  /\ UNCHANGED <<tracked, held, history, searches, world, pastVars>>

\* Faulty variant of Threw: a failure counts as one call, whatever it spent.
FaultyThrew(w) ==
  /\ At(w, "threw")
  /\ tracked' = IF w \in Background THEN [tracked EXCEPT !.due = FALSE] ELSE tracked
  /\ rows' = [rows EXCEPT ![Lane(w)] = @ + 1]
  /\ Leave(w, After(w, "past"))
  /\ UNCHANGED <<held, history, searches, world, pastVars>>

\* The pass, and refreshEvent, catch it: the row waits an hour, every call is counted.
Threw(w) ==
  /\ At(w, "threw")
  /\ tracked' = IF w \in Background THEN [tracked EXCEPT !.due = FALSE] ELSE tracked
  /\ Count(w, Lane(w), After(w, "past"))
  /\ UNCHANGED <<held, history, searches, world, pastVars>>

-----------------------------------------------------------------------------
(* backfillHistory *)

\* Once a month, when there is room for the search and one game.
MaySearch(w) ==
  /\ \A x \in Worker : searches[x] # "success"
  /\ Room(w, "history") >= 2 /\ tracked.state \in Live

SearchPast(w) ==
  /\ At(w, "past")
  /\ LET after == After(w, "idle") IN
       \/ /\ ~MaySearch(w)
          /\ Goto(w, after)
          /\ UNCHANGED <<searches, rows, spent, made>>
       \/ /\ MaySearch(w)
          /\ \E n \in 1 .. AtMost(Tries, Room(w, "history")), ok \in BOOLEAN :
               /\ Spend(w, "history", n)
               /\ rows' = [rows EXCEPT !["history"] = @ + n]
               /\ work' = [work EXCEPT ![w] =
                    IF ok THEN [AtRest EXCEPT !.pc = "games", !.left = Past \ history]
                          ELSE [AtRest EXCEPT !.pc = after]]
               /\ searches' = IF ok THEN [searches EXCEPT ![w] = "success"] ELSE searches
  /\ UNCHANGED <<tracked, held, history, world, lossVars, goneVars, acts>>

Missing(w) == work[w].left \ history

\* The allowance ends it: the rest is read on a later refresh.
CutShort(w) ==
  /\ At(w, "games") /\ Missing(w) # {}
  /\ Room(w, "history") = 0
  /\ searches' = [searches EXCEPT ![w] = "partial"]
  /\ Leave(w, After(w, "idle"))
  /\ UNCHANGED <<tracked, held, history, rows, world, pastVars>>

\* Every game it listed is stored or left out.
EndPast(w) ==
  /\ At(w, "games") /\ Missing(w) = {}
  /\ Leave(w, After(w, "idle"))
  /\ UNCHANGED <<tracked, held, history, searches, rows, world, pastVars>>

\* Each game is read and counted by itself.  One that fails is left out, and so, without
\* a call, is one whose start cannot be placed; one that the cap stops in its middle ends
\* the back-fill as CutShort does.
ReadPast(w) ==
  /\ At(w, "games")
  /\ \E g \in Missing(w) :
       \/ /\ leftOut' = leftOut \cup {g}
          /\ work' = [work EXCEPT ![w].left = @ \ {g}]
          /\ UNCHANGED <<history, searches, rows, spent, made>>
       \/ \E n \in 1 .. AtMost(Tries, Room(w, "history")) :
            /\ Spend(w, "history", n)
            /\ rows' = [rows EXCEPT !["history"] = @ + n]
            /\ \/ /\ history' = history \cup {g}
                  /\ work' = [work EXCEPT ![w].left = @ \ {g}]
                  /\ UNCHANGED <<searches, leftOut>>
               \/ /\ leftOut' = leftOut \cup {g}
                  /\ work' = [work EXCEPT ![w].left = @ \ {g}]
                  /\ UNCHANGED <<searches, history>>
               \/ /\ n = Room(w, "history")
                  /\ searches' = [searches EXCEPT ![w] = "partial"]
                  /\ Leave(w, After(w, "idle"))
                  /\ UNCHANGED <<history, leftOut>>
  /\ UNCHANGED <<tracked, held, world, lossVars, purged, cutOff, orphaned, acts>>

-----------------------------------------------------------------------------
(* currentListings: the call is taken before it is made *)

LiveRows == rows["customer"] + rows["background"]

\* What the day, and for the background its share, leave to reserve.
ToReserve(w) ==
  IF w \in Background THEN AtMost(Minus(Limit, LiveRows), Minus(Share, rows["background"]))
                      ELSE Minus(Limit, LiveRows)

\* One statement checks the day and the share and writes the row.  A request may be
\* served by a read of the last ten minutes; a watch never is.
Reserve(w) ==
  /\ At(w, "listings")
  /\ \/ /\ world.licence /\ tracked.state = "active" /\ tracked.id /\ ToReserve(w) > 0
        /\ rows' = [rows EXCEPT ![Lane(w)] = @ + 1]
        /\ work' = [work EXCEPT ![w].pc = "reading", ![w].room = ToReserve(w)]
     \/ /\ \/ w \notin Watch
           \/ ~(world.licence /\ tracked.state = "active" /\ tracked.id /\ ToReserve(w) > 0)
        /\ UNCHANGED rows /\ Leave(w, "idle")
  /\ UNCHANGED <<tracked, held, history, searches, world, pastVars>>

ReadListings(w) ==
  /\ At(w, "reading")
  /\ \E n \in 1 .. AtMost(Tries, work[w].room) :
       /\ Spend(w, Lane(w), n)
       /\ work' = [work EXCEPT ![w].pc = "finish", ![w].room = 0, ![w].uncounted = @ + n - 1]
  /\ UNCHANGED <<tracked, held, history, searches, rows, world, lossVars, goneVars, acts>>

Finish(w) ==
  /\ At(w, "finish")
  /\ Count(w, Lane(w), "idle")
  /\ UNCHANGED <<tracked, held, history, searches, world, pastVars>>

-----------------------------------------------------------------------------
(* Crashes, and the world *)

\* The bound on what nobody has to do.
Act == acts < MaxActs /\ acts' = acts + 1

\* The calls a client may be in the middle of, at a step that counts its own.
UnderWay(w) ==
  CASE work[w].pc \in {"prompt", "groups"} -> 0 .. AtMost(Tries, work[w].room)
    [] (At(w, "past") /\ MaySearch(w)) \/ (At(w, "games") /\ Missing(w) # {}) ->
         0 .. AtMost(Tries, Room(w, "history"))
    [] OTHER -> {0}

\* The calls of its client that no row counts are never counted; a reservation stays.
Crash(w) ==
  LET lane == IF work[w].pc \in {"past", "games"} THEN "history" ELSE Lane(w) IN
    /\ Act
    /\ ~At(w, "idle")
    /\ \E n \in UnderWay(w) :
         /\ Spend(w, lane, n)
         /\ lost' = [lost EXCEPT ![lane] = @ + work[w].uncounted + n]
    /\ unused' = [unused EXCEPT ![lane] = @ + IF At(w, "reading") THEN 1 ELSE 0]
    /\ orphaned' = orphaned \cup Missing(w)
    /\ work' = [work EXCEPT ![w] = AtRest]
    /\ UNCHANGED <<tracked, held, history, searches, rows, world, purged, cutOff, leftOut>>

Publish ==
  /\ Act
  /\ world.published < MaxSnapshots
  /\ world' = [world EXCEPT !.published = @ + 1]
  /\ UNCHANGED <<tracked, held, history, searches, rows, work, spent, made, lossVars, goneVars>>

\* A request is opened or closed; staff approve or revoke the licence; the game begins.
WorldChanges ==
  /\ Act
  /\ \/ world' = [world EXCEPT !.open = ~@]
     \/ world' = [world EXCEPT !.licence = ~@]
     \/ world' = [world EXCEPT !.began = TRUE]
  /\ UNCHANGED <<tracked, held, history, searches, rows, work, spent, made, lossVars, goneVars>>

FallsDue ==
  /\ Act
  /\ tracked' = [tracked EXCEPT !.due = TRUE]
  /\ UNCHANGED <<held, history, searches, rows, world, work, spent, made, lossVars, goneVars>>

\* A row counts for the day it is written on, whenever its calls were made; a reserved
\* read is the day's it was reserved on, and ends with it here.
NewDay ==
  /\ Act
  /\ rows' = NoCalls /\ lost' = NoCalls /\ unused' = NoCalls
  /\ work' = [w \in Worker |-> IF work[w].pc \in {"reading", "finish"} THEN AtRest ELSE work[w]]
  /\ spent' = [l \in Lanes |-> InFlight(l)']
  /\ made' = [w \in Background |-> work'[w].uncounted]
  /\ UNCHANGED <<tracked, held, history, searches, world, goneVars>>

\* purgeExpiredMarketData: what the licence no longer lets us keep.
Purge ==
  /\ ~world.licence /\ held \cup history # {}
  /\ held' = {} /\ history' = {}
  /\ purged' = purged \cup held /\ leftOut' = leftOut \cup history
  /\ UNCHANGED <<tracked, searches, rows, world, work, spent, made, lossVars, cutOff, orphaned, acts>>

Next ==
  \/ \E w \in Worker :
       \/ Begin(w) \/ Enroll(w) \/ ReadRow(w) \/ ReadGroups(w) \/ Route(w)
       \/ Search(w) \/ Found(w) \/ NotFound(w)
       \/ OpenPoll(w) \/ Prompt(w) \/ Stats(w) \/ Poll(w) \/ CountPoll(w) \/ Threw(w)
       \/ SearchPast(w) \/ CutShort(w) \/ ReadPast(w) \/ EndPast(w)
       \/ Reserve(w) \/ ReadListings(w) \/ Finish(w)
       \/ Crash(w)
  \/ Publish \/ WorldChanges \/ FallsDue \/ NewDay \/ Purge

Spec == Init /\ [][Next]_vars

-----------------------------------------------------------------------------
(* Properties *)

Reserved(l) == Cardinality({w \in Worker : Lane(w) = l /\ At(w, "reading")})

\* Every call, retries and failures included, is counted once: what is not in a row is in
\* the client's own count, or died with it; a reservation is ahead of its call by one, for
\* good if it died before it.  (log, finish, unlogged, the catch of run and refreshEvent:
\* audit gap 34.)
CallsCountOnce ==
  \A l \in Lanes :
    rows[l] + InFlight(l) + lost[l] = spent[l] + Reserved(l) + unused[l]

\* The hourly pass and a price watch each never call more than the background's share of
\* the day, whatever requests and each other spend beside them, but for calls that no row
\* counts because their client died.  (Two at once may together: each read what was left
\* before the other counted.)  (api, callsLeft, reserve: BACKGROUND_SHARE.)
BackgroundKeepsToItsShare ==
  \A w \in Background : made[w] <= Share + lost["background"]

\* Of the supplier's allowance: each call counts once, background work keeps to its share
\* of it, and the types.
AllowanceInv == TypeOK /\ CallsCountOnce /\ BackgroundKeepsToItsShare

\* The row never remembers a snapshot later than one that is not held, as the next poll
\* would not ask for it again - but for one that an answer cut at its last page left out.
\* (poll: storeSeriesPoints before last_observed_at, and both workers writing what they
\* computed from rows read before their calls.)
NoSnapshotIsPassedOver == \A s \in 1 .. tracked.last : s \in held \cup purged \cup cutOff

\* A search that counts as done for the month leaves no game unread because the allowance
\* ended, in its middle or before it.  What it leaves: games that failed by themselves, and
\* those of a back-fill that died, whose search had been written as a success before.
\* (backfillHistory: "the rest is picked up on a later refresh".)
NoGameIsForgotten ==
  \A w \in Worker :
    searches[w] = "success" /\ ~At(w, "games") => Past \subseteq history \cup leftOut \cup orphaned

\* Neither a snapshot of a game nor a game of a club is passed over for good.
NothingIsPassedOver == NoSnapshotIsPassedOver /\ NoGameIsForgotten

=============================================================================
