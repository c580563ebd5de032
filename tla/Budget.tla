-------------------------------- MODULE Budget --------------------------------
(***************************************************************************)
(* The AI budget (lib/ai/budget.ts) and the calls it is kept for (the      *)
(* provider clients of lib/ai, and their callers in lib/intake/            *)
(* pipeline.ts).                                                           *)
(*                                                                         *)
(* A call is reserved at its estimate before it is made and settled at     *)
(* what it used; one that never reached the model is released.  A          *)
(* reservation holds a lock on its request while it reads the request's    *)
(* and the day's totals and writes its row; the day is shared by all       *)
(* requests and no lock covers it, and neither settling nor releasing      *)
(* takes any.  The hard limit and the cap on calls are read for one        *)
(* revision of a request.  Whatever the budget says, the customer's email  *)
(* is read and answered, by the model, without it, or by a person, unless  *)
(* its last attempt fails and the hand-off that follows finds nobody to    *)
(* tell, or fails too.                                                     *)
(*                                                                         *)
(* Every call has the same estimate, Est; the soft limit only marks a      *)
(* reservation, and is left out.                                           *)
(***************************************************************************)
EXTENDS Integers, FiniteSets

CONSTANTS
  Worker,    \* dispatchers at work
  Request,
  Revision,  \* revisions of a request under work
  Est,       \* the estimate of a call
  Actual,    \* what an answered call may have used
  MaxCalls,  \* AI_MAX_CALLS_PER_REVISION
  Hard,      \* the hard limit of a request, read for one revision
  Daily,     \* the day's limit
  Images,    \* screenshots of a message that are read
  MaxTries,  \* attempts of the outbox at one event
  Days,      \* bound: the last day
  MaxWork,   \* bound: events begun
  MaxFaults  \* bound: crashes, requests closed and opened again

ASSUME BudgetAssumption ==
  /\ IsFiniteSet(Worker)
  /\ IsFiniteSet(Request) /\ Request # {} /\ IsFiniteSet(Revision) /\ Revision # {}
  /\ Est \in Nat /\ Actual \subseteq Nat /\ Actual # {}
  /\ MaxCalls \in Nat /\ Hard \in Nat /\ Daily \in Nat
  /\ Images \in Nat \ {0} /\ MaxTries \in Nat \ {0}
  /\ Days \in Nat /\ MaxWork \in Nat /\ MaxFaults \in Nat

VARIABLES
  ledger,  \* usage_ledger: by request and revision and day, its rows added up
  today,
  work,    \* each worker: where, for what, the row it holds, the calls it may still make
  ended,   \* how each worker's last event ended
  over,    \* requests that are closed, answered or given up as unsupported
  made,    \* history: calls on the books that were made, or may have been
  excess,  \* history: what the books took beyond the estimates, by scope and day
  begun, faults

pastVars == <<made, excess, begun, faults>>
vars == <<ledger, today, work, ended, over, pastVars>>

Scope == Request \X Revision
Day == 0 .. Days
\* "extra": the second draft of a reply that repeats our last, and the web search.
Kinds == {"extract", "listing", "draft", "extra", "gate"}
Labels ==
  {"idle", "ask", "day", "insert", "call", "settle", "release", "judge", "record", "handoff"}
\* "none": an event is in hand.  "lapsed": dead, and nobody told as its request was over; "lost": dead, and its hand-off
\* failed or never ran.
Ends == {"unused", "none", "model", "without", "person", "lapsed", "lost"}

NoRows == [open |-> 0, settled |-> 0, spent |-> 0, released |-> 0]

AtRest ==
  [pc |-> "idle", kind |-> "extract", scope |-> CHOOSE s \in Scope : TRUE, day |-> 0,
   left |-> 0, tries |-> 0]

Row == [open : Nat, settled : Nat, spent : Nat, released : Nat]
Job == [pc : Labels, kind : Kinds, scope : Scope, day : Day, left : Nat, tries : 0 .. MaxTries]

TypeOK ==
  /\ ledger \in [Scope -> [Day -> Row]]
  /\ today \in Day
  /\ work \in [Worker -> Job]
  /\ ended \in [Worker -> Ends] /\ over \subseteq Request
  /\ made \in [Scope -> Nat] /\ excess \in [Scope -> [Day -> Nat]]
  /\ begun \in 0 .. MaxWork /\ faults \in 0 .. MaxFaults

Init ==
  /\ ledger = [s \in Scope |-> [d \in Day |-> NoRows]]
  /\ today = 0
  /\ work = [w \in Worker |-> AtRest]
  /\ ended = [w \in Worker |-> "unused"] /\ over = {}
  /\ made = [s \in Scope |-> 0]
  /\ excess = [s \in Scope |-> [d \in Day |-> 0]]
  /\ begun = 0 /\ faults = 0

-----------------------------------------------------------------------------
(* The ledger *)

\* What the values of f add up to, counted unit by unit.
Sum(f) == Cardinality(UNION {{x} \X (1 .. f[x]) : x \in DOMAIN f})

\* SPEND_SQL: a settled row counts what it used, any other its estimate, a released
\* row takes one back.  A difference: what is taken back may have been on another day.
Spend(r) == r.open * Est + r.spent
Refunds(r) == r.released * Est

SpentOn(s) ==
  Sum([d \in Day |-> Spend(ledger[s][d])]) - Sum([d \in Day |-> Refunds(ledger[s][d])])

\* Every call made counts, finished or in flight; a released one does not.
Calls(s) ==
  Sum([d \in Day |-> ledger[s][d].open + ledger[s][d].settled])
    - Sum([d \in Day |-> ledger[s][d].released])

SpentSince(day) ==
  Sum([x \in Scope \X (day .. Days) |-> Spend(ledger[x[1]][x[2]])])
    - Sum([x \in Scope \X (day .. Days) |-> Refunds(ledger[x[1]][x[2]])])

At(w, label) == work[w].pc = label
Goto(w, label) == work' = [work EXCEPT ![w].pc = label]

-----------------------------------------------------------------------------
(* What a caller does when it ends: every kind has its own way out *)

\* The answer gate reserves nothing; a message has its screenshots, a draft two attempts.
First(kind) == IF kind = "gate" THEN "judge" ELSE "ask"
CallsOf(kind) == CASE kind = "listing" -> Images [] kind = "draft" -> 2 [] OTHER -> 1

\* Done with the event, or the next call of it.
End(w, how) ==
  /\ work' = [work EXCEPT ![w] = AtRest] /\ ended' = [ended EXCEPT ![w] = how]
Another(w) ==
  /\ work' = [work EXCEPT ![w].pc = "ask", ![w].left = @ - 1, ![w].day = 0]
  /\ UNCHANGED ended
\* The outbox runs the event again, from its beginning.
Again(w) ==
  /\ work' = [work EXCEPT ![w].tries = IF @ < MaxTries THEN @ + 1 ELSE @,
                          ![w].pc = First(work[w].kind),
                          ![w].left = CallsOf(work[w].kind), ![w].day = 0]
  /\ UNCHANGED ended
\* Thrown to the outbox: tried again, until its last attempt leaves it dead.
Throw(w) ==
  IF work[w].tries + 1 < MaxTries
    THEN Again(w)
    ELSE work' = [work EXCEPT ![w].pc = "handoff", ![w].day = 0] /\ UNCHANGED ended

MoreOrEnd(w, how) == IF work[w].left > 1 THEN Another(w) ELSE End(w, how)

\* Faulty variant of OverBudget: an email the budget cannot pay for waits for it.
FaultyOverBudget(w) == Goto(w, "ask") /\ UNCHANGED ended

\* BudgetExceededError: the rules reader, the evidence-only draft, the first draft, no
\* listing and no search.
OverBudget(w) == End(w, "without")

-----------------------------------------------------------------------------
(* reserveBudget, and the call *)

Reserving == {"day", "insert"}

\* Faulty variant of Locked: each reservation locks only itself.
FaultyLocked(w) == FALSE

\* pg_advisory_xact_lock of the request.
Locked(w) ==
  \E v \in Worker \ {w} :
    work[v].pc \in Reserving /\ work[v].scope[1] = work[w].scope[1]

\* Under the lock: the revision's calls and spend; nothing is written when they are too
\* many.
Reserve(w) ==
  /\ At(w, "ask") /\ ~Locked(w)
  /\ LET s == work[w].scope IN
       IF Calls(s) + 1 > MaxCalls \/ SpentOn(s) + Est > Hard
         THEN OverBudget(w)
         ELSE work' = [work EXCEPT ![w].pc = "day", ![w].day = today] /\ UNCHANGED ended
  /\ UNCHANGED <<ledger, today, over, pastVars>>

\* The day's rows, of every request, as far as they are committed.
DayTotal(w) == SpentSince(work[w].day)

ReadDay(w) ==
  /\ At(w, "day")
  /\ IF DayTotal(w) + Est > Daily
       THEN OverBudget(w)
       ELSE Goto(w, "insert") /\ UNCHANGED ended
  /\ UNCHANGED <<ledger, today, over, pastVars>>

Insert(w) ==
  /\ At(w, "insert")
  /\ ledger' = [ledger EXCEPT ![work[w].scope][work[w].day].open = @ + 1]
  /\ made' = [made EXCEPT ![work[w].scope] = @ + 1]
  /\ Goto(w, "call")
  /\ UNCHANGED <<today, ended, over, excess, begun, faults>>

\* The model answered, and what it used is settled in a statement of its own.
Answered(w) ==
  /\ At(w, "call")
  /\ Goto(w, "settle")
  /\ UNCHANGED <<ledger, today, ended, over, pastVars>>

\* The ledger's id of the reservation.
RowOf(w) == work[w].day

\* settleBudget.  A draft that does not render is drafted again, once; a listing has
\* its other screenshots.
Settle(w) ==
  /\ At(w, "settle")
  /\ \E n \in Actual : LET s == work[w].scope d == RowOf(w) IN
       /\ ledger' = [ledger EXCEPT ![s][d].open = @ - 1, ![s][d].settled = @ + 1,
                                   ![s][d].spent = @ + n]
       /\ excess' = [excess EXCEPT ![s][d] = @ + (IF n > Est THEN n - Est ELSE 0)]
  /\ \/ work[w].kind \in {"listing", "draft"} /\ MoreOrEnd(w, "without")
     \/ (work[w].kind = "listing" => work[w].left = 1) /\ End(w, "model")
  /\ UNCHANGED <<today, over, made, begun, faults>>

\* Refused, cut short or malformed: the tokens were used and the reservation stays.
\* The same message gets the same answer, so an email goes to a person.
BadAnswer(w) ==
  /\ At(w, "call")
  /\ CASE work[w].kind = "extract" -> End(w, "person")
       [] work[w].kind \in {"listing", "draft"} -> MoreOrEnd(w, "without")
       [] OTHER -> End(w, "without")
  /\ UNCHANGED <<ledger, today, over, pastVars>>

\* transport: a timeout or a 5xx; rejected: the provider refused the call itself.
Failed(w) ==
  /\ At(w, "call")
  /\ Goto(w, "release")
  /\ made' = [made EXCEPT ![work[w].scope] = @ - 1]
  /\ UNCHANGED <<ledger, today, ended, over, excess, begun, faults>>

\* Faulty variant of Release: one whose call never happened keeps its reservation.
FaultyRelease(w) ==
  /\ At(w, "release")
  /\ CASE work[w].kind = "extract" -> Throw(w) \/ End(w, "without")
       [] work[w].kind \in {"listing", "draft"} -> MoreOrEnd(w, "without")
       [] OTHER -> End(w, "without")
  /\ UNCHANGED <<ledger, today, over, pastVars>>

\* releaseBudget: a row of its own, on the day it is written.  Only an email's reading
\* is thrown for a timeout; a refused call is read by the rules.
Release(w) ==
  /\ At(w, "release")
  /\ ledger' = [ledger EXCEPT ![work[w].scope][today].released = @ + 1]
  /\ CASE work[w].kind = "extract" -> Throw(w) \/ End(w, "without")
       [] work[w].kind \in {"listing", "draft"} -> MoreOrEnd(w, "without")
       [] OTHER -> End(w, "without")
  /\ UNCHANGED <<today, over, pastVars>>

-----------------------------------------------------------------------------
(* The answer gate calls outside any limit *)

\* A check that cannot run does not wave the reply through: a person sends it.
Judge(w) ==
  /\ At(w, "judge")
  /\ \/ Goto(w, "record") /\ UNCHANGED ended
     \/ End(w, "person")
  /\ UNCHANGED <<ledger, today, over, pastVars>>

\* recordUsage: settled at once, so the limits of later calls include it.
Record(w) ==
  /\ At(w, "record")
  /\ \E n \in Actual : LET s == work[w].scope IN
       /\ ledger' = [ledger EXCEPT ![s][today].settled = @ + 1, ![s][today].spent = @ + n]
       /\ made' = [made EXCEPT ![s] = @ + 1]
       /\ excess' = [excess EXCEPT ![s][today] = @ + n]
  /\ \E how \in {"model", "person"} : End(w, how)
  /\ UNCHANGED <<today, over, begun, faults>>

-----------------------------------------------------------------------------
(* The world *)

\* An event of the outbox for one revision of a request.
Begin(w) ==
  /\ At(w, "idle") /\ begun < MaxWork
  /\ begun' = begun + 1
  /\ \E k \in Kinds, s \in Scope :
       work' = [work EXCEPT ![w] =
         [AtRest EXCEPT !.pc = First(k), !.kind = k, !.scope = s, !.left = CallsOf(k)]]
  /\ ended' = [ended EXCEPT ![w] = "none"]
  /\ UNCHANGED <<ledger, today, over, made, excess, faults>>

\* handOffFailedWork: a person is told, unless the request is over; a failure of its own
\* is caught and logged.
HandOff(w) ==
  /\ At(w, "handoff")
  /\ \/ End(w, IF work[w].scope[1] \in over THEN "lapsed" ELSE "person")
     \/ End(w, "lost")
  /\ UNCHANGED <<ledger, today, over, pastVars>>

\* The process dies: its transaction is rolled back, its reservation stays, and the
\* outbox leases the event again, its last attempt too - unless it is dead already.
Crash(w) ==
  /\ ~At(w, "idle") /\ faults < MaxFaults
  /\ faults' = faults + 1
  /\ IF At(w, "handoff") THEN End(w, "lost") ELSE Again(w)
  /\ made' = IF At(w, "release") THEN [made EXCEPT ![work[w].scope] = @ + 1] ELSE made
  /\ UNCHANGED <<ledger, today, over, excess, begun>>

\* A request is closed, answered or given up by others at work on it, or opened again.
RequestTurns ==
  /\ faults < MaxFaults /\ faults' = faults + 1
  /\ \E r \in Request : over' = IF r \in over THEN over \ {r} ELSE over \cup {r}
  /\ UNCHANGED <<ledger, today, work, ended, made, excess, begun>>

Midnight ==
  /\ today < Days
  /\ today' = today + 1
  /\ UNCHANGED <<ledger, work, ended, over, pastVars>>

Work(w) ==
  \/ Reserve(w) \/ ReadDay(w) \/ Insert(w)
  \/ Answered(w) \/ Settle(w) \/ BadAnswer(w) \/ Failed(w) \/ Release(w)
  \/ Judge(w) \/ Record(w) \/ HandOff(w)

Next == Midnight \/ RequestTurns \/ \E w \in Worker : Work(w) \/ Begin(w) \/ Crash(w)

Spec == Init /\ [][Next]_vars
\* A dispatcher that has an event works on: serverless runs end, and the lock is freed.
FairSpec == Spec /\ \A w \in Worker : WF_vars(Work(w))

-----------------------------------------------------------------------------
(* Properties *)

Placed(s) == made[s] + Cardinality({w \in Worker : At(w, "release") /\ work[w].scope = s})

\* Every call is on the books once: in flight, answered, failed with its tokens used, or
\* lost with its process; one that never reached the model is not.
\* (reserveBudget, settleBudget, releaseBudget, recordUsage and their callers.)
EveryCallCountsOnce == \A s \in Scope : Calls(s) = Placed(s)

\* The types, and the ledger against the calls that were really made.
LedgerInv == TypeOK /\ EveryCallCountsOnce

\* What a revision's calls were reserved and settled at stays within its hard limit, up
\* to what answered calls used beyond their estimate and the answer gate's own calls,
\* however the reservations, settlements and releases of its workers interleave.
\* (reserveBudget: the lock on the request.)
SpendWithinHard ==
  \A s \in Scope : SpentOn(s) <= Hard + Sum(excess[s])

\* The day's books pass its limit by no more than one estimate for each other request
\* that reserves at the same moment, and by what calls used beyond their estimates.
\* (reserveBudget: no lock covers the day.)
DayOvershoot ==
  SpentSince(today) <=
    Daily + Est * (Cardinality(Request) - 1) + Sum([s \in Scope |-> excess[s][today]])

\* What the two limits are worth: a revision's, and a day's.
SpendLimits == SpendWithinHard /\ DayOvershoot

\* An email is answered or with a person in the end, whatever the budget and the provider
\* do, but for two ends the code leaves open: its last attempt fails when its request is
\* over, so that nobody is told, or nobody is told because the hand-off fails or dies.
\* (runExtractor, readListing, the draft loop: "still read, by the rules reader, rather than
\* handed to a person with nothing done", pipeline.ts:1834; handOffFailedWork.)
EveryEmailIsAnswered ==
  \A w \in Worker :
    []<>(ended[w] \in {"unused", "model", "without", "person"} \cup {"lapsed", "lost"})
=============================================================================
