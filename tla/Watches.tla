------------------------------- MODULE Watches -------------------------------
(***************************************************************************)
(* Price watches of one contact, and the alerts they find.                 *)
(*                                                                         *)
(* A customer's message creates a watch, or stops or supersedes the ones   *)
(* that run.  A scheduled evaluation looks at each watch whose next check  *)
(* is due, and writes an alert for a price worth telling; staff approve an *)
(* alert, which queues an email; the dispatcher asks once more, and sends  *)
(* it.  Each is a handler that reads, waits and writes rows that the       *)
(* others write too.  A row's generation counts what has happened to the   *)
(* watch, so that an alert of an earlier generation is recognised.         *)
(*                                                                         *)
(* A process runs any handler, one at a time.  What the provider does with *)
(* an email is module SendIntents'; here it is mailed once submitted.      *)
(***************************************************************************)
EXTENDS Integers, FiniteSets, FiniteSetsExt, Functions

CONSTANTS
  Watch, NoWatch,
  Process,
  Total,          \* totals a look may find, in cents
  Target,         \* the customer's whole-party target
  MaxActive,      \* WATCH_MAX_ACTIVE_PER_CONTACT, 3 in the code
  MaxPerDay,      \* WATCH_MAX_ALERTS_PER_DAY, 2 in the code
  MaxActs         \* bound: what customers, staff and the clock do

ASSUME WatchesAssumption ==
  /\ NoWatch \notin Watch /\ IsFiniteSet(Watch) /\ IsFiniteSet(Total)
  /\ Total \subseteq Nat /\ Target \in Nat
  /\ MaxActive \in Nat \ {0} /\ MaxPerDay \in Nat \ {0} /\ MaxActs \in Nat

VARIABLES
  state,      \* watches.state; "absent" while there is no row
  generation, revision,       \* ... their columns
  due,        \* watches whose next_check_at has come
  over,       \* watches whose expires_at has come
  current,    \* requests.current_revision
  alert,      \* watch_alerts.approval_state, by dedupe key
  bound,      \* keys whose alert holds its send intent's id
  intent,     \* send_intents.state, by dedupe key
  today,      \* keys of the last 24 hours
  fresh,      \* keys whose observation is recent enough to be told as "now"
  allowed,    \* the event is scheduled and may be monitored
  suppressed, \* the address is suppressed for watch alerts
  stoppedAt,  \* by watch: its generation when a stop was confirmed, 0 before one
  pc, on, read, key, stopping,  \* processes: where, the watch, what they read of it, ...
  acts

rowVars == <<state, generation, revision, due, over, current>>
alertVars == <<alert, bound, intent, today, fresh>>
outsideVars == <<allowed, suppressed, stoppedAt>>
procVars == <<pc, on, read, key, stopping>>
vars == <<rowVars, alertVars, outsideVars, procVars, acts>>

\* A dedupe key: watch, generation, total.  One offer stands for all (alertDedupeKey).
Key == Watch \X Nat \X Total
NoKey == <<NoWatch, 0, 0>>
WatchOf(k) == k[1]
GenerationOf(k) == k[2]
TotalOf(k) == k[3]

TypeOK ==
  /\ state \in [Watch -> {"absent", "active", "paused", "cancelled", "expired"}]
  /\ generation \in [Watch -> Nat] /\ revision \in [Watch -> Nat]
  /\ due \cup over \subseteq Watch /\ current \in Nat \ {0}
  /\ DOMAIN alert \subseteq Key
  /\ alert \in [DOMAIN alert -> {"pending", "approved", "invalidated"}]
  /\ bound \subseteq DOMAIN intent /\ DOMAIN intent \subseteq DOMAIN alert
  /\ intent \in [DOMAIN intent -> {"queued", "claimed", "blocked", "mailed"}]
  /\ today \cup fresh \subseteq DOMAIN alert
  /\ allowed \in BOOLEAN /\ suppressed \in BOOLEAN
  /\ stoppedAt \in [Watch -> Nat]
  /\ pc \in [Process -> {"idle", "create", "claim", "judge", "pause", "price", "insert",
                         "stopAlerts", "revise", "supersede", "blockOld",
                         "watchOf", "reject", "queue", "bind", "gate", "submit"}]
  /\ on \in [Process -> Watch \cup {NoWatch}] /\ read \in [Process -> Nat]
  /\ key \in [Process -> Key \cup {NoKey}]
  /\ stopping \in [Process -> SUBSET Watch]
  /\ acts \in 0 .. MaxActs

\* No rows yet; a watch begins at generation 1.
NoWatches ==
  /\ state = [w \in Watch |-> "absent"]
  /\ generation = [w \in Watch |-> 1] /\ revision = [w \in Watch |-> 0]
  /\ due = {} /\ over = {}
NoAlerts == alert = << >> /\ bound = {} /\ intent = << >> /\ today = {} /\ fresh = {}

Init ==
  /\ NoWatches /\ NoAlerts
  /\ current = 1
  /\ allowed = TRUE /\ suppressed = FALSE
  /\ stoppedAt = [w \in Watch |-> 0]
  /\ pc = [p \in Process |-> "idle"]
  /\ on = [p \in Process |-> NoWatch] /\ read = [p \in Process |-> 0]
  /\ key = [p \in Process |-> NoKey] /\ stopping = [p \in Process |-> {}]
  /\ acts = 0

Active == {w \in Watch : state[w] = "active"}
Goto(p, label) == pc' = [pc EXCEPT ![p] = label]
Act == acts < MaxActs /\ acts' = acts + 1

\* A handler that returns forgets what it read.
Return(p) ==
  /\ Goto(p, "idle")
  /\ on' = [on EXCEPT ![p] = NoWatch] /\ read' = [read EXCEPT ![p] = 0]
  /\ key' = [key EXCEPT ![p] = NoKey] /\ stopping' = [stopping EXCEPT ![p] = {}]

Bump(ws) == generation' = [w \in Watch |-> generation[w] + IF w \in ws THEN 1 ELSE 0]
Becomes(ws, s) == state' = [w \in Watch |-> IF w \in ws THEN s ELSE state[w]]
Put(f, k, v) == [x \in DOMAIN f \cup {k} |-> IF x = k THEN v ELSE f[x]]

-----------------------------------------------------------------------------
(* domain/watches.ts: which price is worth an alert *)

\* The larger of $10 and 5%, rounded (Math.round), below the lowest total alerted.
Reduction(last) == LET pct == (last * 5 + 50) \div 100 IN IF pct > 1000 THEN pct ELSE 1000

\* This generation's alerts: those of the last day, and the totals not invalidated.
AlertsOf(w, g) == {k \in DOMAIN alert : WatchOf(k) = w /\ GenerationOf(k) = g}
AlertedTotals(w, g) == {TotalOf(k) : k \in {x \in AlertsOf(w, g) : alert[x] # "invalidated"}}

\* targetAndRepeats: within the target, no such key, under the daily cap, and well
\* below the lowest total of this generation.
WorthAlert(w, g, total) ==
  /\ total <= Target
  /\ <<w, g, total>> \notin DOMAIN alert
  /\ Cardinality(AlertsOf(w, g) \cap today) < MaxPerDay
  /\ \A last \in AlertedTotals(w, g) : last - total >= Reduction(last)

-----------------------------------------------------------------------------
(* A message asks for a watch *)

\* maybeCreateWatch: the contact's active watches are counted, and then other reads,
\* some of them paid, decide.  Whether the brief can be watched is not modelled.
CountActive(p, w) ==
  /\ pc[p] = "idle" /\ state[w] = "absent"
  /\ Cardinality(Active) < MaxActive /\ allowed
  /\ Goto(p, "create")
  /\ on' = [on EXCEPT ![p] = w] /\ read' = [read EXCEPT ![p] = current]
  /\ UNCHANGED <<rowVars, alertVars, outsideVars, key, stopping, acts>>

Create(p) ==
  /\ pc[p] = "create"
  /\ LET w == on[p] IN
     IF state[w] = "absent"
       THEN /\ Becomes({w}, "active") /\ due' = due \cup {w}
            /\ revision' = [revision EXCEPT ![w] = read[p]]
       ELSE UNCHANGED <<state, due, revision>>
  /\ Return(p)
  /\ UNCHANGED <<generation, over, current, alertVars, outsideVars, acts>>

-----------------------------------------------------------------------------
(* evaluateDueWatches: one look *)

\* The list of due watches; the row is used as it was read here.
ReadDue(p, w) ==
  /\ pc[p] = "idle" /\ w \in Active \cap due
  /\ Goto(p, "claim")
  /\ on' = [on EXCEPT ![p] = w] /\ read' = [read EXCEPT ![p] = generation[w]]
  /\ UNCHANGED <<rowVars, alertVars, outsideVars, key, stopping, acts>>

\* Faulty variant of Claim: the next check is moved on without asking whether it is
\* still due.
FaultyClaim(p) ==
  /\ pc[p] = "claim"
  /\ IF on[p] \in Active
       THEN /\ Goto(p, "judge") /\ due' = due \ {on[p]}
            /\ UNCHANGED <<on, read, key, stopping>>
       ELSE Return(p) /\ UNCHANGED due
  /\ UNCHANGED <<state, generation, revision, over, current, alertVars, outsideVars, acts>>

\* The next check is moved on if the watch is still active and still due.
Claim(p) ==
  /\ pc[p] = "claim"
  /\ IF on[p] \in Active \cap due
       THEN /\ Goto(p, "judge") /\ due' = due \ {on[p]}
            /\ UNCHANGED <<on, read, key, stopping>>
       ELSE Return(p) /\ UNCHANGED due
  /\ UNCHANGED <<state, generation, revision, over, current, alertVars, outsideVars, acts>>

\* Expired: written whatever has become of the row.  Else it may still run, or not.
Judge(p) ==
  /\ pc[p] = "judge"
  /\ IF on[p] \in over
       THEN Becomes({on[p]}, "expired") /\ Return(p)
       ELSE /\ UNCHANGED <<state, on, read, key, stopping>>
            /\ Goto(p, IF revision[on[p]] = current /\ allowed THEN "price" ELSE "pause")
  /\ UNCHANGED <<generation, revision, due, over, current, alertVars, outsideVars, acts>>

\* pause: by id, then stopWatchAlerts.
PauseWatch(p) ==
  /\ pc[p] = "pause"
  /\ Becomes({on[p]}, "paused") /\ Bump({on[p]})
  /\ stopping' = [stopping EXCEPT ![p] = {on[p]}]
  /\ Goto(p, "stopAlerts")
  /\ UNCHANGED <<revision, due, over, current, alertVars, outsideVars, on, read, key, acts>>

\* The search, and this generation's history against what it found, if anything.
Price(p) ==
  /\ pc[p] = "price"
  /\ \/ \E total \in Total :
          /\ WorthAlert(on[p], read[p], total)
          /\ key' = [key EXCEPT ![p] = <<on[p], read[p], total>>]
          /\ Goto(p, "insert") /\ UNCHANGED <<on, read, stopping>>
     \/ Return(p)
  /\ UNCHANGED <<rowVars, alertVars, outsideVars, acts>>

InsertAlert(p) ==
  /\ pc[p] = "insert"
  /\ IF key[p] \in DOMAIN alert
       THEN UNCHANGED <<alert, today, fresh>>
       ELSE /\ alert' = Put(alert, key[p], "pending")
            /\ today' = today \cup {key[p]} /\ fresh' = fresh \cup {key[p]}
  /\ Return(p)
  /\ UNCHANGED <<rowVars, bound, intent, outsideVars, acts>>

\* A crash costs the look: the claim waits for the next slot.
LookDies(p) ==
  /\ pc[p] \in {"judge", "price", "insert"}
  /\ Act
  /\ Return(p)
  /\ UNCHANGED <<rowVars, alertVars, outsideVars>>

-----------------------------------------------------------------------------
(* Stopping *)

\* stopWatchAlerts: pending alerts are invalidated, then the queued intents whose id
\* an alert holds are blocked.
StopWatchAlerts(p) ==
  /\ pc[p] = "stopAlerts"
  /\ alert' = [k \in DOMAIN alert |->
                 IF WatchOf(k) \in stopping[p] /\ alert[k] = "pending" THEN "invalidated" ELSE alert[k]]
  /\ Goto(p, "revise")
  /\ UNCHANGED <<rowVars, bound, intent, today, fresh, outsideVars, on, read, key, stopping, acts>>

Block(f, ks) == [k \in DOMAIN f |-> IF k \in ks /\ f[k] = "queued" THEN "blocked" ELSE f[k]]

\* ... and a cancel_watch message goes on to a revision of its own (read[p] tells it).
BlockStopped(p) ==
  /\ pc[p] = "revise"
  /\ intent' = Block(intent, {k \in bound : WatchOf(k) \in stopping[p]})
  /\ current' = current + IF on[p] = NoWatch THEN read[p] ELSE 0
  /\ Return(p)
  /\ UNCHANGED <<state, generation, revision, due, over, alert, bound, today, fresh, outsideVars, acts>>

\* cancel_watch (revises) and recordOutcomeReply (does not): what is active is
\* cancelled in one statement; its alerts follow.
CustomerStops(p, revises) ==
  /\ pc[p] = "idle"
  /\ Act
  /\ Becomes(Active, "cancelled") /\ Bump(Active)
  /\ stoppedAt' = [w \in Watch |-> IF w \in Active THEN generation[w] ELSE stoppedAt[w]]
  /\ stopping' = [stopping EXCEPT ![p] = Active]
  /\ read' = [read EXCEPT ![p] = IF revises THEN 1 ELSE 0]
  /\ Goto(p, "stopAlerts")
  /\ UNCHANGED <<revision, due, over, current, alertVars, allowed, suppressed, on, key>>

\* cancelWatch, by staff: whatever state it is in.
StaffCancels(p, w) ==
  /\ pc[p] = "idle" /\ state[w] # "absent"
  /\ Act
  /\ Becomes({w}, "cancelled") /\ Bump({w})
  /\ stoppedAt' = [stoppedAt EXCEPT ![w] = generation[w]]
  /\ stopping' = [stopping EXCEPT ![p] = {w}] /\ on' = [on EXCEPT ![p] = w]
  /\ Goto(p, "stopAlerts")
  /\ UNCHANGED <<revision, due, over, current, alertVars, allowed, suppressed, read, key>>

\* The pause route, both ways: guarded by the state it starts from, and no cap.
StaffPauses(w) ==
  /\ state[w] \in {"active", "paused"}
  /\ Act
  /\ Becomes({w}, IF state[w] = "paused" THEN "active" ELSE "paused") /\ Bump({w})
  /\ UNCHANGED <<revision, due, over, current, alertVars, outsideVars, procVars>>

\* stopAll (and a deletion, which cancels every watch): the address is suppressed too.
StopAll ==
  /\ Act
  /\ \E ws \in {Active, {w \in Watch : state[w] # "absent"}} : Becomes(ws, "cancelled")
  /\ suppressed' = TRUE
  /\ UNCHANGED <<generation, revision, due, over, current, alertVars, allowed, stoppedAt, procVars>>

\* removeRequests: watches and pending alerts of the request, its queued emails.
RemoveRequest ==
  /\ Act
  /\ LET ws == {w \in Watch : state[w] \in {"active", "paused"}} IN Becomes(ws, "cancelled")
  /\ alert' = [k \in DOMAIN alert |-> IF alert[k] = "pending" THEN "invalidated" ELSE alert[k]]
  /\ intent' = Block(intent, DOMAIN intent)
  /\ UNCHANGED <<generation, revision, due, over, current, bound, today, fresh, outsideVars, procVars>>

-----------------------------------------------------------------------------
(* A message changes the request: invalidateForRevision *)

Revise(p) ==
  /\ pc[p] = "idle"
  /\ Act
  /\ current' = current + 1
  /\ Goto(p, "supersede")
  /\ UNCHANGED <<state, generation, revision, due, over, alertVars, outsideVars, on, read, key, stopping>>

Supersede(p) ==
  /\ pc[p] = "supersede"
  /\ LET old == {w \in Active : revision[w] < current} IN Becomes(old, "paused") /\ Bump(old)
  /\ Goto(p, "blockOld")
  /\ UNCHANGED <<revision, due, over, current, alertVars, outsideVars, on, read, key, stopping, acts>>

BlockOld(p) ==
  /\ pc[p] = "blockOld"
  /\ intent' = Block(intent, DOMAIN intent)
  /\ Return(p)
  /\ UNCHANGED <<rowVars, alert, bound, today, fresh, outsideVars, acts>>

-----------------------------------------------------------------------------
(* approveWatchAlert *)

ReadAlert(p, k) ==
  /\ pc[p] = "idle" /\ alert[k] = "pending"
  /\ Goto(p, "watchOf") /\ key' = [key EXCEPT ![p] = k]
  /\ UNCHANGED <<rowVars, alertVars, outsideVars, on, read, stopping, acts>>

\* Today's watch, revision, evidence and policy.
Promised(k) == WatchOf(k) \in Active /\ generation[WatchOf(k)] = GenerationOf(k)
Timely(k) == revision[WatchOf(k)] = current /\ k \in fresh /\ allowed

CheckAlert(p) ==
  /\ pc[p] = "watchOf"
  /\ Goto(p, IF Promised(key[p]) /\ Timely(key[p]) THEN "queue" ELSE "reject")
  /\ UNCHANGED <<rowVars, alertVars, outsideVars, on, read, key, stopping, acts>>

RejectAlert(p) ==
  /\ pc[p] = "reject"
  /\ alert' = [alert EXCEPT ![key[p]] = "invalidated"]
  /\ Return(p)
  /\ UNCHANGED <<rowVars, bound, intent, today, fresh, outsideVars, acts>>

\* queueSend, once per key; then the alert is approved, by id.
QueueAlert(p) ==
  /\ pc[p] = "queue"
  /\ intent' = IF key[p] \in DOMAIN intent THEN intent ELSE Put(intent, key[p], "queued")
  /\ Goto(p, "bind")
  /\ UNCHANGED <<rowVars, alert, bound, today, fresh, outsideVars, on, read, key, stopping, acts>>

BindAlert(p) ==
  /\ pc[p] = "bind"
  /\ alert' = [alert EXCEPT ![key[p]] = "approved"] /\ bound' = bound \cup {key[p]}
  /\ Return(p)
  /\ UNCHANGED <<rowVars, intent, today, fresh, outsideVars, acts>>

\* The call may die between the two.
ApprovalDies(p) ==
  /\ pc[p] = "bind"
  /\ Act
  /\ Return(p)
  /\ UNCHANGED <<rowVars, alertVars, outsideVars>>

-----------------------------------------------------------------------------
(* dispatchSend, for an alert *)

ClaimIntent(p, k) ==
  /\ pc[p] = "idle" /\ intent[k] = "queued"
  /\ intent' = [intent EXCEPT ![k] = "claimed"]
  /\ Goto(p, "gate") /\ key' = [key EXCEPT ![p] = k]
  /\ UNCHANGED <<rowVars, alert, bound, today, fresh, outsideVars, on, read, stopping, acts>>

\* Faulty variant of Cleared: the alert's approval is enough.
FaultyCleared(k) == alert[k] = "approved" /\ Timely(k) /\ ~suppressed

\* The gate, asked at dispatch: a stop seen now wins over the approval.
Cleared(k) == alert[k] = "approved" /\ Promised(k) /\ Timely(k) /\ ~suppressed

\* Evidence gone stale invalidates the alert, and so does an event that has changed;
\* a policy that has, only while the alert still stood.
Invalid(k) == [alert EXCEPT ![k] = "invalidated"]

Gate(p) ==
  /\ pc[p] = "gate"
  /\ LET k == key[p] IN
     IF Cleared(k)
       THEN /\ Goto(p, "submit") /\ UNCHANGED <<alert, intent, on, read, key, stopping>>
       ELSE /\ alert' \in CASE k \notin fresh \/ (~allowed /\ alert[k] = "approved" /\ Promised(k)) -> {Invalid(k)}
                           [] ~allowed -> {alert, Invalid(k)}
                           [] OTHER -> {alert}
            /\ intent' = [intent EXCEPT ![k] = "blocked"]
            /\ Return(p)
  /\ UNCHANGED <<rowVars, bound, today, fresh, outsideVars, acts>>

Submit(p) ==
  /\ pc[p] = "submit"
  /\ intent' = [intent EXCEPT ![key[p]] = "mailed"]
  /\ Return(p)
  /\ UNCHANGED <<rowVars, alert, bound, today, fresh, outsideVars, acts>>

-----------------------------------------------------------------------------
(* The clock and the world *)

\* A look takes far less than the shortest cadence (30 minutes, 3 hours on SeatData):
\* a watch is due again only when nobody is looking at it.
Looking(w) == \E p \in Process : on[p] = w /\ pc[p] \in {"judge", "price", "insert", "pause"}

DueAgain(w) ==
  /\ state[w] # "absent" /\ w \notin due /\ ~Looking(w)
  /\ Act
  /\ due' = due \cup {w}
  /\ UNCHANGED <<state, generation, revision, over, current, alertVars, outsideVars, procVars>>

TimePasses ==
  /\ Act
  /\ \/ \E w \in Watch : state[w] # "absent" /\ w \notin over /\ over' = over \cup {w} /\ UNCHANGED <<today, fresh>>
     \/ fresh # {} /\ fresh' = {} /\ UNCHANGED <<over, today>>
     \/ today # {} /\ today' = {} /\ fresh' = {} /\ UNCHANGED over
  /\ UNCHANGED <<state, generation, revision, due, current, alert, bound, intent, outsideVars, procVars>>

\* An event is called off or put back on, a licence or a policy changes.
WorldChanges ==
  /\ Act
  /\ allowed' = ~allowed
  /\ UNCHANGED <<rowVars, alertVars, suppressed, stoppedAt, procVars>>

Look(p) ==
  \/ \E w \in Watch : ReadDue(p, w)
  \/ Claim(p) \/ Judge(p) \/ PauseWatch(p) \/ Price(p) \/ InsertAlert(p)

Message(p) ==
  \/ \E w \in Watch : CountActive(p, w)
  \/ Create(p)
  \/ \E revises \in BOOLEAN : CustomerStops(p, revises)
  \/ StopWatchAlerts(p) \/ BlockStopped(p)
  \/ Revise(p) \/ Supersede(p) \/ BlockOld(p)

Approve(p) ==
  \/ \E k \in DOMAIN alert : ReadAlert(p, k)
  \/ CheckAlert(p) \/ RejectAlert(p) \/ QueueAlert(p) \/ BindAlert(p)

Dispatch(p) ==
  \/ \E k \in DOMAIN intent : ClaimIntent(p, k)
  \/ Gate(p) \/ Submit(p)

Next ==
  \/ \E p \in Process :
       \/ Look(p) \/ Message(p) \/ Approve(p) \/ Dispatch(p)
       \/ LookDies(p) \/ ApprovalDies(p)
       \/ \E w \in Watch : StaffCancels(p, w)
  \/ \E w \in Watch : StaffPauses(w) \/ DueAgain(w)
  \/ StopAll \/ RemoveRequest \/ TimePasses \/ WorldChanges

Spec == Init /\ [][Next]_vars

-----------------------------------------------------------------------------
(* Properties *)

\* However ticks, manual runs and resumed watches overlap, nobody looks at a watch
\* (a paid read) while another look at it is under way.  (evaluateDueWatches' claim,
\* which the list it works through cannot replace.)
OneLookAtATime ==
  \A p, q \in Process :
    /\ {pc[p], pc[q]} \subseteq {"judge", "price", "insert"}
    /\ on[p] = on[q]
    => p = q

\* No generation of a watch finds more alerts in a day than the cap, those that were
\* invalidated since included.  (alertHistory and targetAndRepeats, read before the
\* alert is written.)
DailyCap ==
  \A w \in Watch : \A g \in 1 .. generation[w] :
    Cardinality(AlertsOf(w, g) \cap today) <= MaxPerDay

\* Of every watch: one look at a time, the day's cap on its alerts, and the types.
WatchInv == TypeOK /\ OneLookAtATime /\ DailyCap

\* An alert found before a stop that was confirmed never passes the gate after it,
\* even when its approval was under way, or when a look that had begun overwrote the
\* stop and staff resumed the watch.  (cancelWatch, cancel_watch, recordOutcomeReply,
\* pause and the gate of dispatchSend, A26.)
StoppedStaysSilent ==
  [][\A p \in Process :
       pc[p] = "gate" /\ pc'[p] = "submit"
         => GenerationOf(key[p]) > stoppedAt[WatchOf(key[p])]]_vars
=============================================================================
