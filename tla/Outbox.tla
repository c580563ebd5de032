------------------------------- MODULE Outbox -------------------------------
(***************************************************************************)
(* The transactional outbox and its dispatcher.                            *)
(*                                                                         *)
(* A row is written in the transaction of the business fact.  A run of     *)
(* runOutboxBatch leases a batch of due rows, then takes them one at a     *)
(* time: it runs the handler, and marks the row dispatched or failed if it *)
(* still holds the row's lease token.  The minute cron allows one run at a *)
(* time; the recover-outbox endpoint and the admin simulators start runs   *)
(* beside it, so several workers are live at once and leases can be lost.  *)
(*                                                                         *)
(* Time is kept as the two comparisons the code makes with it: expired[k]  *)
(* is "lease_until < now", ready[k] is "next_attempt_at <= now".           *)
(*                                                                         *)
(* A lease token is a fresh random value per batch.  A worker leases a new *)
(* batch only when its last one is finished or lost with its process, and  *)
(* it compares tokens only for rows of its own batch, so the worker's name *)
(* stands for the token of the batch it is working on.                     *)
(***************************************************************************)
EXTENDS Integers, FiniteSets

CONSTANTS
  Key,            \* event keys
  Worker,         \* concurrent runs of runOutboxBatch
  NoWorker,       \* a null lease token
  NoKey,          \* no event in hand
  CustomerWork,   \* keys whose death must reach a person
  Budget,         \* Budget[k]: attempts before k is dead-lettered
  Limit,          \* rows leased by one batch
  MaxFaults       \* bound: crashes, and leases lost by live workers

ASSUME OutboxAssumption ==
  /\ NoWorker \notin Worker
  /\ NoKey \notin Key
  /\ CustomerWork \subseteq Key
  /\ Budget \in [Key -> Nat \ {0}]
  /\ Limit \in Nat \ {0}
  /\ MaxFaults \in Nat

VARIABLES
  \* the outbox_events row of each key
  state, token, expired, ready, attempts,
  \* the local state of each worker
  pc, batch, cur, seen,
  \* what happened so far
  ran, handedOff, faults

rowVars == <<state, token, expired, ready, attempts>>
workerVars == <<pc, batch, cur, seen>>
historyVars == <<ran, handedOff, faults>>
vars == <<rowVars, workerVars, historyVars>>

RowState == {"absent", "pending", "leased", "dispatched", "dead"}

TypeOK ==
  /\ state \in [Key -> RowState]
  /\ token \in [Key -> Worker \cup {NoWorker}]
  /\ expired \in [Key -> BOOLEAN]
  /\ ready \in [Key -> BOOLEAN]
  /\ attempts \in [Key -> Nat]
  /\ pc \in [Worker -> {"idle", "next", "running", "returned", "threw",
                        "threw_permanent", "dead_lettered"}]
  /\ batch \in [Worker -> SUBSET Key]
  /\ cur \in [Worker -> Key \cup {NoKey}]
  /\ seen \in [Worker -> [Key -> Nat]]
  /\ ran \subseteq Key
  /\ handedOff \subseteq Key
  /\ faults \in 0 .. MaxFaults

Init ==
  /\ state = [k \in Key |-> "absent"]
  /\ token = [k \in Key |-> NoWorker]
  /\ expired = [k \in Key |-> FALSE]
  /\ ready = [k \in Key |-> FALSE]
  /\ attempts = [k \in Key |-> 0]
  /\ pc = [w \in Worker |-> "idle"]
  /\ batch = [w \in Worker |-> {}]
  /\ cur = [w \in Worker |-> NoKey]
  /\ seen = [w \in Worker |-> [k \in Key |-> 0]]
  /\ ran = {}
  /\ handedOff = {}
  /\ faults = 0

-----------------------------------------------------------------------------
(* Rows and time *)

\* enqueueOutbox: a second row with the same event key is ignored.
EnqueueOutbox(k) ==
  /\ state[k] = "absent"
  /\ state' = [state EXCEPT ![k] = "pending"]
  /\ ready' = [ready EXCEPT ![k] = TRUE]
  /\ UNCHANGED <<token, expired, attempts, workerVars, historyVars>>

LeaseRunsOut(k) ==
  /\ state[k] = "leased" /\ ~expired[k]
  /\ expired' = [expired EXCEPT ![k] = TRUE]
  /\ UNCHANGED <<state, token, ready, attempts, workerVars, ran, handedOff>>

\* The rows a run has leased and is not done with.
Held(w) == batch[w] \cup ({cur[w]} \ {NoKey})

\* The lease of a worker that died ...
LeaseExpires(k) ==
  /\ LeaseRunsOut(k)
  /\ k \notin Held(token[k])
  /\ UNCHANGED faults

\* ... and of one that is only slow, and goes on.
LeaseLost(k) ==
  /\ LeaseRunsOut(k)
  /\ k \in Held(token[k])
  /\ faults < MaxFaults
  /\ faults' = faults + 1

BackoffElapses(k) ==
  /\ state[k] = "pending" /\ ~ready[k]
  /\ ready' = [ready EXCEPT ![k] = TRUE]
  /\ UNCHANGED <<state, token, expired, attempts, workerVars, historyVars>>

\* Faulty variant of ReplayDead: replays whatever row is named.
FaultyReplayAny(k) ==
  /\ state[k] \in {"dead", "leased"}
  /\ state' = [state EXCEPT ![k] = "pending"]
  /\ attempts' = [attempts EXCEPT ![k] = 0]
  /\ ready' = [ready EXCEPT ![k] = TRUE]
  /\ UNCHANGED <<token, expired, workerVars, historyVars>>

\* replayDead: staff send a dead row round again under its own key.
ReplayDead(k) ==
  /\ state[k] = "dead"
  /\ state' = [state EXCEPT ![k] = "pending"]
  /\ attempts' = [attempts EXCEPT ![k] = 0]
  /\ ready' = [ready EXCEPT ![k] = TRUE]
  /\ UNCHANGED <<token, expired, workerVars, historyVars>>

-----------------------------------------------------------------------------
(* A run of runOutboxBatch *)

\* Faulty variant of Due: a dead worker's rows are never taken up.
FaultyDueNoRecovery == {k \in Key : state[k] = "pending" /\ ready[k]}

Due ==
  {k \in Key : /\ state[k] = "pending" \/ (state[k] = "leased" /\ expired[k])
               /\ ready[k]}

\* The count only ever meets the budget through ">=", so it stops there.
Bump(k) == IF attempts[k] < Budget[k] THEN attempts[k] + 1 ELSE attempts[k]

\* leaseDueOutbox: one statement takes up to Limit due rows.  Which rows when
\* more are due (the oldest next_attempt_at, less those another statement has
\* locked) is left open.
LeaseDueOutbox(w) ==
  /\ pc[w] = "idle"
  /\ \E S \in SUBSET Due :
       /\ S # {}
       /\ \/ Cardinality(S) = Limit
          \/ S = Due /\ Cardinality(S) < Limit
       /\ state' = [k \in Key |-> IF k \in S THEN "leased" ELSE state[k]]
       /\ token' = [k \in Key |-> IF k \in S THEN w ELSE token[k]]
       /\ expired' = [k \in Key |-> IF k \in S THEN FALSE ELSE expired[k]]
       /\ attempts' = [k \in Key |-> IF k \in S THEN Bump(k) ELSE attempts[k]]
       /\ batch' = [batch EXCEPT ![w] = S]
       /\ seen' = [seen EXCEPT ![w] =
                     [k \in Key |-> IF k \in S THEN Bump(k) ELSE 0]]
  /\ pc' = [pc EXCEPT ![w] = "next"]
  /\ UNCHANGED <<ready, cur, historyVars>>

\* The loop takes the next leased event.  It does not look at the lease again.
StartEvent(w) ==
  /\ pc[w] = "next"
  /\ \E k \in batch[w] :
       /\ cur' = [cur EXCEPT ![w] = k]
       /\ batch' = [batch EXCEPT ![w] = @ \ {k}]
  /\ pc' = [pc EXCEPT ![w] = "running"]
  /\ UNCHANGED <<rowVars, seen, historyVars>>

HandlerReturns(w) ==
  /\ pc[w] = "running"
  /\ pc' = [pc EXCEPT ![w] = "returned"]
  /\ ran' = ran \cup {cur[w]}
  /\ UNCHANGED <<rowVars, batch, cur, seen, handedOff, faults>>

\* The handler throws, or markDispatched does after the handler returned: one
\* try block holds both.
HandlerThrows(w) ==
  /\ pc[w] \in {"running", "returned"}
  /\ \E outcome \in {"threw", "threw_permanent"} :
       pc' = [pc EXCEPT ![w] = outcome]
  /\ UNCHANGED <<rowVars, batch, cur, seen, historyVars>>

\* The loop is done with the event in hand.
EndEvent(w) ==
  /\ cur' = [cur EXCEPT ![w] = NoKey]
  /\ seen' = [seen EXCEPT ![w][cur[w]] = 0]
  /\ pc' = [pc EXCEPT ![w] = IF batch[w] = {} THEN "idle" ELSE "next"]
  /\ UNCHANGED batch

\* Faulty variant of MarkDispatched: the update goes by the row's id alone.
FaultyMarkAnyDispatched(w) ==
  /\ pc[w] = "returned"
  /\ state' = [state EXCEPT ![cur[w]] = "dispatched"]
  /\ token' = [token EXCEPT ![cur[w]] = NoWorker]
  /\ expired' = [expired EXCEPT ![cur[w]] = FALSE]
  /\ UNCHANGED <<ready, attempts>>
  /\ EndEvent(w)
  /\ UNCHANGED historyVars

MarkDispatched(w) ==
  /\ pc[w] = "returned"
  /\ LET k == cur[w] IN
       IF token[k] = w
         THEN /\ state' = [state EXCEPT ![k] = "dispatched"]
              /\ token' = [token EXCEPT ![k] = NoWorker]
              /\ expired' = [expired EXCEPT ![k] = FALSE]
              /\ UNCHANGED <<ready, attempts>>
         ELSE UNCHANGED rowVars
  /\ EndEvent(w)
  /\ UNCHANGED historyVars

\* Faulty variant of LastFailure: one attempt too many.
FaultyLastFailure(w) ==
  pc[w] = "threw_permanent" \/ seen[w][cur[w]] > Budget[cur[w]]

\* Whether this failure is the event's last, judged on the attempts leased.
LastFailure(w) ==
  pc[w] = "threw_permanent" \/ seen[w][cur[w]] >= Budget[cur[w]]

\* markFailed: the update needs the token, the verdict it returns does not.
MarkFailed(w) ==
  /\ pc[w] \in {"threw", "threw_permanent"}
  /\ LET k == cur[w] IN
       IF token[k] = w
         THEN /\ state' = [state EXCEPT ![k] =
                             IF LastFailure(w) THEN "dead" ELSE "pending"]
              /\ token' = [token EXCEPT ![k] = NoWorker]
              /\ expired' = [expired EXCEPT ![k] = FALSE]
              /\ ready' = [ready EXCEPT ![k] = FALSE]
              /\ UNCHANGED attempts
         ELSE UNCHANGED rowVars
  /\ IF LastFailure(w)
       THEN pc' = [pc EXCEPT ![w] = "dead_lettered"]
            /\ UNCHANGED <<batch, cur, seen>>
       ELSE EndEvent(w)
  /\ UNCHANGED historyVars

\* Faulty variant of HandOffFailedWork: the row is handed off by a state of its
\* own, which no query knows.
FaultyHandOffState(w) ==
  /\ pc[w] = "dead_lettered"
  /\ state' = [state EXCEPT ![cur[w]] = "handed_off"]
  /\ EndEvent(w)
  /\ UNCHANGED <<token, expired, ready, attempts, historyVars>>

\* handOffFailedWork: a person is told; other kinds of work are left dead.  An
\* error in it is caught and logged.
HandOffFailedWork(w) ==
  /\ pc[w] = "dead_lettered"
  /\ \/ cur[w] \in CustomerWork /\ handedOff' = handedOff \cup {cur[w]}
     \/ UNCHANGED handedOff
  /\ EndEvent(w)
  /\ UNCHANGED <<rowVars, ran, faults>>

\* The process dies, or an error escapes the loop and ends the run.
Crash(w) ==
  /\ pc[w] # "idle" /\ faults < MaxFaults
  /\ pc' = [pc EXCEPT ![w] = "idle"]
  /\ batch' = [batch EXCEPT ![w] = {}]
  /\ cur' = [cur EXCEPT ![w] = NoKey]
  /\ seen' = [seen EXCEPT ![w] = [k \in Key |-> 0]]
  /\ faults' = faults + 1
  /\ UNCHANGED <<rowVars, ran, handedOff>>

-----------------------------------------------------------------------------
WorkerStep(w) ==
  \/ StartEvent(w) \/ HandlerReturns(w) \/ HandlerThrows(w)
  \/ MarkDispatched(w) \/ MarkFailed(w) \/ HandOffFailedWork(w)

TimeStep(k) == LeaseExpires(k) \/ BackoffElapses(k)

Next ==
  \/ \E k \in Key :
       EnqueueOutbox(k) \/ TimeStep(k) \/ LeaseLost(k) \/ ReplayDead(k)
  \/ \E w \in Worker : LeaseDueOutbox(w) \/ WorkerStep(w) \/ Crash(w)

Spec == Init /\ [][Next]_vars

\* The cron starts a run every minute, a run goes on until it ends or dies,
\* and time passes.  Nothing obliges a business fact, a replay or a crash.
FairSpec ==
  /\ Spec
  /\ \A w \in Worker : WF_vars(LeaseDueOutbox(w)) /\ WF_vars(WorkerStep(w))
  /\ \A k \in Key : WF_vars(TimeStep(k))

-----------------------------------------------------------------------------
(* What the outbox promises *)

\* A row is leased exactly while it carries a token, and the worker that holds
\* the token judges its failures on the row's own attempt count: leases lost
\* and taken again in between do not let a row be judged on an old count.
\* (outbox.ts: leaseDueOutbox, markDispatched, markFailed.)
LeaseAccounting ==
  /\ \A k \in Key : state[k] = "leased" <=> token[k] # NoWorker
  /\ \A w \in Worker : \A k \in Held(w) :
       token[k] = w => seen[w][k] = attempts[k]

\* A row back in the queue always has an attempt left: a failure on the last
\* one dead-letters it, however many workers had it in between.
\* (outbox.ts: markFailed, CUSTOMER_WORK_MAX_ATTEMPTS, OUTBOX_MAX_ATTEMPTS.)
PendingWithinBudget ==
  \A k \in Key : state[k] = "pending" => attempts[k] < Budget[k]

\* Every row gets to an end: dispatched, or dead-lettered for a person to see.
\* (functions.ts: the recovery dispatcher; outbox.ts: bounded attempts.)
EveryRowResolves ==
  \A k \in Key :
    state[k] \in {"pending", "leased"} ~> state[k] \in {"dispatched", "dead"}

\* The promise without leases: what a worker that lost its lease does changes
\* no row, a dispatched row was handled and stays dispatched, and only a replay
\* reopens a dead one.
AsJob(s) ==
  CASE s = "absent" -> "absent"
    [] s \in {"pending", "leased"} -> "open"
    [] s = "dispatched" -> "done"
    [] s = "dead" -> "dead"

JobStatus == [k \in Key |-> AsJob(state[k])]

WQ == INSTANCE WorkQueue WITH Job <- Key, status <- JobStatus

ImplementsWorkQueue == WQ!Spec
=============================================================================
