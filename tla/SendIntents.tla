----------------------------- MODULE SendIntents -----------------------------
(***************************************************************************)
(* Outbound email: send intents, the dispatcher's dispatchSend, the        *)
(* provider, and the provider's status webhooks.                           *)
(*                                                                         *)
(* queueSend writes an intent and its outbox job in one transaction.  A    *)
(* worker that leases the job reads the intent, claims it, asks the send   *)
(* gate, submits it under the intent's idempotency key and records the     *)
(* answer; every one of these is a separate database statement or call, so *)
(* workers, stops, opt-outs, webhooks and crashes come between them.  The  *)
(* job's own rules are those of module Outbox, kept here as one lease per  *)
(* job.                                                                    *)
(*                                                                         *)
(* Time counts in ticks of hours.  A dispatch lasts minutes, so time moves *)
(* only between dispatches, and a claim's claimedAt is its provider call's *)
(* time.  An intent that is "uncertain" has no submitted_at, which only    *)
(* recordProviderAccepted sets, so its age is counted from claimedAt.      *)
(*                                                                         *)
(* A claim token is fresh per claim and compared only with the worker's    *)
(* own, so the worker's name stands for it.                                *)
(***************************************************************************)
EXTENDS Integers, FiniteSets

CONSTANTS
  Intent,       \* send intents (dedupe keys) to one recipient
  Worker,       \* concurrent runs of the dispatcher
  Hook,         \* concurrent webhook requests
  NoWorker, NoIntent,
  Window,       \* the provider's idempotency window, in ticks
  Horizon,      \* bound: the last tick
  Budget,       \* attempts before the job is dead-lettered
  MaxFaults     \* bound: crashes, leases lost alive, failed statements

ASSUME SendAssumption ==
  /\ NoWorker \notin Worker
  /\ NoIntent \notin Intent
  /\ Window \in Nat \ {0}
  /\ Horizon \in Nat
  /\ Budget \in Nat \ {0}
  /\ MaxFaults \in Nat

VARIABLES
  \* the send_intents row; pid is provider_message_id, attempts stops at 3
  state, token, claimedAt, attempts, pid,
  \* its outbox row
  job, lease, tries,
  \* each worker: where it is in dispatchSend, its intent, the provider's answer
  pc, cur, ans,
  \* the provider: mails sent under the key, the time of the last one
  mails, acceptedAt,
  \* each webhook request that has read a row and not yet written it
  hook,
  \* the recipient is suppressed for this kind of mail; the time
  suppressed, now,
  \* history: what the test mode captured, the faults so far, and the number of
  \* mails of each intent the recipient may still have got when the address was
  \* suppressed
  captured, faults, last

rowVars == <<state, token, claimedAt, attempts, pid>>
jobVars == <<job, lease, tries>>
workerVars == <<pc, cur, ans>>
providerVars == <<mails, acceptedAt>>
vars == <<rowVars, jobVars, workerVars, providerVars, hook, suppressed, last, now,
          captured, faults>>

\* The provider's id for a mail is its number; a captured send has one of ours.
NoId == 0
Captured == -1

Status == {"delayed", "delivered", "bounced", "complained", "failed"}
Open == {"queued", "claimed", "uncertain"}
Stopped == {"blocked", "suppressed"}
Filed == {"provider_accepted"} \cup Status
Sending == {"gating", "submitting", "answered", "failed"}

NoHook == [i |-> NoIntent, status |-> "failed", saw |-> "none"]

TypeOK ==
  /\ state \in [Intent -> {"none"} \cup Open \cup Stopped \cup Filed]
  /\ token \in [Intent -> Worker \cup {NoWorker}]
  /\ claimedAt \in [Intent -> 0 .. Horizon]
  /\ attempts \in [Intent -> 0 .. 3]
  /\ pid \in [Intent -> Nat \cup {Captured}]
  /\ job \in [Intent -> {"none", "open", "done", "dead"}]
  /\ lease \in [Intent -> Worker \cup {NoWorker}]
  /\ tries \in [Intent -> 0 .. Budget]
  /\ pc \in [Worker -> {"idle", "taken", "requeue", "claim", "returned", "threw"}
                       \cup Sending]
  /\ cur \in [Worker -> Intent \cup {NoIntent}]
  /\ ans \in [Worker -> Nat \cup {Captured}]
  /\ mails \in [Intent -> Nat]
  /\ acceptedAt \in [Intent -> 0 .. Horizon]
  /\ hook \in [Hook -> {NoHook} \cup
                       [i : Intent, status : Status, saw : Filed]]
  /\ suppressed \in BOOLEAN
  /\ now \in 0 .. Horizon
  /\ captured \subseteq Intent
  /\ faults \in 0 .. MaxFaults
  /\ last \in [Intent -> Nat]

Init ==
  /\ state = [i \in Intent |-> "none"]
  /\ token = [i \in Intent |-> NoWorker]
  /\ claimedAt = [i \in Intent |-> 0]
  /\ attempts = [i \in Intent |-> 0]
  /\ pid = [i \in Intent |-> NoId]
  /\ job = [i \in Intent |-> "none"]
  /\ lease = [i \in Intent |-> NoWorker]
  /\ tries = [i \in Intent |-> 0]
  /\ pc = [w \in Worker |-> "idle"]
  /\ cur = [w \in Worker |-> NoIntent]
  /\ ans = [w \in Worker |-> NoId]
  /\ mails = [i \in Intent |-> 0]
  /\ acceptedAt = [i \in Intent |-> 0]
  /\ hook = [h \in Hook |-> NoHook]
  /\ suppressed = FALSE
  /\ now = 0
  /\ captured = {}
  /\ faults = 0
  /\ last = [i \in Intent |-> 0]

-----------------------------------------------------------------------------
(* Queueing, stopping, and the job *)

\* queueSend, its last transaction: the intent and its job, once per dedupe key.
QueueSend(i) ==
  /\ state[i] = "none"
  /\ state' = [state EXCEPT ![i] = "queued"]
  /\ job' = [job EXCEPT ![i] = "open"]
  /\ UNCHANGED <<token, claimedAt, attempts, pid, lease, tries, workerVars,
                 providerVars, hook, suppressed, last, now, captured, faults>>

\* invalidateForRevision and stopWatchAlerts block what is still queued.
StopQueued(i) ==
  /\ state[i] = "queued"
  /\ state' = [state EXCEPT ![i] = "blocked"]
  /\ UNCHANGED <<token, claimedAt, attempts, pid, jobVars, workerVars,
                 providerVars, hook, suppressed, last, now, captured, faults>>

Submitting(i) == \E w \in Worker : pc[w] = "submitting" /\ cur[w] = i

\* addSuppression: the address is suppressed from here on.  A dispatch that has
\* passed the gate by now may still make its mail.
AddSuppression ==
  /\ suppressed' = TRUE
  /\ last' = IF suppressed THEN last
             ELSE [i \in Intent |-> mails[i] + IF Submitting(i) THEN 1 ELSE 0]

\* A verified deletion: one transaction blocks the contact's queued and
\* uncertain mail and suppresses the address.
DeleteContact ==
  /\ ~suppressed
  /\ state' = [i \in Intent |->
                 IF state[i] \in {"queued", "uncertain"} THEN "blocked" ELSE state[i]]
  /\ AddSuppression
  /\ UNCHANGED <<token, claimedAt, attempts, pid, jobVars, workerVars,
                 providerVars, hook, now, captured, faults>>

\* addSuppression outside a deletion: the customer writes "stop all emails".
OptOut ==
  /\ ~suppressed
  /\ AddSuppression
  /\ UNCHANGED <<rowVars, jobVars, workerVars, providerVars, hook, now,
                 captured, faults>>

LiveHolder(i) == \E v \in Worker : pc[v] # "idle" /\ cur[v] = i /\ lease[i] = v

LeaseJob(w, i) ==
  /\ pc[w] = "idle"
  /\ job[i] = "open"
  /\ lease' = [lease EXCEPT ![i] = w]
  /\ tries' = [tries EXCEPT ![i] = IF @ < Budget THEN @ + 1 ELSE @]
  /\ pc' = [pc EXCEPT ![w] = "taken"]
  /\ cur' = [cur EXCEPT ![w] = i]
  /\ UNCHANGED <<rowVars, job, ans, providerVars, hook, suppressed, last, now,
                 captured>>

\* leaseDueOutbox takes a due job, or one whose holder is dead.
TakeJob(w, i) == ~LiveHolder(i) /\ LeaseJob(w, i) /\ UNCHANGED faults

\* leaseDueOutbox takes a job whose holder is only slow: its lease ran out.
TakeOver(w, i) ==
  /\ LiveHolder(i)
  /\ faults < MaxFaults
  /\ faults' = faults + 1
  /\ LeaseJob(w, i)

ReplayDead(i) ==
  /\ job[i] = "dead"
  /\ job' = [job EXCEPT ![i] = "open"]
  /\ tries' = [tries EXCEPT ![i] = 0]
  /\ UNCHANGED <<rowVars, lease, workerVars, providerVars, hook, suppressed, last,
                 now, captured, faults>>

-----------------------------------------------------------------------------
(* dispatchSend *)

Goto(w, label) == pc' = [pc EXCEPT ![w] = label]

\* What no step of dispatchSend touches.
Elsewhere == <<job, lease, tries, cur, hook, suppressed, last, now>>

\* Faulty variant of RetrySameKey: the boundary belongs to the window.
FaultyRetryAtBoundary(i) == now - claimedAt[i] <= Window

\* uncertainRetryDecision, counted from the last claim.
RetrySameKey(i) == now - claimedAt[i] < Window

\* The first read of the row.  An uncertain send too old to retry is left for a
\* person ("manual_reconciliation").
ReadIntent(w) ==
  /\ pc[w] = "taken"
  /\ Goto(w, IF state[cur[w]] # "uncertain" THEN "claim"
             ELSE IF RetrySameKey(cur[w]) THEN "requeue" ELSE "returned")
  /\ UNCHANGED <<rowVars, ans, providerVars, captured, faults, Elsewhere>>

RequeueUncertain(w) ==
  /\ pc[w] = "requeue"
  /\ state' = [state EXCEPT ![cur[w]] = IF @ = "uncertain" THEN "queued" ELSE @]
  /\ Goto(w, "claim")
  /\ UNCHANGED <<token, claimedAt, attempts, pid, ans, providerVars, captured,
                 faults, Elsewhere>>

\* Faulty variant of ClaimSendIntent: a claimed intent can be claimed again.
FaultyClaimTwice(w) ==
  /\ pc[w] = "claim"
  /\ state[cur[w]] \in {"queued", "claimed"}
  /\ state' = [state EXCEPT ![cur[w]] = "claimed"]
  /\ token' = [token EXCEPT ![cur[w]] = w]
  /\ Goto(w, "gating")
  /\ UNCHANGED <<claimedAt, attempts, pid, ans, providerVars, captured, faults,
                 Elsewhere>>

\* Faulty variant of ClaimSendIntent: a send that was claimed before has passed the
\* gate already.
FaultyClaimSkipsGate(w) ==
  /\ pc[w] = "claim"
  /\ LET i == cur[w] IN
       IF state[i] = "queued"
         THEN /\ state' = [state EXCEPT ![i] = "claimed"]
              /\ token' = [token EXCEPT ![i] = w]
              /\ claimedAt' = [claimedAt EXCEPT ![i] = now]
              /\ attempts' = [attempts EXCEPT ![i] = IF @ < 3 THEN @ + 1 ELSE 3]
              /\ Goto(w, IF attempts[i] > 0 THEN "submitting" ELSE "gating")
         ELSE Goto(w, "returned") /\ UNCHANGED <<state, token, claimedAt, attempts>>
  /\ UNCHANGED <<pid, ans, providerVars, captured, faults, Elsewhere>>

\* claimSendIntent: only a queued intent is claimed; for any other the dispatch
\* returns "already_handled".
ClaimSendIntent(w) ==
  /\ pc[w] = "claim"
  /\ LET i == cur[w] IN
       IF state[i] = "queued"
         THEN /\ state' = [state EXCEPT ![i] = "claimed"]
              /\ token' = [token EXCEPT ![i] = w]
              /\ claimedAt' = [claimedAt EXCEPT ![i] = now]
              /\ attempts' = [attempts EXCEPT ![i] = IF @ < 3 THEN @ + 1 ELSE 3]
              /\ Goto(w, "gating")
         ELSE Goto(w, "returned") /\ UNCHANGED <<state, token, claimedAt, attempts>>
  /\ UNCHANGED <<pid, ans, providerVars, captured, faults, Elsewhere>>

\* Faulty variant of Release: the update goes by the intent's id alone.
FaultyReleaseAny(w, to) ==
  /\ state' = [state EXCEPT ![cur[w]] = to]
  /\ token' = [token EXCEPT ![cur[w]] = NoWorker]

\* releaseClaim
Release(w, to) ==
  LET i == cur[w] IN
    IF token[i] = w
      THEN /\ state' = [state EXCEPT ![i] = to]
           /\ token' = [token EXCEPT ![i] = NoWorker]
      ELSE UNCHANGED <<state, token>>

\* The gate: suppressions are read after the claim.  Its other reasons to stop a
\* send (kill switches, approval, revision, freshness) are left open.
GateStops(w) ==
  /\ pc[w] = "gating"
  /\ \/ Release(w, "blocked")
     \/ suppressed /\ Release(w, "suppressed")
  /\ Goto(w, "returned")
  /\ UNCHANGED <<claimedAt, attempts, pid, ans, providerVars, captured, faults,
                 Elsewhere>>

GateAllows(w) ==
  /\ pc[w] = "gating"
  /\ ~suppressed
  /\ Goto(w, "submitting")
  /\ UNCHANGED <<rowVars, ans, providerVars, captured, faults, Elsewhere>>

\* Test mode records the send instead of making it.
CaptureSend(w) ==
  /\ pc[w] = "submitting"
  /\ captured' = captured \cup {cur[w]}
  /\ ans' = [ans EXCEPT ![w] = Captured]
  /\ Goto(w, "answered")
  /\ UNCHANGED <<rowVars, providerVars, faults, Elsewhere>>

\* The provider sends a mail unless it took one under this key in the window.
\* Its answer, which names the mail, may be lost.
ProviderAccepts(w) ==
  /\ pc[w] = "submitting"
  /\ LET i == cur[w]
         known == mails[i] > 0 /\ now - acceptedAt[i] < Window
         id == IF known THEN mails[i] ELSE mails[i] + 1
     IN /\ mails' = [mails EXCEPT ![i] = id]
        /\ acceptedAt' = IF known THEN acceptedAt
                         ELSE [acceptedAt EXCEPT ![i] = now]
        /\ \/ Goto(w, "answered") /\ ans' = [ans EXCEPT ![w] = id]
           \/ Goto(w, "failed") /\ UNCHANGED ans
  /\ UNCHANGED <<rowVars, captured, faults, Elsewhere>>

ProviderRefuses(w) ==
  /\ pc[w] = "submitting"
  /\ Goto(w, "failed")
  /\ UNCHANGED <<rowVars, ans, providerVars, captured, faults, Elsewhere>>

\* Faulty variant of RecordProviderAccepted: the id is recorded, the state is not.
FaultyRecordIdOnly(w) ==
  /\ pc[w] = "answered"
  /\ pid' = [pid EXCEPT ![cur[w]] = ans[w]]
  /\ Goto(w, "returned")
  /\ UNCHANGED <<state, token, claimedAt, attempts, ans, providerVars, captured,
                 faults, Elsewhere>>

\* recordProviderAccepted, then the message and the request's own records: an
\* error in those, or a commit whose answer is lost, ends in the catch block.
RecordProviderAccepted(w) ==
  /\ pc[w] = "answered"
  /\ LET i == cur[w] IN
       IF token[i] \in {w, NoWorker}
         THEN /\ pid' = [pid EXCEPT ![i] = ans[w]]
              /\ token' = [token EXCEPT ![i] = NoWorker]
              /\ state' = [state EXCEPT ![i] =
                   IF @ \in {"delivered", "bounced", "complained"}
                     THEN @ ELSE "provider_accepted"]
         ELSE UNCHANGED <<pid, token, state>>
  /\ \E label \in {"returned", "failed"} : Goto(w, label)
  /\ UNCHANGED <<claimedAt, attempts, ans, providerVars, captured, faults,
                 Elsewhere>>

RecordFails(w) ==
  /\ pc[w] = "answered"
  /\ Goto(w, "failed")
  /\ UNCHANGED <<rowVars, ans, providerVars, captured, faults, Elsewhere>>

\* The catch block: the provider may have accepted, and the dispatch returns.
ReleaseUncertain(w) ==
  /\ pc[w] = "failed"
  /\ Release(w, "uncertain")
  /\ Goto(w, "returned")
  /\ UNCHANGED <<claimedAt, attempts, pid, ans, providerVars, captured, faults,
                 Elsewhere>>

\* A statement outside the try block fails, or the catch block's own does, or
\* markDispatched: the error leaves dispatchSend.
DispatchThrows(w) ==
  /\ pc[w] \in {"taken", "requeue", "claim", "gating", "failed", "returned"}
  /\ faults < MaxFaults
  /\ faults' = faults + 1
  /\ Goto(w, "threw")
  /\ UNCHANGED <<rowVars, ans, providerVars, captured, Elsewhere>>

EndDispatch(w) ==
  /\ Goto(w, "idle")
  /\ cur' = [cur EXCEPT ![w] = NoIntent]
  /\ ans' = [ans EXCEPT ![w] = NoId]
  /\ UNCHANGED <<rowVars, tries, providerVars, hook, suppressed, last, now,
                 captured>>

EndJob(w, to) ==
  IF lease[cur[w]] = w
    THEN /\ job' = [job EXCEPT ![cur[w]] = to]
         /\ lease' = [lease EXCEPT ![cur[w]] = NoWorker]
    ELSE UNCHANGED <<job, lease>>

MarkDispatched(w) ==
  /\ pc[w] = "returned"
  /\ EndJob(w, "done")
  /\ EndDispatch(w)
  /\ UNCHANGED faults

\* Faulty variant of MarkFailed: a failed dispatch is not tried again.
FaultyMarkFailedDone(w) ==
  /\ pc[w] = "threw"
  /\ EndJob(w, "done")
  /\ EndDispatch(w)
  /\ UNCHANGED faults

MarkFailed(w) ==
  /\ pc[w] = "threw"
  /\ EndJob(w, IF tries[cur[w]] >= Budget THEN "dead" ELSE "open")
  /\ EndDispatch(w)
  /\ UNCHANGED faults

Crash(w) ==
  /\ pc[w] # "idle" /\ faults < MaxFaults
  /\ faults' = faults + 1
  /\ EndDispatch(w)
  /\ UNCHANGED <<job, lease>>

-----------------------------------------------------------------------------
(* The provider's webhooks *)

\* Faulty variant of Rank: a delivery counts for more than a bounce.
FaultyRank(s) ==
  CASE s = "claimed" -> 1 [] s = "provider_accepted" -> 2 [] s = "delayed" -> 3
    [] s = "bounced" -> 4 [] s = "delivered" -> 5 [] s = "complained" -> 6
    [] OTHER -> 0

\* TERMINAL_RANK, 0 for the states it does not name.
Rank(s) ==
  CASE s = "claimed" -> 1 [] s = "provider_accepted" -> 2 [] s = "delayed" -> 3
    [] s = "delivered" -> 4 [] s = "bounced" -> 5 [] s = "complained" -> 6
    [] OTHER -> 0

\* A complaint or a hard bounce suppresses the address in the same transaction.
Suppress(s) ==
  \/ s \in {"bounced", "complained"} /\ AddSuppression
  \/ s # "complained" /\ UNCHANGED <<suppressed, last>>

\* applyProviderStatus, its read.  An id no intent has yet is an unknown message:
\* the webhook ends there, with its suppression.
WebhookRead(h, i, n, s) ==
  /\ hook[h] = NoHook
  /\ IF pid[i] = n
       THEN /\ hook' = [hook EXCEPT ![h] = [i |-> i, status |-> s, saw |-> state[i]]]
            /\ UNCHANGED <<suppressed, last>>
       ELSE Suppress(s) /\ UNCHANGED hook
  /\ UNCHANGED <<rowVars, jobVars, workerVars, providerVars, now, captured,
                 faults>>

\* ... and its write, judged on the state it read, with the commit.
WebhookWrite(h) ==
  /\ hook[h] # NoHook
  /\ LET e == hook[h]
         ignored == e.status # "failed" /\ Rank(e.status) < Rank(e.saw)
     IN /\ state' = [state EXCEPT ![e.i] = IF ignored THEN @ ELSE e.status]
        /\ Suppress(e.status)
  /\ hook' = [hook EXCEPT ![h] = NoHook]
  /\ UNCHANGED <<token, claimedAt, attempts, pid, jobVars, workerVars,
                 providerVars, now, captured, faults>>

\* A webhook request that dies before its commit; the provider sends it again.
WebhookAborts(h) ==
  /\ hook[h] # NoHook
  /\ hook' = [hook EXCEPT ![h] = NoHook]
  /\ UNCHANGED <<rowVars, jobVars, workerVars, providerVars, suppressed, last, now,
                 captured, faults>>

\* Hours pass; no dispatch lasts that long.
Tick ==
  /\ now < Horizon
  /\ \A w \in Worker : pc[w] = "idle"
  /\ now' = now + 1
  /\ UNCHANGED <<rowVars, jobVars, workerVars, providerVars, hook, suppressed, last,
                 captured, faults>>

-----------------------------------------------------------------------------
DispatchStep(w) ==
  \/ ReadIntent(w) \/ RequeueUncertain(w) \/ ClaimSendIntent(w)
  \/ GateStops(w) \/ GateAllows(w)
  \/ CaptureSend(w) \/ ProviderAccepts(w) \/ ProviderRefuses(w)
  \/ RecordProviderAccepted(w) \/ RecordFails(w) \/ ReleaseUncertain(w)
  \/ DispatchThrows(w) \/ MarkDispatched(w) \/ MarkFailed(w)

WebhookStep(h) ==
  \/ \E i \in Intent, s \in Status :
       \E n \in 1 .. mails[i] : WebhookRead(h, i, n, s)
  \/ WebhookWrite(h) \/ WebhookAborts(h)

Next ==
  \/ \E i \in Intent : QueueSend(i) \/ StopQueued(i) \/ ReplayDead(i)
  \/ \E w \in Worker, i \in Intent : TakeJob(w, i) \/ TakeOver(w, i)
  \/ \E w \in Worker : DispatchStep(w) \/ Crash(w)
  \/ \E h \in Hook : WebhookStep(h)
  \/ DeleteContact \/ OptOut \/ Tick

Spec == Init /\ [][Next]_vars

\* The cron takes due jobs every minute and a dispatch goes on until it ends or
\* its process dies.  Nothing obliges customers, staff, webhooks or the clock.
FairSpec ==
  /\ Spec
  /\ \A w \in Worker :
       WF_vars(DispatchStep(w)) /\ \A i \in Intent : WF_vars(TakeJob(w, i))

-----------------------------------------------------------------------------
(* What outbound email promises *)

\* Two workers are never past the claim of the same intent, whatever leases were
\* lost, workers killed and uncertain intents requeued in between.
\* (send-intents.ts claimSendIntent: "only one worker may submit a given intent".)
OneSubmitter ==
  \A v, w \in Worker :
    pc[v] \in Sending /\ pc[w] \in Sending /\ cur[v] = cur[w] => v = w

\* The first retry of an uncertain send is prepared only while the provider still
\* remembers the mail it took: the age counted from the claim stands for the age
\* of the acceptance.  (send-intents.ts uncertainRetryDecision, A17.)
FirstRetryInWindow ==
  [][\A i \in Intent :
       /\ state[i] = "uncertain" /\ state'[i] = "queued"
       /\ attempts[i] = 1 /\ mails[i] = 1
       => now - acceptedAt[i] < Window]_vars

\* Nobody is mailed after an opt-out, a complaint or a deletion, but for the one
\* mail of an intent that had passed the gate by then: no retry of an uncertain
\* send, no replay, no second dispatcher and no requeued claim makes another,
\* however long the intent stays open.
\* (dispatchSend loads the suppressions after its claim; send-gate.ts.)
SuppressedGetsNoMore == suppressed => \A i \in Intent : mails[i] <= last[i]

\* What a step does to the record of a bounce or a complaint.
KeepsBounce(i) ==
  /\ state[i] = "bounced" => state'[i] \in {"bounced", "complained", "failed"}
  /\ state[i] = "complained" => state'[i] \in {"complained", "failed"}

\* A webhook request for i that is about to write and judges by a state the intent
\* no longer has.
Stale(h, i) == hook[h] # NoHook /\ hook[h].i = i /\ hook[h].saw # state[i]

\* A bounce or a complaint leaves the record only by a "failed" event, or in the
\* write of a webhook request that read the row before the bounce came: no
\* requeue, retry, late answer or weaker event erases it otherwise.  The second
\* case is true of the code and against its comment: applyProviderStatus reads
\* the state in one statement and writes by id in another, with no lock.
\* (send-intents.ts:81 "out-of-order events must not erase a bounce or complaint".)
OnlyRacesEraseABounce ==
  [][\A i \in Intent :
       KeepsBounce(i) \/ \E h \in Hook : Stale(h, i) /\ hook'[h] = NoHook]_vars

\* An email does not wait in the queue for ever: it is claimed or stopped, or its
\* job is dead-lettered for staff to replay.
\* (functions.ts dispatchOutbox, claimSendIntent.)
EveryEmailLeavesQueue ==
  \A i \in Intent :
    state[i] = "queued" ~> state[i] # "queued" \/ job[i] = "dead"

\* The promise without claims and retries (module Letter): mail goes out only for
\* an open letter, a stopped letter stays stopped, a sent one stays sent and was
\* mailed or captured.
AsFate(s) ==
  CASE s = "none" -> "none"
    [] s \in Open -> "open"
    [] s \in Stopped -> "stopped"
    [] s \in Filed -> "sent"

Fate == [i \in Intent |-> AsFate(state[i])]

L == INSTANCE Letter WITH fate <- Fate, copies <- mails

ImplementsLetter == L!Spec
=============================================================================
