------------------------- MODULE SendIntents_proofs -------------------------
(***************************************************************************)
(* Proofs about module SendIntents, for every set of intents, workers and  *)
(* webhook requests, every window and every number of faults.              *)
(*                                                                         *)
(* The inductive invariant has four parts.  Claims: a worker between its   *)
(* claim and its answer holds the intent's token, so nobody else is there; *)
(* an intent with a token is claimed.  Answers: an intent has a provider   *)
(* id exactly when it is filed as sent, and then a copy was mailed or      *)
(* captured.  Ages: while there was one attempt, claimedAt is the time the *)
(* provider took the mail, and a worker about to requeue has compared it.  *)
(* Silence: an intent that is being submitted to a suppressed address has  *)
(* one mail left of what was under way at the opt-out.                     *)
(***************************************************************************)
EXTENDS SendIntents, TLAPS

Busy == \A w \in Worker : pc[w] # "idle" => cur[w] \in Intent

Claims ==
  /\ \A i \in Intent : token[i] # NoWorker => state[i] = "claimed"
  /\ \A w \in Worker :
       pc[w] \in {"gating", "submitting", "answered"} =>
         state[cur[w]] = "claimed" /\ token[cur[w]] = w
  /\ \A w \in Worker :
       pc[w] = "failed" =>
         \/ state[cur[w]] = "claimed" /\ token[cur[w]] = w
         \/ state[cur[w]] \in Filed
  /\ OneSubmitter

Answers ==
  /\ \A w \in Worker :
       pc[w] = "answered" =>
         ans[w] # NoId /\ (mails[cur[w]] > 0 \/ cur[w] \in captured)
  /\ \A i \in Intent : pid[i] # NoId <=> state[i] \in Filed
  /\ \A i \in Intent : state[i] \in Filed => mails[i] > 0 \/ i \in captured
  /\ \A h \in Hook : hook[h] # NoHook => state[hook[h].i] \in Filed

Ages ==
  /\ \A i \in Intent : attempts[i] = 0 => mails[i] = 0
  /\ \A i \in Intent : state[i] \in {"claimed", "uncertain"} => attempts[i] # 0
  /\ \A i \in Intent : attempts[i] = 1 /\ mails[i] = 1 => acceptedAt[i] = claimedAt[i]
  /\ \A w \in Worker : pc[w] \in {"gating", "submitting"} => claimedAt[cur[w]] = now
  /\ \A w \in Worker :
       pc[w] = "requeue" =>
         attempts[cur[w]] # 0 /\ (attempts[cur[w]] = 1 => RetrySameKey(cur[w]))

Silence ==
  suppressed => \A i \in Intent : mails[i] + (IF Submitting(i) THEN 1 ELSE 0) <= last[i]

SInv == TypeOK /\ Busy /\ Claims /\ Answers /\ Ages /\ Silence

THEOREM SInvInit == Init => SInv
<1> SUFFICES ASSUME Init PROVE SInv
  OBVIOUS
<1> USE SendAssumption DEF Init
<1>1. TypeOK
  <2>1. hook \in [Hook -> {NoHook} \cup [i : Intent, status : Status, saw : Filed]]
    BY Zenon
  <2>2. /\ state \in [Intent -> {"none"} \cup Open \cup Stopped \cup Filed]
        /\ pc \in [Worker -> {"idle", "taken", "requeue", "claim", "returned",
                              "threw"} \cup Sending]
    OBVIOUS
  <2>3. pid \in [Intent -> Nat \cup {Captured}] /\ ans \in [Worker -> Nat \cup {Captured}]
    BY DEF NoId
  <2>4. /\ token \in [Intent -> Worker \cup {NoWorker}]
        /\ job \in [Intent -> {"none", "open", "done", "dead"}]
        /\ lease \in [Intent -> Worker \cup {NoWorker}]
        /\ cur \in [Worker -> Intent \cup {NoIntent}]
        /\ suppressed \in BOOLEAN /\ captured \subseteq Intent
    OBVIOUS
  <2>5. /\ claimedAt \in [Intent -> 0 .. Horizon]
        /\ attempts \in [Intent -> 0 .. 3]
        /\ tries \in [Intent -> 0 .. Budget]
        /\ mails \in [Intent -> Nat]
        /\ acceptedAt \in [Intent -> 0 .. Horizon]
        /\ now \in 0 .. Horizon /\ faults \in 0 .. MaxFaults
        /\ last \in [Intent -> Nat]
    OBVIOUS
  <2> HIDE DEF Init
  <2> QED BY <2>1, <2>2, <2>3, <2>4, <2>5 DEF TypeOK
<1>2. Busy /\ Claims
  BY DEF Busy, Claims, OneSubmitter, Sending
<1>3. Answers
  BY DEF Answers, NoId, Filed, Status
<1>4. Ages
  BY DEF Ages
<1>5. Silence
  BY DEF Silence
<1> QED BY <1>1, <1>2, <1>3, <1>4, <1>5 DEF SInv

-----------------------------------------------------------------------------
(* Type correctness *)

LEMMA NewLastType ==
  ASSUME mails \in [Intent -> Nat], last \in [Intent -> Nat], AddSuppression
  PROVE  suppressed' = TRUE /\ last' \in [Intent -> Nat]
BY DEF AddSuppression

LEMMA TypeStep ==
  ASSUME TypeOK, Busy, Answers, [Next]_vars
  PROVE  TypeOK'
<1> USE SendAssumption
    DEF TypeOK, Open, Stopped, Filed, Sending, Status, NoId, Captured, rowVars,
        jobVars, workerVars, providerVars, Elsewhere, Goto
<1>1. CASE UNCHANGED vars
  BY <1>1 DEF vars
<1>2. ASSUME NEW i \in Intent, QueueSend(i) \/ StopQueued(i) \/ ReplayDead(i)
      PROVE  TypeOK'
  BY <1>2 DEF QueueSend, StopQueued, ReplayDead
<1>3. ASSUME NEW w \in Worker, NEW i \in Intent, TakeJob(w, i) \/ TakeOver(w, i)
      PROVE  TypeOK'
  <2>1. LeaseJob(w, i) /\ faults' \in 0 .. MaxFaults
    BY <1>3 DEF TakeJob, TakeOver
  <2> QED BY <2>1 DEF LeaseJob
<1>4. ASSUME NEW w \in Worker, DispatchStep(w) PROVE TypeOK'
  <2>0. pc[w] # "idle" => cur[w] \in Intent
    BY DEF Busy
  <2>1. CASE ReadIntent(w)
    BY <2>1 DEF ReadIntent
  <2>2. CASE RequeueUncertain(w)
    BY <2>0, <2>2 DEF RequeueUncertain
  <2>3. CASE ClaimSendIntent(w)
    <3>1. CASE state[cur[w]] = "queued"
      BY <2>0, <2>3, <3>1 DEF ClaimSendIntent
    <3>2. CASE state[cur[w]] # "queued"
      BY <2>3, <3>2 DEF ClaimSendIntent
    <3> QED BY <3>1, <3>2
  <2>4. CASE GateStops(w)
    BY <2>0, <2>4 DEF GateStops, Release
  <2>5. CASE GateAllows(w)
    BY <2>5 DEF GateAllows
  <2>6. CASE CaptureSend(w)
    BY <2>0, <2>6 DEF CaptureSend
  <2>7. CASE ProviderAccepts(w)
    BY <2>0, <2>7 DEF ProviderAccepts
  <2>8. CASE ProviderRefuses(w)
    BY <2>8 DEF ProviderRefuses
  <2>9. CASE RecordProviderAccepted(w)
    BY <2>0, <2>9 DEF RecordProviderAccepted
  <2>10. CASE RecordFails(w)
    BY <2>10 DEF RecordFails
  <2>11. CASE ReleaseUncertain(w)
    BY <2>0, <2>11 DEF ReleaseUncertain, Release
  <2>12. CASE DispatchThrows(w)
    BY <2>12 DEF DispatchThrows
  <2>13. CASE MarkDispatched(w)
    BY <2>0, <2>13 DEF MarkDispatched, EndJob, EndDispatch
  <2>14. CASE MarkFailed(w)
    BY <2>0, <2>14 DEF MarkFailed, EndJob, EndDispatch
  <2> QED BY <1>4, <2>1, <2>2, <2>3, <2>4, <2>5, <2>6, <2>7, <2>8, <2>9, <2>10,
             <2>11, <2>12, <2>13, <2>14 DEF DispatchStep
<1>5. ASSUME NEW w \in Worker, Crash(w) PROVE TypeOK'
  BY <1>5 DEF Crash, EndDispatch
<1>6. ASSUME NEW h \in Hook, WebhookStep(h) PROVE TypeOK'
  <2>1. ASSUME NEW i \in Intent, NEW s \in Status, NEW n \in 1 .. mails[i],
               WebhookRead(h, i, n, s)
        PROVE  TypeOK'
    <3>1. CASE pid[i] = n
      <4>1. state[i] \in Filed
        BY <2>1, <3>1 DEF Answers
      <4>2. [i |-> i, status |-> s, saw |-> state[i]]
              \in [i : Intent, status : Status, saw : Filed]
        BY <4>1
      <4> QED BY <2>1, <3>1, <4>2 DEF WebhookRead
    <3>2. CASE pid[i] # n
      BY <2>1, <3>2, NewLastType DEF WebhookRead, Suppress
    <3> QED BY <3>1, <3>2
  <2>2. CASE WebhookWrite(h)
    BY <2>2, NewLastType DEF WebhookWrite, Suppress, NoHook
  <2>3. CASE WebhookAborts(h)
    BY <2>3 DEF WebhookAborts
  <2> QED BY <1>6, <2>1, <2>2, <2>3 DEF WebhookStep
<1>7. CASE DeleteContact
  BY <1>7, NewLastType DEF DeleteContact
<1>8. CASE OptOut
  BY <1>8, NewLastType DEF OptOut
<1>9. CASE Tick
  BY <1>9 DEF Tick
<1> QED BY <1>1, <1>2, <1>3, <1>4, <1>5, <1>6, <1>7, <1>8, <1>9 DEF Next

LEMMA BusyStep ==
  ASSUME TypeOK, Busy, [Next]_vars
  PROVE  Busy'
<1> USE DEF TypeOK, Busy, rowVars, jobVars, workerVars, providerVars, Elsewhere, Goto
<1>1. CASE UNCHANGED <<pc, cur>>
  BY <1>1
<1>2. ASSUME NEW w \in Worker, NEW i \in Intent, LeaseJob(w, i) PROVE Busy'
  BY <1>2 DEF LeaseJob
<1>3. ASSUME NEW w \in Worker, DispatchStep(w) \/ Crash(w) PROVE Busy'
  <2>1. CASE \/ ReadIntent(w) \/ RequeueUncertain(w) \/ ClaimSendIntent(w)
             \/ GateStops(w) \/ GateAllows(w) \/ CaptureSend(w)
             \/ ProviderAccepts(w) \/ ProviderRefuses(w)
             \/ RecordProviderAccepted(w) \/ RecordFails(w)
             \/ ReleaseUncertain(w) \/ DispatchThrows(w)
    <3>1. pc[w] # "idle" /\ UNCHANGED cur
      BY <2>1 DEF ReadIntent, RequeueUncertain, ClaimSendIntent, GateStops,
         GateAllows, CaptureSend, ProviderAccepts, ProviderRefuses,
         RecordProviderAccepted, RecordFails, ReleaseUncertain, DispatchThrows
    <3>2. \A v \in Worker \ {w} : pc'[v] = pc[v]
      BY <2>1 DEF ReadIntent, RequeueUncertain, ClaimSendIntent, GateStops,
         GateAllows, CaptureSend, ProviderAccepts, ProviderRefuses,
         RecordProviderAccepted, RecordFails, ReleaseUncertain, DispatchThrows
    <3> QED BY <3>1, <3>2
  <2>2. CASE MarkDispatched(w) \/ MarkFailed(w) \/ Crash(w)
    BY <2>2 DEF MarkDispatched, MarkFailed, Crash, EndDispatch
  <2> QED BY <1>3, <2>1, <2>2 DEF DispatchStep
<1>4. CASE \/ \E i \in Intent : QueueSend(i) \/ StopQueued(i) \/ ReplayDead(i)
           \/ DeleteContact \/ OptOut \/ Tick
           \/ \E h \in Hook : WebhookStep(h)
  <2>1. UNCHANGED <<pc, cur>>
    BY <1>4 DEF QueueSend, StopQueued, ReplayDead, DeleteContact, OptOut, Tick,
       WebhookStep, WebhookRead, WebhookWrite, WebhookAborts
  <2> QED BY <2>1, <1>1
<1> QED BY <1>1, <1>2, <1>3, <1>4 DEF Next, vars, TakeJob, TakeOver

-----------------------------------------------------------------------------
(* Claims *)

\* A step that moves no worker into the claimed part of dispatchSend, and changes
\* no intent that is claimed or filed, to or from, keeps the claims.
LEMMA ClaimsKept ==
  ASSUME TypeOK, Claims, TypeOK', UNCHANGED token,
         \A v \in Worker :
           pc'[v] \notin Sending \/ (pc'[v] = pc[v] /\ cur'[v] = cur[v]),
         \A v \in Worker : pc[v] \in Sending => cur[v] \in Intent,
         \A i \in Intent :
           \/ state'[i] = state[i]
           \/ state[i] \in Filed /\ state'[i] \in Filed
           \/ state[i] \notin {"claimed"} \cup Filed
  PROVE  Claims'
<1>1. \A i \in Intent : token'[i] # NoWorker => state'[i] = "claimed"
  BY DEF Claims, Filed, Status
<1>2. \A v \in Worker :
        pc'[v] \in {"gating", "submitting", "answered"} =>
          state'[cur'[v]] = "claimed" /\ token'[cur'[v]] = v
  BY DEF Claims, Filed, Status, Sending
<1>3. \A v \in Worker :
        pc'[v] = "failed" =>
          \/ state'[cur'[v]] = "claimed" /\ token'[cur'[v]] = v
          \/ state'[cur'[v]] \in Filed
  BY DEF Claims, Filed, Status, Sending
<1>4. OneSubmitter'
  BY DEF Claims, OneSubmitter
<1> QED BY <1>1, <1>2, <1>3, <1>4 DEF Claims

\* A worker that goes on from one claimed step to the next keeps its claim.
LEMMA ClaimsCarried ==
  ASSUME TypeOK, Claims, TypeOK', NEW w \in Worker, cur[w] \in Intent,
         UNCHANGED <<state, token, cur>>,
         pc[w] \in {"gating", "submitting", "answered"},
         \A v \in Worker \ {w} : pc'[v] = pc[v]
  PROVE  Claims'
<1>1. \A v \in Worker :
        pc'[v] \in {"gating", "submitting", "answered"} =>
          state'[cur'[v]] = "claimed" /\ token'[cur'[v]] = v
  BY DEF Claims
<1>2. \A v \in Worker :
        pc'[v] = "failed" =>
          \/ state'[cur'[v]] = "claimed" /\ token'[cur'[v]] = v
          \/ state'[cur'[v]] \in Filed
  BY DEF Claims
<1>3. \A v \in Worker : pc'[v] \in Sending => pc[v] \in Sending
  BY DEF Sending
<1>4. OneSubmitter'
  BY <1>3 DEF Claims, OneSubmitter
<1> QED BY <1>1, <1>2, <1>4 DEF Claims

LEMMA ClaimsDispatch ==
  ASSUME TypeOK, Busy, Claims, TypeOK', NEW w \in Worker, DispatchStep(w)
  PROVE  Claims'
<1> USE SendAssumption DEF TypeOK, rowVars, workerVars, providerVars, Elsewhere, Goto
<1>0. (pc[w] # "idle" => cur[w] \in Intent)
      /\ \A v \in Worker : pc[v] \in Sending => cur[v] \in Intent
  BY DEF Busy, Sending
<1>1. CASE ReadIntent(w) \/ DispatchThrows(w)
  <2>1. UNCHANGED <<state, token>> /\ \A v \in Worker :
          pc'[v] \notin Sending \/ (pc'[v] = pc[v] /\ cur'[v] = cur[v])
    BY <1>1 DEF ReadIntent, DispatchThrows, Sending
  <2> QED BY <1>0, <2>1, ClaimsKept
<1>2. CASE RequeueUncertain(w)
  <2>1. \A v \in Worker : pc'[v] \notin Sending \/ (pc'[v] = pc[v] /\ cur'[v] = cur[v])
    BY <1>2 DEF RequeueUncertain, Sending
  <2>2. \A i \in Intent : \/ state'[i] = state[i]
                          \/ state[i] \notin {"claimed"} \cup Filed
    BY <1>0, <1>2 DEF RequeueUncertain, Filed, Status
  <2> QED BY <1>0, <1>2, <2>1, <2>2, ClaimsKept DEF RequeueUncertain
<1>3. CASE ClaimSendIntent(w) /\ state[cur[w]] = "queued"
  <2>1. cur[w] \in Intent /\ pc[w] = "claim"
    BY <1>0, <1>3 DEF ClaimSendIntent
  <2>2. /\ state' = [state EXCEPT ![cur[w]] = "claimed"]
        /\ token' = [token EXCEPT ![cur[w]] = w]
        /\ pc' = [pc EXCEPT ![w] = "gating"]
        /\ cur' = cur
    BY <1>3 DEF ClaimSendIntent
  <2>3. \A v \in Worker : pc[v] \in Sending => cur[v] # cur[w]
    BY <1>3, <2>1 DEF Claims, Sending, Filed, Status
  <2>4. \A i \in Intent : token'[i] # NoWorker => state'[i] = "claimed"
    BY <2>1, <2>2 DEF Claims
  <2>5. \A v \in Worker :
          pc'[v] \in {"gating", "submitting", "answered"} =>
            state'[cur'[v]] = "claimed" /\ token'[cur'[v]] = v
    BY <1>0, <2>1, <2>2, <2>3 DEF Claims, Sending
  <2>6. \A v \in Worker :
          pc'[v] = "failed" =>
            \/ state'[cur'[v]] = "claimed" /\ token'[cur'[v]] = v
            \/ state'[cur'[v]] \in Filed
    BY <1>0, <2>1, <2>2, <2>3 DEF Claims, Sending
  <2>7. OneSubmitter'
    BY <2>1, <2>2, <2>3 DEF Claims, OneSubmitter
  <2> QED BY <2>4, <2>5, <2>6, <2>7 DEF Claims
<1>4. CASE ClaimSendIntent(w) /\ state[cur[w]] # "queued"
  <2>1. UNCHANGED <<state, token>> /\ \A v \in Worker :
          pc'[v] \notin Sending \/ (pc'[v] = pc[v] /\ cur'[v] = cur[v])
    BY <1>4 DEF ClaimSendIntent, Sending
  <2> QED BY <1>0, <2>1, ClaimsKept
<1>5. CASE GateAllows(w) \/ CaptureSend(w) \/ ProviderAccepts(w)
           \/ ProviderRefuses(w) \/ RecordFails(w)
  <2>1. /\ UNCHANGED <<state, token, cur>>
        /\ pc[w] \in {"gating", "submitting", "answered"}
        /\ \A v \in Worker \ {w} : pc'[v] = pc[v]
    BY <1>5 DEF GateAllows, CaptureSend, ProviderAccepts, ProviderRefuses, RecordFails
  <2> QED BY <1>0, <2>1, ClaimsCarried
<1>6. CASE GateStops(w) \/ ReleaseUncertain(w)
  <2>1. PICK to \in {"blocked", "suppressed", "uncertain"} : Release(w, to)
    BY <1>6 DEF GateStops, ReleaseUncertain
  <2>2. /\ pc[w] \in {"gating", "failed"} /\ cur[w] \in Intent
        /\ pc' = [pc EXCEPT ![w] = "returned"] /\ cur' = cur
    BY <1>0, <1>6 DEF GateStops, ReleaseUncertain
  <2>3. CASE token[cur[w]] # w
    <3>1. UNCHANGED <<state, token>>
      BY <2>1, <2>3 DEF Release
    <3>2. \A v \in Worker : pc'[v] \notin Sending \/ (pc'[v] = pc[v] /\ cur'[v] = cur[v])
      BY <2>2 DEF Sending
    <3> QED BY <1>0, <3>1, <3>2, ClaimsKept
  <2>4. CASE token[cur[w]] = w
    <3>1. /\ state' = [state EXCEPT ![cur[w]] = to]
          /\ token' = [token EXCEPT ![cur[w]] = NoWorker]
      BY <2>1, <2>4 DEF Release
    <3>2. \A v \in Worker :
            pc'[v] \in Sending => v # w /\ pc[v] \in Sending /\ cur[v] # cur[w]
      BY <2>2 DEF Claims, OneSubmitter, Sending
    <3>3. \A i \in Intent : token'[i] # NoWorker => state'[i] = "claimed"
      BY <2>2, <3>1 DEF Claims
    <3>4. \A v \in Worker :
            pc'[v] \in {"gating", "submitting", "answered"} =>
              state'[cur'[v]] = "claimed" /\ token'[cur'[v]] = v
      BY <1>0, <2>2, <3>1, <3>2 DEF Claims, Sending
    <3>5. \A v \in Worker :
            pc'[v] = "failed" =>
              \/ state'[cur'[v]] = "claimed" /\ token'[cur'[v]] = v
              \/ state'[cur'[v]] \in Filed
      BY <1>0, <2>2, <3>1, <3>2 DEF Claims, Sending
    <3>6. OneSubmitter'
      BY <2>2, <3>2 DEF Claims, OneSubmitter
    <3> QED BY <3>3, <3>4, <3>5, <3>6 DEF Claims
  <2> QED BY <2>3, <2>4
<1>7. CASE RecordProviderAccepted(w)
  <2>1. /\ pc[w] = "answered" /\ cur[w] \in Intent
        /\ state[cur[w]] = "claimed" /\ token[cur[w]] = w
    BY <1>0, <1>7 DEF RecordProviderAccepted, Claims
  <2>2. PICK label \in {"returned", "failed"} : pc' = [pc EXCEPT ![w] = label]
    BY <1>7 DEF RecordProviderAccepted
  <2>3. /\ state' = [state EXCEPT ![cur[w]] = "provider_accepted"]
        /\ token' = [token EXCEPT ![cur[w]] = NoWorker]
        /\ cur' = cur
    BY <1>7, <2>1 DEF RecordProviderAccepted
  <2>4. \A v \in Worker \ {w} : pc[v] \in Sending => cur[v] # cur[w]
    BY <2>1 DEF Claims, OneSubmitter, Sending
  <2>5. \A i \in Intent : token'[i] # NoWorker => state'[i] = "claimed"
    BY <2>1, <2>3 DEF Claims
  <2>6. \A v \in Worker :
          pc'[v] \in {"gating", "submitting", "answered"} =>
            state'[cur'[v]] = "claimed" /\ token'[cur'[v]] = v
    BY <1>0, <2>1, <2>2, <2>3, <2>4 DEF Claims, Sending
  <2>7. \A v \in Worker :
          pc'[v] = "failed" =>
            \/ state'[cur'[v]] = "claimed" /\ token'[cur'[v]] = v
            \/ state'[cur'[v]] \in Filed
    BY <1>0, <2>1, <2>2, <2>3, <2>4 DEF Claims, Sending, Filed
  <2>8. OneSubmitter'
    BY <2>1, <2>2, <2>3, <2>4 DEF Claims, OneSubmitter, Sending
  <2> QED BY <2>5, <2>6, <2>7, <2>8 DEF Claims
<1>8. CASE MarkDispatched(w) \/ MarkFailed(w)
  <2>1. UNCHANGED <<state, token>> /\ \A v \in Worker :
          pc'[v] \notin Sending \/ (pc'[v] = pc[v] /\ cur'[v] = cur[v])
    BY <1>8 DEF MarkDispatched, MarkFailed, EndDispatch, Sending
  <2> QED BY <1>0, <2>1, ClaimsKept
<1> QED BY <1>1, <1>2, <1>3, <1>4, <1>5, <1>6, <1>7, <1>8 DEF DispatchStep

LEMMA ClaimsStep ==
  ASSUME TypeOK, Busy, Claims, Answers, TypeOK', [Next]_vars
  PROVE  Claims'
<1> USE DEF rowVars, workerVars, providerVars, Elsewhere, Goto
<1>0. \A v \in Worker : pc[v] \in Sending => cur[v] \in Intent
  BY DEF Busy, Sending
<1>1. CASE UNCHANGED <<state, token, pc, cur>>
  BY <1>0, <1>1, ClaimsKept
<1>2. ASSUME NEW i \in Intent, QueueSend(i) \/ StopQueued(i) PROVE Claims'
  <2>1. \A j \in Intent : \/ state'[j] = state[j]
                          \/ state[j] \notin {"claimed"} \cup Filed
    BY <1>2 DEF QueueSend, StopQueued, TypeOK, Filed, Status
  <2>2. UNCHANGED <<token, pc, cur>>
    BY <1>2 DEF QueueSend, StopQueued
  <2> QED BY <1>0, <2>1, <2>2, ClaimsKept
<1>3. ASSUME NEW w \in Worker, NEW i \in Intent, LeaseJob(w, i) PROVE Claims'
  <2>1. \A v \in Worker : pc'[v] \notin Sending \/ (pc'[v] = pc[v] /\ cur'[v] = cur[v])
    BY <1>3 DEF LeaseJob, TypeOK, Sending
  <2>2. UNCHANGED <<state, token>>
    BY <1>3 DEF LeaseJob
  <2> QED BY <1>0, <2>1, <2>2, ClaimsKept
<1>4. ASSUME NEW w \in Worker, DispatchStep(w) PROVE Claims'
  BY <1>4, ClaimsDispatch
<1>5. ASSUME NEW w \in Worker, Crash(w) PROVE Claims'
  <2>1. \A v \in Worker : pc'[v] \notin Sending \/ (pc'[v] = pc[v] /\ cur'[v] = cur[v])
    BY <1>5 DEF Crash, EndDispatch, TypeOK, Sending
  <2>2. UNCHANGED <<state, token>>
    BY <1>5 DEF Crash, EndDispatch
  <2> QED BY <1>0, <2>1, <2>2, ClaimsKept
<1>6. ASSUME NEW h \in Hook, WebhookWrite(h) PROVE Claims'
  <2>0. /\ hook[h].i \in Intent /\ hook[h].status \in Filed
        /\ state[hook[h].i] \in Filed
    <3>1. hook[h] # NoHook
      BY <1>6 DEF WebhookWrite
    <3>2. hook[h] \in [i : Intent, status : Status, saw : Filed]
      BY <3>1, Zenon DEF TypeOK
    <3>3. hook[h].i \in Intent /\ hook[h].status \in Status
      BY <3>2
    <3> QED BY <3>1, <3>3 DEF Answers, Filed
  <2>1. \A j \in Intent : \/ state'[j] = state[j]
                          \/ state[j] \in Filed /\ state'[j] \in Filed
    BY <1>6, <2>0 DEF WebhookWrite, TypeOK
  <2>2. UNCHANGED <<token, pc, cur>>
    BY <1>6 DEF WebhookWrite
  <2> QED BY <1>0, <2>1, <2>2, ClaimsKept
<1>7. CASE DeleteContact
  <2>1. \A j \in Intent : \/ state'[j] = state[j]
                          \/ state[j] \notin {"claimed"} \cup Filed
    BY <1>7 DEF DeleteContact, Filed, Status
  <2>2. UNCHANGED <<token, pc, cur>>
    BY <1>7 DEF DeleteContact
  <2> QED BY <1>0, <2>1, <2>2, ClaimsKept
<1>8. CASE \/ \E i \in Intent : ReplayDead(i)
           \/ \E h \in Hook : WebhookAborts(h)
           \/ \E h \in Hook, i \in Intent, n \in Nat, s \in Status : WebhookRead(h, i, n, s)
           \/ OptOut \/ Tick \/ UNCHANGED vars
  BY <1>1, <1>8 DEF ReplayDead, WebhookAborts, WebhookRead, OptOut, Tick, vars
<1>9. \A i \in Intent : 1 .. mails[i] \subseteq Nat
  BY DEF TypeOK
<1> QED BY <1>2, <1>3, <1>4, <1>5, <1>6, <1>7, <1>8, <1>9
        DEF Next, WebhookStep, TakeJob, TakeOver

-----------------------------------------------------------------------------
(* Answers *)

\* A step that files no intent, brings no worker an answer, and neither takes back
\* a mail nor lets a webhook read a row, keeps what is known of the answers.
LEMMA AnswersKept ==
  ASSUME Answers, UNCHANGED pid,
         \A i \in Intent : state'[i] \in Filed <=> state[i] \in Filed,
         \A i \in Intent : mails[i] > 0 => mails'[i] > 0,
         captured \subseteq captured',
         \A w \in Worker :
           pc'[w] = "answered" =>
             /\ pc[w] = "answered" /\ cur[w] \in Intent
             /\ cur'[w] = cur[w] /\ ans'[w] = ans[w],
         hook \in [Hook -> {NoHook} \cup [i : Intent, status : Status, saw : Filed]],
         \A h \in Hook : hook'[h] = hook[h] \/ hook'[h] = NoHook
  PROVE  Answers'
<1>1. \A w \in Worker :
        pc'[w] = "answered" =>
          ans'[w] # NoId /\ (mails'[cur'[w]] > 0 \/ cur'[w] \in captured')
  BY DEF Answers
<1>2. \A i \in Intent : pid'[i] # NoId <=> state'[i] \in Filed
  BY DEF Answers
<1>3. \A i \in Intent : state'[i] \in Filed => mails'[i] > 0 \/ i \in captured'
  BY DEF Answers
<1>4. \A h \in Hook : hook'[h] # NoHook => state'[hook'[h].i] \in Filed
  <2> TAKE h \in Hook
  <2> HAVE hook'[h] # NoHook
  <2>1. hook'[h] = hook[h]
    OBVIOUS
  <2>2. hook[h] \in [i : Intent, status : Status, saw : Filed]
    BY <2>1, Zenon
  <2>3. hook[h].i \in Intent
    BY <2>2
  <2> QED BY <2>1, <2>3 DEF Answers
<1> QED BY <1>1, <1>2, <1>3, <1>4 DEF Answers

LEMMA AnswersDispatch ==
  ASSUME TypeOK, Busy, Claims, Answers, NEW w \in Worker, DispatchStep(w)
  PROVE  Answers'
<1> USE DEF rowVars, workerVars, providerVars, Elsewhere, Goto
<1>0. /\ \A v \in Worker : pc[v] = "answered" => cur[v] \in Intent
      /\ pc[w] # "idle" => cur[w] \in Intent
      /\ hook \in [Hook -> {NoHook} \cup [i : Intent, status : Status, saw : Filed]]
      /\ pc \in [Worker -> {"idle", "taken", "requeue", "claim", "returned", "threw"}
                           \cup Sending]
  BY DEF Busy, TypeOK
<1>1. CASE ReadIntent(w) \/ GateAllows(w) \/ ProviderRefuses(w) \/ RecordFails(w)
           \/ DispatchThrows(w) \/ MarkDispatched(w) \/ MarkFailed(w)
  <2>1. UNCHANGED <<state, pid, mails, captured, hook>>
    BY <1>1 DEF ReadIntent, GateAllows, ProviderRefuses, RecordFails,
       DispatchThrows, MarkDispatched, MarkFailed, EndDispatch
  <2>2. \A v \in Worker :
          pc'[v] = "answered" =>
            pc[v] = "answered" /\ cur'[v] = cur[v] /\ ans'[v] = ans[v]
    BY <1>0, <1>1 DEF ReadIntent, GateAllows, ProviderRefuses, RecordFails,
       DispatchThrows, MarkDispatched, MarkFailed, EndDispatch, TypeOK
  <2> QED BY <1>0, <2>1, <2>2, AnswersKept
<1>2. CASE \/ RequeueUncertain(w) \/ ClaimSendIntent(w) \/ GateStops(w)
           \/ ReleaseUncertain(w)
  <2>1. UNCHANGED <<pid, mails, captured, hook, cur, ans>>
    BY <1>2 DEF RequeueUncertain, ClaimSendIntent, GateStops, ReleaseUncertain
  <2>2. \A v \in Worker : pc'[v] = "answered" => pc[v] = "answered"
    BY <1>0, <1>2 DEF RequeueUncertain, ClaimSendIntent, GateStops, ReleaseUncertain
  <2>3. \A i \in Intent : state'[i] \in Filed <=> state[i] \in Filed
    <3>1. CASE RequeueUncertain(w) \/ ClaimSendIntent(w)
      BY <1>0, <3>1 DEF RequeueUncertain, ClaimSendIntent, TypeOK, Filed, Status
    <3>2. CASE GateStops(w) \/ ReleaseUncertain(w)
      <4>1. PICK to \in {"blocked", "suppressed", "uncertain"} : Release(w, to)
        BY <3>2 DEF GateStops, ReleaseUncertain
      <4>2. cur[w] \in Intent
        BY <1>0, <3>2 DEF GateStops, ReleaseUncertain
      <4>3. token[cur[w]] = w => state[cur[w]] = "claimed"
        BY <4>2, SendAssumption DEF Claims
      <4> QED BY <4>1, <4>2, <4>3 DEF Release, TypeOK, Filed, Status
    <3> QED BY <1>2, <3>1, <3>2
  <2> QED BY <1>0, <2>1, <2>2, <2>3, AnswersKept
<1>3. CASE CaptureSend(w) \/ ProviderAccepts(w)
  <2>1. /\ cur[w] \in Intent /\ UNCHANGED <<state, pid, cur, hook>>
        /\ captured \subseteq captured'
        /\ \A v \in Worker \ {w} : pc'[v] = pc[v] /\ ans'[v] = ans[v]
    BY <1>0, <1>3 DEF CaptureSend, ProviderAccepts, TypeOK
  <2>2. \A i \in Intent : mails[i] > 0 => mails'[i] > 0
    BY <1>3, <2>1 DEF CaptureSend, ProviderAccepts, TypeOK
  <2>3. pc'[w] = "answered" =>
          ans'[w] # NoId /\ (mails'[cur'[w]] > 0 \/ cur'[w] \in captured')
    <3>1. CASE CaptureSend(w)
      BY <2>1, <3>1 DEF CaptureSend, TypeOK, NoId, Captured
    <3>2. CASE ProviderAccepts(w)
      BY <1>0, <2>1, <3>2 DEF ProviderAccepts, TypeOK, NoId
    <3> QED BY <1>3, <3>1, <3>2
  <2>4. \A v \in Worker :
          pc'[v] = "answered" =>
            ans'[v] # NoId /\ (mails'[cur'[v]] > 0 \/ cur'[v] \in captured')
    BY <1>0, <2>1, <2>2, <2>3 DEF Answers
  <2>5. /\ \A i \in Intent : pid'[i] # NoId <=> state'[i] \in Filed
        /\ \A i \in Intent : state'[i] \in Filed => mails'[i] > 0 \/ i \in captured'
        /\ \A h \in Hook : hook'[h] # NoHook => state'[hook'[h].i] \in Filed
    BY <2>1, <2>2 DEF Answers
  <2> QED BY <2>4, <2>5 DEF Answers
<1>4. CASE RecordProviderAccepted(w)
  <2>1. /\ pc[w] = "answered" /\ cur[w] \in Intent
        /\ state[cur[w]] = "claimed" /\ token[cur[w]] = w
        /\ ans[w] # NoId /\ (mails[cur[w]] > 0 \/ cur[w] \in captured)
    BY <1>0, <1>4 DEF RecordProviderAccepted, Claims, Answers
  <2>2. /\ state' = [state EXCEPT ![cur[w]] = "provider_accepted"]
        /\ pid' = [pid EXCEPT ![cur[w]] = ans[w]]
        /\ UNCHANGED <<mails, captured, cur, ans, hook>>
    BY <1>4, <2>1 DEF RecordProviderAccepted
  <2>3. \A v \in Worker : pc'[v] = "answered" => pc[v] = "answered"
    BY <1>0, <1>4 DEF RecordProviderAccepted
  <2>4. \A i \in Intent :
          /\ state'[i] = IF i = cur[w] THEN "provider_accepted" ELSE state[i]
          /\ pid'[i] = IF i = cur[w] THEN ans[w] ELSE pid[i]
    BY <2>1, <2>2 DEF TypeOK
  <2>5. \A i \in Intent : pid'[i] # NoId <=> state'[i] \in Filed
    BY <2>1, <2>4 DEF Answers, Filed
  <2>6. \A i \in Intent : state'[i] \in Filed => mails'[i] > 0 \/ i \in captured'
    BY <2>1, <2>2, <2>4 DEF Answers
  <2>7. \A h \in Hook : hook'[h] # NoHook => state'[hook'[h].i] \in Filed
    <3> TAKE h \in Hook
    <3> HAVE hook'[h] # NoHook
    <3>1. hook[h] \in [i : Intent, status : Status, saw : Filed]
      BY <1>0, <2>2, Zenon
    <3>2. hook[h].i \in Intent
      BY <3>1
    <3> QED BY <2>2, <2>4, <3>2 DEF Answers, Filed
  <2>8. \A v \in Worker :
          pc'[v] = "answered" =>
            ans'[v] # NoId /\ (mails'[cur'[v]] > 0 \/ cur'[v] \in captured')
    BY <2>2, <2>3 DEF Answers
  <2> QED BY <2>5, <2>6, <2>7, <2>8 DEF Answers
<1> QED BY <1>1, <1>2, <1>3, <1>4 DEF DispatchStep

LEMMA AnswersStep ==
  ASSUME TypeOK, Busy, Claims, Answers, [Next]_vars
  PROVE  Answers'
<1> USE DEF rowVars, workerVars, providerVars
<1>0. /\ \A v \in Worker : pc[v] = "answered" => cur[v] \in Intent
      /\ hook \in [Hook -> {NoHook} \cup [i : Intent, status : Status, saw : Filed]]
      /\ pc \in [Worker -> {"idle", "taken", "requeue", "claim", "returned", "threw"}
                           \cup Sending]
  BY DEF Busy, TypeOK
<1>1. ASSUME UNCHANGED <<pid, mails, captured, pc, cur, ans, hook>>,
             \A i \in Intent : state'[i] \in Filed <=> state[i] \in Filed
      PROVE  Answers'
  BY <1>0, <1>1, AnswersKept
<1>2. ASSUME NEW i \in Intent, QueueSend(i) \/ StopQueued(i) \/ ReplayDead(i)
      PROVE  Answers'
  <2>1. \A j \in Intent : state'[j] \in Filed <=> state[j] \in Filed
    BY <1>2 DEF QueueSend, StopQueued, ReplayDead, TypeOK, Filed, Status
  <2>2. UNCHANGED <<pid, mails, captured, pc, cur, ans, hook>>
    BY <1>2 DEF QueueSend, StopQueued, ReplayDead
  <2> QED BY <1>1, <2>1, <2>2
<1>3. CASE DeleteContact \/ OptOut \/ Tick \/ UNCHANGED vars
  <2>1. \A j \in Intent : state'[j] \in Filed <=> state[j] \in Filed
    BY <1>3 DEF DeleteContact, OptOut, Tick, vars, Filed, Status
  <2>2. UNCHANGED <<pid, mails, captured, pc, cur, ans, hook>>
    BY <1>3 DEF DeleteContact, OptOut, Tick, vars
  <2> QED BY <1>1, <2>1, <2>2
<1>4. ASSUME NEW w \in Worker,
             (\E i \in Intent : LeaseJob(w, i)) \/ Crash(w)
      PROVE  Answers'
  <2>1. UNCHANGED <<state, pid, mails, captured, hook>>
    BY <1>4 DEF LeaseJob, Crash, EndDispatch
  <2>2. \A v \in Worker :
          pc'[v] = "answered" =>
            pc[v] = "answered" /\ cur'[v] = cur[v] /\ ans'[v] = ans[v]
    BY <1>0, <1>4 DEF LeaseJob, Crash, EndDispatch, Goto, TypeOK
  <2> QED BY <1>0, <2>1, <2>2, AnswersKept
<1>5. ASSUME NEW w \in Worker, DispatchStep(w) PROVE Answers'
  BY <1>5, AnswersDispatch
<1>6. ASSUME NEW h \in Hook, WebhookStep(h) PROVE Answers'
  <2>0. UNCHANGED <<pid, mails, captured, pc, cur, ans>>
    BY <1>6 DEF WebhookStep, WebhookRead, WebhookWrite, WebhookAborts
  <2>1. ASSUME NEW i \in Intent, NEW s \in Status, NEW n \in 1 .. mails[i],
               WebhookRead(h, i, n, s)
        PROVE  Answers'
    <3>1. CASE pid[i] = n
      <4>1. state[i] \in Filed
        BY <3>1 DEF Answers, NoId
      <4>2. UNCHANGED state /\ hook' = [hook EXCEPT ![h] =
                                         [i |-> i, status |-> s, saw |-> state[i]]]
        BY <2>1, <3>1 DEF WebhookRead
      <4>3. \A g \in Hook : hook'[g] # NoHook => state'[hook'[g].i] \in Filed
        BY <1>0, <4>1, <4>2 DEF Answers
      <4>4. \A w \in Worker :
              pc'[w] = "answered" =>
                ans'[w] # NoId /\ (mails'[cur'[w]] > 0 \/ cur'[w] \in captured')
        BY <2>0 DEF Answers
      <4> QED BY <2>0, <4>2, <4>3, <4>4 DEF Answers
    <3>2. CASE pid[i] # n
      BY <1>1, <2>0, <2>1, <3>2 DEF WebhookRead
    <3> QED BY <3>1, <3>2
  <2>2. CASE WebhookWrite(h)
    <3>1. hook[h] # NoHook
      BY <2>2 DEF WebhookWrite
    <3>2. hook[h] \in [i : Intent, status : Status, saw : Filed]
      BY <1>0, <3>1, Zenon
    <3>3. hook[h].i \in Intent /\ hook[h].status \in Status
      BY <3>2
    <3>4. state[hook[h].i] \in Filed /\ hook[h].status \in Filed
      BY <3>1, <3>3 DEF Answers, Filed
    <3>5. \A j \in Intent : state'[j] \in Filed <=> state[j] \in Filed
      BY <2>2, <3>3, <3>4 DEF WebhookWrite, TypeOK
    <3>6. \A g \in Hook : hook'[g] = hook[g] \/ hook'[g] = NoHook
      BY <1>0, <2>2 DEF WebhookWrite
    <3> QED BY <1>0, <2>0, <3>5, <3>6, AnswersKept
  <2>3. CASE WebhookAborts(h)
    <3>1. \A g \in Hook : hook'[g] = hook[g] \/ hook'[g] = NoHook
      BY <1>0, <2>3 DEF WebhookAborts
    <3>2. UNCHANGED state
      BY <2>3 DEF WebhookAborts
    <3> QED BY <1>0, <2>0, <3>1, <3>2, AnswersKept
  <2> QED BY <1>6, <2>1, <2>2, <2>3 DEF WebhookStep
<1> QED BY <1>2, <1>3, <1>4, <1>5, <1>6 DEF Next, TakeJob, TakeOver

-----------------------------------------------------------------------------
(* Ages *)

\* A step that claims nothing, mails nothing, compares no age and leaves the clock
\* alone keeps the ages.
LEMMA AgesKept ==
  ASSUME Ages, UNCHANGED <<claimedAt, attempts, mails, acceptedAt, now>>,
         \A i \in Intent :
           state'[i] \in {"claimed", "uncertain"} => state[i] \in {"claimed", "uncertain"},
         \A w \in Worker :
           /\ pc'[w] \in {"gating", "submitting"} =>
                pc[w] \in {"gating", "submitting"} /\ cur'[w] = cur[w]
           /\ pc'[w] = "requeue" => pc[w] = "requeue" /\ cur'[w] = cur[w]
  PROVE  Ages'
BY DEF Ages, RetrySameKey

LEMMA AgesDispatch ==
  ASSUME TypeOK, Busy, Claims, Ages, NEW w \in Worker, DispatchStep(w)
  PROVE  Ages'
<1> USE DEF rowVars, workerVars, providerVars, Elsewhere, Goto
<1>0. /\ pc[w] # "idle" => cur[w] \in Intent
      /\ \A v \in Worker : pc[v] # "idle" => cur[v] \in Intent
      /\ pc \in [Worker -> {"idle", "taken", "requeue", "claim", "returned", "threw"}
                           \cup Sending]
      /\ now \in Int
  BY SendAssumption DEF Busy, TypeOK
<1>1. CASE ReadIntent(w)
  <2>1. /\ cur[w] \in Intent
        /\ UNCHANGED <<state, claimedAt, attempts, mails, acceptedAt, now, cur>>
        /\ \A v \in Worker \ {w} : pc'[v] = pc[v]
        /\ pc'[w] \in {"claim", "requeue", "returned"}
        /\ pc'[w] = "requeue" => state[cur[w]] = "uncertain" /\ RetrySameKey(cur[w])
    BY <1>0, <1>1 DEF ReadIntent
  <2>2. \A v \in Worker :
          pc'[v] = "requeue" =>
            attempts'[cur'[v]] # 0
            /\ (attempts'[cur'[v]] = 1 => now' - claimedAt'[cur'[v]] < Window)
    BY <2>1 DEF Ages, RetrySameKey
  <2>3. \A v \in Worker :
          pc'[v] \in {"gating", "submitting"} => claimedAt'[cur'[v]] = now'
    BY <2>1 DEF Ages
  <2> QED BY <2>1, <2>2, <2>3 DEF Ages, RetrySameKey
<1>2. CASE \/ RequeueUncertain(w) \/ GateAllows(w) \/ CaptureSend(w)
           \/ ProviderRefuses(w) \/ RecordProviderAccepted(w) \/ RecordFails(w)
           \/ DispatchThrows(w)
  <2>1. UNCHANGED <<claimedAt, attempts, mails, acceptedAt, now, cur>>
    BY <1>2 DEF RequeueUncertain, GateAllows, CaptureSend, ProviderRefuses,
       RecordProviderAccepted, RecordFails, DispatchThrows
  <2>2. \A i \in Intent :
          state'[i] \in {"claimed", "uncertain"} => state[i] \in {"claimed", "uncertain"}
    <3>1. CASE RequeueUncertain(w) \/ RecordProviderAccepted(w)
      BY <1>0, <3>1 DEF RequeueUncertain, RecordProviderAccepted, TypeOK
    <3>2. CASE \/ GateAllows(w) \/ CaptureSend(w) \/ ProviderRefuses(w)
               \/ RecordFails(w) \/ DispatchThrows(w)
      BY <3>2 DEF GateAllows, CaptureSend, ProviderRefuses, RecordFails, DispatchThrows
    <3> QED BY <1>2, <3>1, <3>2
  <2>3. \A v \in Worker :
          /\ pc'[v] \in {"gating", "submitting"} => pc[v] \in {"gating", "submitting"}
          /\ pc'[v] = "requeue" => pc[v] = "requeue"
    BY <1>0, <1>2 DEF RequeueUncertain, GateAllows, CaptureSend, ProviderRefuses,
       RecordProviderAccepted, RecordFails, DispatchThrows
  <2> QED BY <2>1, <2>2, <2>3, AgesKept
<1>3. CASE ClaimSendIntent(w) /\ state[cur[w]] = "queued"
  <2> DEFINE i == cur[w]
  <2>1. /\ i \in Intent /\ UNCHANGED <<mails, acceptedAt, now, cur>>
        /\ pc' = [pc EXCEPT ![w] = "gating"]
    BY <1>0, <1>3 DEF ClaimSendIntent
  <2>2. \A j \in Intent :
          /\ state'[j] = IF j = i THEN "claimed" ELSE state[j]
          /\ claimedAt'[j] = IF j = i THEN now ELSE claimedAt[j]
          /\ attempts'[j] = IF j # i THEN attempts[j]
                            ELSE IF attempts[i] < 3 THEN attempts[i] + 1 ELSE 3
    BY <1>3, <2>1 DEF ClaimSendIntent, TypeOK
  <2>3. attempts'[i] # 0 /\ (attempts'[i] = 1 => attempts[i] = 0)
    BY <2>1, <2>2 DEF TypeOK
  <2>4. \A v \in Worker : pc[v] \in {"gating", "submitting"} => cur[v] \in Intent \ {i}
    BY <1>0, <1>3 DEF Claims
  <2>5. \A j \in Intent : attempts'[j] = 0 => mails'[j] = 0
    BY <2>1, <2>2, <2>3 DEF Ages
  <2>6. \A j \in Intent : state'[j] \in {"claimed", "uncertain"} => attempts'[j] # 0
    BY <2>2, <2>3 DEF Ages
  <2>7. \A j \in Intent :
          attempts'[j] = 1 /\ mails'[j] = 1 => acceptedAt'[j] = claimedAt'[j]
    BY <2>1, <2>2, <2>3 DEF Ages
  <2>8. \A v \in Worker :
          pc'[v] \in {"gating", "submitting"} => claimedAt'[cur'[v]] = now'
    BY <1>0, <2>1, <2>2, <2>4 DEF Ages
  <2>9. \A v \in Worker :
          pc'[v] = "requeue" =>
            attempts'[cur'[v]] # 0
            /\ (attempts'[cur'[v]] = 1 => now' - claimedAt'[cur'[v]] < Window)
    <3> TAKE v \in Worker
    <3> HAVE pc'[v] = "requeue"
    <3>1. v # w /\ pc[v] = "requeue" /\ cur'[v] = cur[v] /\ cur[v] \in Intent
      BY <1>0, <2>1
    <3>2. attempts[cur[v]] # 0
          /\ (attempts[cur[v]] = 1 => now - claimedAt[cur[v]] < Window)
      BY <3>1 DEF Ages, RetrySameKey
    <3> QED BY <2>1, <2>2, <2>3, <3>1, <3>2
  <2> QED BY <2>5, <2>6, <2>7, <2>8, <2>9 DEF Ages, RetrySameKey
<1>4. CASE ClaimSendIntent(w) /\ state[cur[w]] # "queued"
  <2>1. UNCHANGED <<state, claimedAt, attempts, mails, acceptedAt, now, cur>>
        /\ pc' = [pc EXCEPT ![w] = "returned"]
    BY <1>4 DEF ClaimSendIntent
  <2> QED BY <1>0, <2>1, AgesKept
<1>5. CASE GateStops(w) \/ ReleaseUncertain(w)
  <2>1. PICK to \in {"blocked", "suppressed", "uncertain"} : Release(w, to)
    BY <1>5 DEF GateStops, ReleaseUncertain
  <2>2. /\ UNCHANGED <<claimedAt, attempts, mails, acceptedAt, now, cur>>
        /\ pc' = [pc EXCEPT ![w] = "returned"] /\ cur[w] \in Intent
    BY <1>0, <1>5 DEF GateStops, ReleaseUncertain
  <2>3. token[cur[w]] = w => state[cur[w]] = "claimed"
    BY <2>2, SendAssumption DEF Claims
  <2>4. \A i \in Intent :
          state'[i] \in {"claimed", "uncertain"} => state[i] \in {"claimed", "uncertain"}
    BY <2>1, <2>2, <2>3 DEF Release, TypeOK
  <2> QED BY <1>0, <2>2, <2>4, AgesKept
<1>6. CASE ProviderAccepts(w)
  <2> DEFINE i == cur[w]
  <2>1. /\ i \in Intent /\ pc[w] = "submitting" /\ state[i] = "claimed"
        /\ claimedAt[i] = now /\ attempts[i] # 0
    BY <1>0, <1>6 DEF ProviderAccepts, Claims, Ages
  <2>2. UNCHANGED <<state, claimedAt, attempts, now, cur>>
        /\ \A v \in Worker : pc'[v] = pc[v] \/ pc'[v] \in {"answered", "failed"}
    BY <1>0, <1>6 DEF ProviderAccepts
  <2>3. \A j \in Intent \ {i} : mails'[j] = mails[j] /\ acceptedAt'[j] = acceptedAt[j]
    BY <1>6 DEF ProviderAccepts, TypeOK
  <2>4. mails'[i] = 1 => acceptedAt'[i] = now \/ (mails[i] = 1 /\ acceptedAt'[i] = acceptedAt[i])
    BY <1>6, <2>1 DEF ProviderAccepts, TypeOK
  <2>5. \A j \in Intent : attempts'[j] = 0 => mails'[j] = 0
    BY <2>1, <2>2, <2>3 DEF Ages
  <2>6. \A j \in Intent :
          attempts'[j] = 1 /\ mails'[j] = 1 => acceptedAt'[j] = claimedAt'[j]
    BY <2>1, <2>2, <2>3, <2>4 DEF Ages
  <2> QED BY <2>2, <2>5, <2>6 DEF Ages, RetrySameKey
<1>7. CASE MarkDispatched(w) \/ MarkFailed(w)
  <2>1. UNCHANGED <<state, claimedAt, attempts, mails, acceptedAt, now>>
        /\ pc' = [pc EXCEPT ![w] = "idle"] /\ \A v \in Worker \ {w} : cur'[v] = cur[v]
    BY <1>7 DEF MarkDispatched, MarkFailed, EndDispatch, TypeOK
  <2> QED BY <1>0, <2>1, AgesKept
<1> QED BY <1>1, <1>2, <1>3, <1>4, <1>5, <1>6, <1>7 DEF DispatchStep

LEMMA AgesStep ==
  ASSUME TypeOK, Busy, Claims, Answers, Ages, [Next]_vars
  PROVE  Ages'
<1> USE DEF rowVars, workerVars, providerVars
<1>1. ASSUME UNCHANGED <<claimedAt, attempts, mails, acceptedAt, now, pc, cur>>,
             \A i \in Intent :
               state'[i] \in {"claimed", "uncertain"} => state[i] \in {"claimed", "uncertain"}
      PROVE  Ages'
  BY <1>1, AgesKept
<1>2. ASSUME NEW i \in Intent, QueueSend(i) \/ StopQueued(i) \/ ReplayDead(i)
      PROVE  Ages'
  <2>1. UNCHANGED <<claimedAt, attempts, mails, acceptedAt, now, pc, cur>>
    BY <1>2 DEF QueueSend, StopQueued, ReplayDead
  <2>2. \A j \in Intent :
          state'[j] \in {"claimed", "uncertain"} => state[j] \in {"claimed", "uncertain"}
    BY <1>2 DEF QueueSend, StopQueued, ReplayDead, TypeOK
  <2> QED BY <1>1, <2>1, <2>2
<1>3. CASE DeleteContact \/ OptOut \/ UNCHANGED vars
  <2>1. UNCHANGED <<claimedAt, attempts, mails, acceptedAt, now, pc, cur>>
    BY <1>3 DEF DeleteContact, OptOut, vars
  <2>2. \A j \in Intent :
          state'[j] \in {"claimed", "uncertain"} => state[j] \in {"claimed", "uncertain"}
    BY <1>3 DEF DeleteContact, OptOut, vars
  <2> QED BY <1>1, <2>1, <2>2
<1>4. ASSUME NEW w \in Worker, (\E i \in Intent : LeaseJob(w, i)) \/ Crash(w)
      PROVE  Ages'
  <2>1. UNCHANGED <<state, claimedAt, attempts, mails, acceptedAt, now>>
    BY <1>4 DEF LeaseJob, Crash, EndDispatch
  <2>2. pc'[w] \in {"taken", "idle"}
        /\ \A v \in Worker \ {w} : pc'[v] = pc[v] /\ cur'[v] = cur[v]
    BY <1>4 DEF LeaseJob, Crash, EndDispatch, Goto, TypeOK
  <2> QED BY <2>1, <2>2, AgesKept
<1>5. ASSUME NEW w \in Worker, DispatchStep(w) PROVE Ages'
  BY <1>5, AgesDispatch
<1>6. ASSUME NEW h \in Hook, WebhookStep(h) PROVE Ages'
  <2>1. UNCHANGED <<claimedAt, attempts, mails, acceptedAt, now, pc, cur>>
    BY <1>6 DEF WebhookStep, WebhookRead, WebhookWrite, WebhookAborts
  <2>2. \A j \in Intent :
          state'[j] \in {"claimed", "uncertain"} => state[j] \in {"claimed", "uncertain"}
    <3>1. CASE WebhookWrite(h)
      <4>1. hook[h] # NoHook
        BY <3>1 DEF WebhookWrite
      <4>2. hook[h] \in [i : Intent, status : Status, saw : Filed]
        BY <4>1, Zenon DEF TypeOK
      <4>3. hook[h].i \in Intent /\ hook[h].status \in Status
        BY <4>2
      <4> QED BY <3>1, <4>3 DEF WebhookWrite, TypeOK, Status
    <3>2. CASE WebhookAborts(h) \/ \E i \in Intent, s \in Status :
                                    \E n \in 1 .. mails[i] : WebhookRead(h, i, n, s)
      BY <3>2 DEF WebhookAborts, WebhookRead
    <3> QED BY <1>6, <3>1, <3>2 DEF WebhookStep
  <2> QED BY <1>1, <2>1, <2>2
<1>7. CASE Tick
  <2>1. UNCHANGED <<state, claimedAt, attempts, mails, acceptedAt, pc>>
        /\ \A v \in Worker : pc'[v] = "idle"
    BY <1>7 DEF Tick
  <2> QED BY <2>1 DEF Ages
<1> QED BY <1>2, <1>3, <1>4, <1>5, <1>6, <1>7 DEF Next, TakeJob, TakeOver

-----------------------------------------------------------------------------
(* Silence *)

\* A step that suppresses nothing, mails nothing and brings no worker past the gate
\* keeps the silence.
LEMMA SilenceKept ==
  ASSUME TypeOK, Silence, UNCHANGED <<mails, last, suppressed>>,
         \A w \in Worker : pc'[w] = "submitting" => pc[w] = "submitting" /\ cur'[w] = cur[w]
  PROVE  Silence'
<1>1. \A i \in Intent : Submitting(i)' => Submitting(i)
  BY DEF Submitting
<1> QED BY <1>1 DEF Silence, TypeOK

\* The step that suppresses the address starts the silence, unless it had begun.
LEMMA SilenceStarts ==
  ASSUME TypeOK, Silence, UNCHANGED <<mails, pc, cur>>, AddSuppression
  PROVE  Silence'
<1>1. \A i \in Intent : Submitting(i)' <=> Submitting(i)
  BY DEF Submitting
<1>2. CASE suppressed
  BY <1>1, <1>2 DEF Silence, AddSuppression, TypeOK
<1>3. CASE ~suppressed
  BY <1>1, <1>3 DEF Silence, AddSuppression, TypeOK
<1> QED BY <1>2, <1>3

LEMMA SilenceDispatch ==
  ASSUME TypeOK, Busy, Claims, Silence, NEW w \in Worker, DispatchStep(w)
  PROVE  Silence'
<1> USE DEF rowVars, workerVars, providerVars, Elsewhere, Goto
<1>0. pc \in [Worker -> {"idle", "taken", "requeue", "claim", "returned", "threw"}
                        \cup Sending]
      /\ cur \in [Worker -> Intent \cup {NoIntent}]
      /\ (pc[w] # "idle" => cur[w] \in Intent)
  BY DEF TypeOK, Busy
<1>1. CASE MarkDispatched(w) \/ MarkFailed(w)
  <2>1. UNCHANGED <<mails, last, suppressed>>
        /\ \A v \in Worker : pc'[v] = "submitting" => pc[v] = "submitting" /\ cur'[v] = cur[v]
    BY <1>0, <1>1 DEF MarkDispatched, MarkFailed, EndDispatch
  <2> QED BY <2>1, SilenceKept
<1>2. CASE \/ ReadIntent(w) \/ RequeueUncertain(w) \/ ClaimSendIntent(w) \/ GateStops(w)
           \/ CaptureSend(w) \/ ProviderRefuses(w) \/ RecordProviderAccepted(w)
           \/ RecordFails(w) \/ ReleaseUncertain(w) \/ DispatchThrows(w)
  <2>1. UNCHANGED <<mails, last, suppressed, cur>>
    BY <1>2 DEF ReadIntent, RequeueUncertain, ClaimSendIntent, GateStops, CaptureSend,
       ProviderRefuses, RecordProviderAccepted, RecordFails, ReleaseUncertain, DispatchThrows
  <2>2. \A v \in Worker : pc'[v] = "submitting" => pc[v] = "submitting"
    BY <1>0, <1>2 DEF ReadIntent, RequeueUncertain, ClaimSendIntent, GateStops, CaptureSend,
       ProviderRefuses, RecordProviderAccepted, RecordFails, ReleaseUncertain, DispatchThrows
  <2> QED BY <2>1, <2>2, SilenceKept
<1>3. CASE GateAllows(w)
  BY <1>3 DEF GateAllows, Silence
<1>4. CASE ProviderAccepts(w)
  <2> DEFINE i == cur[w]
  <2>1. /\ i \in Intent /\ pc[w] = "submitting"
        /\ UNCHANGED <<cur, last, suppressed>>
        /\ \A v \in Worker \ {w} : pc'[v] = pc[v]
        /\ pc'[w] # "submitting"
    BY <1>0, <1>4 DEF ProviderAccepts
  <2>2. \A j \in Intent : mails'[j] = mails[j] \/ (j = i /\ mails'[j] = mails[j] + 1)
    BY <1>4 DEF ProviderAccepts, TypeOK
  <2>3. Submitting(i)
    BY <2>1 DEF Submitting
  <2>4. \A v \in Worker \ {w} : pc[v] = "submitting" => cur[v] # i
    BY <2>1 DEF Claims, OneSubmitter, Sending
  <2>5. ~Submitting(i)'
    BY <2>1, <2>4 DEF Submitting
  <2>6. \A j \in Intent : Submitting(j)' => Submitting(j)
    BY <2>1 DEF Submitting
  <2>7. mails \in [Intent -> Nat] /\ last \in [Intent -> Nat]
    BY DEF TypeOK
  <2> QED BY <2>1, <2>2, <2>3, <2>5, <2>6, <2>7 DEF Silence
<1> QED BY <1>1, <1>2, <1>3, <1>4 DEF DispatchStep

LEMMA SilenceStep ==
  ASSUME TypeOK, Busy, Claims, Silence, [Next]_vars
  PROVE  Silence'
<1> USE DEF rowVars, workerVars, providerVars
<1>1. ASSUME NEW w \in Worker, (\E i \in Intent : LeaseJob(w, i)) \/ Crash(w)
      PROVE  Silence'
  <2>1. UNCHANGED <<mails, last, suppressed>>
        /\ \A v \in Worker : pc'[v] = "submitting" => pc[v] = "submitting" /\ cur'[v] = cur[v]
    BY <1>1 DEF LeaseJob, Crash, EndDispatch, Goto, TypeOK
  <2> QED BY <2>1, SilenceKept
<1>2. ASSUME NEW w \in Worker, DispatchStep(w) PROVE Silence'
  BY <1>2, SilenceDispatch
<1>3. CASE \/ \E i \in Intent : QueueSend(i) \/ StopQueued(i) \/ ReplayDead(i)
           \/ \E h \in Hook : WebhookAborts(h)
           \/ Tick \/ UNCHANGED vars
  <2>1. UNCHANGED <<mails, last, suppressed, pc, cur>>
    BY <1>3 DEF QueueSend, StopQueued, ReplayDead, WebhookAborts, Tick, vars
  <2> QED BY <2>1, SilenceKept
<1>4. CASE \/ DeleteContact \/ OptOut
           \/ \E h \in Hook : \/ WebhookWrite(h)
                             \/ \E i \in Intent, s \in Status :
                                  \E n \in 1 .. mails[i] : WebhookRead(h, i, n, s)
  <2>1. /\ UNCHANGED <<mails, pc, cur>>
        /\ AddSuppression \/ UNCHANGED <<suppressed, last>>
    BY <1>4 DEF DeleteContact, OptOut, WebhookWrite, WebhookRead, Suppress
  <2> QED BY <2>1, SilenceKept, SilenceStarts
<1> QED BY <1>1, <1>2, <1>3, <1>4 DEF Next, WebhookStep, TakeJob, TakeOver

-----------------------------------------------------------------------------
(* The invariant, and what follows from it *)

THEOREM SInvNext == SInv /\ [Next]_vars => SInv'
BY TypeStep, BusyStep, ClaimsStep, AnswersStep, AgesStep, SilenceStep DEF SInv

\* The invariant holds in every reachable state.
THEOREM SInvAlways == Spec => []SInv
BY SInvInit, SInvNext, PTL DEF Spec

\* Every variable keeps its type.
THEOREM TypeCorrect == Spec => []TypeOK
<1>1. SInv => TypeOK
  BY DEF SInv
<1> QED BY <1>1, SInvAlways, PTL

\* However many dispatchers run, crash and lose their leases, and however often an
\* uncertain intent goes back to the queue, one worker at a time is past the claim
\* of an intent.
THEOREM OneSubmitterHolds == Spec => []OneSubmitter
<1>1. SInv => OneSubmitter
  BY DEF SInv, Claims
<1> QED BY <1>1, SInvAlways, PTL

\* The first retry of an uncertain send falls within the provider's window.
THEOREM FirstRetryInWindowHolds == Spec => FirstRetryInWindow
<1> DEFINE A == \A i \in Intent :
                  /\ state[i] = "uncertain" /\ state'[i] = "queued"
                  /\ attempts[i] = 1 /\ mails[i] = 1
                  => now - acceptedAt[i] < Window
<1>1. SInv /\ [Next]_vars => [A]_vars
  <2> SUFFICES ASSUME SInv, Next, NEW i \in Intent,
                      state[i] = "uncertain", state'[i] = "queued",
                      attempts[i] = 1, mails[i] = 1
               PROVE  now - acceptedAt[i] < Window
    OBVIOUS
  <2> USE DEF rowVars, jobVars, Elsewhere, SInv
  <2>1. ASSUME NEW w \in Worker, RequeueUncertain(w)
        PROVE  now - acceptedAt[i] < Window
    <3>1. cur[w] = i /\ pc[w] = "requeue"
      BY <2>1 DEF RequeueUncertain, TypeOK
    <3> QED BY <3>1 DEF Ages, RetrySameKey
  <2>2. ASSUME NEW w \in Worker, DispatchStep(w), ~RequeueUncertain(w) PROVE FALSE
    <3>1. CASE GateStops(w) \/ ReleaseUncertain(w)
      <4>1. PICK to \in {"blocked", "suppressed", "uncertain"} : Release(w, to)
        BY <3>1 DEF GateStops, ReleaseUncertain
      <4> QED BY <4>1 DEF Release, TypeOK
    <3>2. CASE ClaimSendIntent(w) \/ RecordProviderAccepted(w)
      BY <3>2 DEF ClaimSendIntent, RecordProviderAccepted, TypeOK
    <3>3. CASE \/ ReadIntent(w) \/ GateAllows(w) \/ CaptureSend(w)
               \/ ProviderAccepts(w) \/ ProviderRefuses(w) \/ RecordFails(w)
               \/ DispatchThrows(w) \/ MarkDispatched(w) \/ MarkFailed(w)
      BY <3>3 DEF ReadIntent, GateAllows, CaptureSend, ProviderAccepts,
         ProviderRefuses, RecordFails, DispatchThrows, MarkDispatched, MarkFailed,
         EndDispatch
    <3> QED BY <2>2, <3>1, <3>2, <3>3 DEF DispatchStep
  <2>3. ASSUME NEW h \in Hook, WebhookStep(h) PROVE FALSE
    <3>1. CASE WebhookWrite(h)
      <4>1. hook[h] # NoHook
        BY <3>1 DEF WebhookWrite
      <4>2. hook[h] \in [i : Intent, status : Status, saw : Filed]
        BY <4>1, Zenon DEF TypeOK
      <4>3. hook[h].i \in Intent /\ hook[h].status \in Status
        BY <4>2
      <4> QED BY <3>1, <4>3 DEF WebhookWrite, TypeOK, Status
    <3>2. CASE WebhookAborts(h) \/ \E j \in Intent, s \in Status :
                                    \E n \in 1 .. mails[j] : WebhookRead(h, j, n, s)
      BY <3>2 DEF WebhookAborts, WebhookRead
    <3> QED BY <2>3, <3>1, <3>2 DEF WebhookStep
  <2>4. CASE \/ \E j \in Intent : QueueSend(j) \/ StopQueued(j) \/ ReplayDead(j)
             \/ \E w \in Worker, j \in Intent : LeaseJob(w, j)
             \/ \E w \in Worker : Crash(w)
             \/ DeleteContact \/ OptOut \/ Tick
    BY <2>4 DEF QueueSend, StopQueued, ReplayDead, LeaseJob, Crash, EndDispatch,
       DeleteContact, OptOut, Tick, TypeOK
  <2> QED BY <2>1, <2>2, <2>3, <2>4 DEF Next, TakeJob, TakeOver
<1> QED BY <1>1, SInvAlways, PTL DEF Spec, FirstRetryInWindow

\* From an opt-out, a complaint or a deletion on, no intent makes a mail but the one
\* that had passed the gate by then, for any number of retries, replays and workers.
THEOREM SuppressedGetsNoMoreHolds == Spec => []SuppressedGetsNoMore
<1>1. SInv => SuppressedGetsNoMore
  BY DEF SInv, Silence, SuppressedGetsNoMore, TypeOK
<1> QED BY <1>1, SInvAlways, PTL

LEMMA BounceStep ==
  ASSUME SInv, [Next]_vars, NEW i \in Intent
  PROVE  KeepsBounce(i) \/ \E h \in Hook : Stale(h, i) /\ hook'[h] = NoHook
<1> USE DEF rowVars, jobVars, Elsewhere, SInv
<1>1. state \in [Intent -> {"none"} \cup Open \cup Stopped \cup Filed]
      /\ token \in [Intent -> Worker \cup {NoWorker}]
      /\ pc \in [Worker -> {"idle", "taken", "requeue", "claim", "returned", "threw"}
                            \cup Sending]
  BY DEF TypeOK
<1>2. ASSUME NEW w \in Worker, DispatchStep(w) PROVE KeepsBounce(i)
  <2>1. CASE GateStops(w) \/ ReleaseUncertain(w)
    <3>1. PICK to \in {"blocked", "suppressed", "uncertain"} : Release(w, to)
      BY <2>1 DEF GateStops, ReleaseUncertain
    <3>2. pc[w] # "idle"
      BY <2>1 DEF GateStops, ReleaseUncertain
    <3>3. cur[w] \in Intent
      BY <3>2 DEF Busy
    <3>4. token[cur[w]] = w => state[cur[w]] = "claimed"
      BY <3>3, SendAssumption DEF Claims
    <3> QED
      BY <1>1, <3>1, <3>3, <3>4 DEF Release, KeepsBounce
  <2>2. CASE RequeueUncertain(w) \/ ClaimSendIntent(w)
    BY <1>1, <2>2 DEF RequeueUncertain, ClaimSendIntent, KeepsBounce
  <2>3. CASE RecordProviderAccepted(w)
    <3>1. state[i] \in {"bounced", "complained"} => state'[i] = state[i]
      BY <1>1, <2>3 DEF RecordProviderAccepted
    <3> QED
      BY <3>1 DEF KeepsBounce
  <2>4. CASE \/ ReadIntent(w) \/ GateAllows(w) \/ CaptureSend(w)
             \/ ProviderAccepts(w) \/ ProviderRefuses(w) \/ RecordFails(w)
             \/ DispatchThrows(w) \/ MarkDispatched(w) \/ MarkFailed(w)
    BY <2>4 DEF ReadIntent, GateAllows, CaptureSend, ProviderAccepts, ProviderRefuses,
       RecordFails, DispatchThrows, MarkDispatched, MarkFailed, EndDispatch, KeepsBounce
  <2> QED
    BY <1>2, <2>1, <2>2, <2>3, <2>4 DEF DispatchStep
<1>3. ASSUME NEW h \in Hook, WebhookStep(h)
      PROVE  KeepsBounce(i) \/ (Stale(h, i) /\ hook'[h] = NoHook)
  <2>1. CASE WebhookWrite(h)
    <3>1. hook[h] # NoHook
      BY <2>1 DEF WebhookWrite
    <3>2. hook[h] \in [i : Intent, status : Status, saw : Filed]
      BY <3>1, Zenon DEF TypeOK
    <3> DEFINE e == hook[h]
    <3>3. e.i \in Intent /\ e.status \in Status /\ e.saw \in Filed
      BY <3>2
    <3>4. state' = [state EXCEPT ![e.i] =
                      IF e.status # "failed" /\ Rank(e.status) < Rank(e.saw) THEN @ ELSE e.status]
      BY <2>1 DEF WebhookWrite
    <3> HIDE DEF e
    <3>5. CASE e.i # i
      BY <1>1, <3>4, <3>5 DEF KeepsBounce
    <3>6. CASE e.i = i /\ e.saw = state[i]
      <4>1. state'[i] = IF e.status # "failed" /\ Rank(e.status) < Rank(state[i]) THEN state[i]
                        ELSE e.status
        BY <1>1, <3>4, <3>6
      <4>2. CASE state[i] = "bounced"
        <5>1. Rank(state[i]) = 5 /\ Rank("delayed") = 3 /\ Rank("delivered") = 4
          BY <4>2 DEF Rank
        <5> QED
          BY <3>3, <4>1, <4>2, <5>1 DEF KeepsBounce, Status
      <4>3. CASE state[i] = "complained"
        <5>1. /\ Rank(state[i]) = 6 /\ Rank("delayed") = 3 /\ Rank("delivered") = 4
              /\ Rank("bounced") = 5
          BY <4>3 DEF Rank
        <5> QED
          BY <3>3, <4>1, <4>3, <5>1 DEF KeepsBounce, Status
      <4> QED
        BY <4>2, <4>3 DEF KeepsBounce
    <3>7. hook'[h] = NoHook
      BY <2>1, Zenon DEF WebhookWrite, TypeOK
    <3> QED
      BY <3>1, <3>5, <3>6, <3>7 DEF Stale, e
  <2>2. CASE WebhookAborts(h) \/ \E j \in Intent, s \in Status :
                                  \E n \in 1 .. mails[j] : WebhookRead(h, j, n, s)
    BY <2>2 DEF WebhookAborts, WebhookRead, KeepsBounce
  <2> QED
    BY <1>3, <2>1, <2>2 DEF WebhookStep
<1>4. CASE \/ \E j \in Intent : QueueSend(j) \/ StopQueued(j) \/ ReplayDead(j)
           \/ \E w \in Worker, j \in Intent : LeaseJob(w, j)
           \/ \E w \in Worker : Crash(w)
           \/ DeleteContact \/ OptOut \/ Tick
  BY <1>1, <1>4 DEF QueueSend, StopQueued, ReplayDead, LeaseJob, Crash, EndDispatch,
     DeleteContact, OptOut, Tick, KeepsBounce
<1>5. CASE UNCHANGED vars
  BY <1>5 DEF vars, KeepsBounce
<1> QED
  BY <1>2, <1>3, <1>4, <1>5 DEF Next, TakeJob, TakeOver

\* However sends, requeues, opt-outs and webhooks come, a bounce or a complaint leaves the
\* record only by a "failed" event or in the write of a webhook request that judged an
\* earlier state: applyProviderStatus reads the row in one statement and writes it in
\* another.
THEOREM OnlyRacesEraseABounceHolds == Spec => OnlyRacesEraseABounce
<1>1. SInv /\ [Next]_vars =>
        [\A i \in Intent :
           KeepsBounce(i) \/ \E h \in Hook : Stale(h, i) /\ hook'[h] = NoHook]_vars
  BY BounceStep
<1> QED
  BY <1>1, SInvAlways, PTL DEF Spec, OnlyRacesEraseABounce

-----------------------------------------------------------------------------
(* Refinement of module Letter *)

LEMMA FateOf ==
  /\ AsFate("none") = "none"
  /\ \A s \in Open : AsFate(s) = "open"
  /\ \A s \in Stopped : AsFate(s) = "stopped"
  /\ \A s \in Filed : AsFate(s) = "sent"
BY DEF AsFate, Open, Stopped, Filed, Status

LEMMA SameFates ==
  ASSUME UNCHANGED <<mails, captured>>,
         \A i \in Intent : \/ state'[i] = state[i]
                           \/ state[i] \in Open /\ state'[i] \in Open
                           \/ state[i] \in Filed /\ state'[i] \in Filed
  PROVE  UNCHANGED L!vars
<1>1. \A i \in Intent : AsFate(state'[i]) = AsFate(state[i])
  BY FateOf
<1> QED BY <1>1 DEF L!vars, Fate

LEMMA StoppedFates ==
  ASSUME NEW S \in SUBSET Intent, UNCHANGED <<mails, captured>>,
         \A i \in S : state[i] \in Open /\ state'[i] \in Stopped,
         \A i \in Intent \ S : state'[i] = state[i]
  PROVE  L!Next
<1>1. \A i \in S : Fate[i] = "open"
  BY FateOf DEF Fate
<1>2. Fate' = [i \in Intent |-> IF i \in S THEN "stopped" ELSE Fate[i]]
  BY FateOf DEF Fate
<1>3. L!Stop(S)
  BY <1>1, <1>2 DEF L!Stop
<1> QED BY <1>3 DEF L!Next

LEMMA LetterDispatch ==
  ASSUME SInv, NEW w \in Worker, DispatchStep(w)
  PROVE  [L!Next]_L!vars
<1> USE DEF rowVars, workerVars, providerVars, Elsewhere, Goto
<1>0. pc[w] # "idle" => cur[w] \in Intent
  BY DEF SInv, Busy
<1>1. CASE \/ ReadIntent(w) \/ GateAllows(w) \/ ProviderRefuses(w) \/ RecordFails(w)
           \/ DispatchThrows(w) \/ MarkDispatched(w) \/ MarkFailed(w)
  <2>1. UNCHANGED <<state, mails, captured>>
    BY <1>1 DEF ReadIntent, GateAllows, ProviderRefuses, RecordFails,
       DispatchThrows, MarkDispatched, MarkFailed, EndDispatch
  <2> QED BY <2>1, SameFates
<1>2. CASE RequeueUncertain(w) \/ ClaimSendIntent(w)
  <2>1. UNCHANGED <<mails, captured>>
    BY <1>2 DEF RequeueUncertain, ClaimSendIntent
  <2>2. \A i \in Intent : \/ state'[i] = state[i]
                          \/ state[i] \in Open /\ state'[i] \in Open
    BY <1>0, <1>2 DEF RequeueUncertain, ClaimSendIntent, SInv, TypeOK, Open
  <2> QED BY <2>1, <2>2, SameFates
<1>3. CASE GateStops(w) \/ ReleaseUncertain(w)
  <2>1. cur[w] \in Intent /\ UNCHANGED <<mails, captured>>
    BY <1>0, <1>3 DEF GateStops, ReleaseUncertain
  <2>2. CASE token[cur[w]] # w
    <3>1. UNCHANGED state
      BY <1>3, <2>2 DEF GateStops, ReleaseUncertain, Release
    <3> QED BY <2>1, <3>1, SameFates
  <2>3. CASE token[cur[w]] = w
    <3>1. state[cur[w]] \in Open
      BY <2>1, <2>3, SendAssumption DEF SInv, Claims, Open
    <3>2. PICK to \in Stopped \cup {"uncertain"} :
            state' = [state EXCEPT ![cur[w]] = to]
      BY <1>3, <2>3 DEF GateStops, ReleaseUncertain, Release, Stopped
    <3>3. \A i \in Intent : state'[i] = IF i = cur[w] THEN to ELSE state[i]
      BY <2>1, <3>2 DEF SInv, TypeOK
    <3>4. CASE to \in Stopped
      <4>1. {cur[w]} \in SUBSET Intent
        BY <2>1
      <4>2. /\ \A i \in {cur[w]} : state[i] \in Open /\ state'[i] \in Stopped
            /\ \A i \in Intent \ {cur[w]} : state'[i] = state[i]
        BY <2>1, <3>1, <3>3, <3>4
      <4> QED BY <2>1, <4>1, <4>2, StoppedFates
    <3>5. CASE to = "uncertain"
      BY <2>1, <3>1, <3>3, <3>5, SameFates DEF Open
    <3> QED BY <3>4, <3>5
  <2> QED BY <2>2, <2>3
<1>4. CASE CaptureSend(w) \/ ProviderAccepts(w)
  <2>1. /\ cur[w] \in Intent /\ Fate[cur[w]] = "open"
        /\ UNCHANGED Fate
    BY <1>0, <1>4, FateOf DEF CaptureSend, ProviderAccepts, SInv, Claims, Fate, Open
  <2>2. CASE CaptureSend(w)
    <3>1. L!Capture(cur[w])
      BY <2>1, <2>2 DEF CaptureSend, L!Capture
    <3> QED BY <2>1, <3>1 DEF L!Next
  <2>3. CASE ProviderAccepts(w)
    <3>1. UNCHANGED captured
          /\ (UNCHANGED mails \/ mails' = [mails EXCEPT ![cur[w]] = @ + 1])
      BY <2>1, <2>3 DEF ProviderAccepts, SInv, TypeOK
    <3>2. UNCHANGED L!vars \/ L!Mail(cur[w])
      BY <2>1, <3>1 DEF L!Mail, L!vars
    <3> QED BY <2>1, <3>2 DEF L!Next
  <2> QED BY <1>4, <2>2, <2>3
<1>5. CASE RecordProviderAccepted(w)
  <2>1. /\ cur[w] \in Intent /\ state[cur[w]] = "claimed" /\ token[cur[w]] = w
        /\ mails[cur[w]] > 0 \/ cur[w] \in captured
    BY <1>0, <1>5 DEF RecordProviderAccepted, SInv, Claims, Answers
  <2>2. /\ state' = [state EXCEPT ![cur[w]] = "provider_accepted"]
        /\ UNCHANGED <<mails, captured>>
    BY <1>5, <2>1 DEF RecordProviderAccepted
  <2>3. Fate[cur[w]] = "open" /\ Fate' = [Fate EXCEPT ![cur[w]] = "sent"]
    BY <2>1, <2>2, FateOf DEF Fate, SInv, TypeOK, Open, Filed
  <2>4. L!File(cur[w])
    BY <2>1, <2>2, <2>3 DEF L!File
  <2> QED BY <2>1, <2>4 DEF L!Next
<1> QED BY <1>1, <1>2, <1>3, <1>4, <1>5 DEF DispatchStep

LEMMA LetterStep ==
  ASSUME SInv, [Next]_vars
  PROVE  [L!Next]_L!vars
<1> USE DEF rowVars, workerVars, providerVars
<1>1. ASSUME UNCHANGED <<state, mails, captured>> PROVE [L!Next]_L!vars
  BY <1>1, SameFates
<1>2. ASSUME NEW i \in Intent, QueueSend(i) PROVE L!Next
  <2>1. state[i] = "none" /\ state' = [state EXCEPT ![i] = "queued"]
        /\ UNCHANGED <<mails, captured>>
    BY <1>2 DEF QueueSend
  <2>2. Fate[i] = "none" /\ Fate' = [Fate EXCEPT ![i] = "open"]
    BY <2>1, FateOf DEF Fate, SInv, TypeOK, Open
  <2>3. L!Write(i)
    BY <2>1, <2>2 DEF L!Write
  <2> QED BY <2>3 DEF L!Next
<1>3. ASSUME NEW i \in Intent, StopQueued(i) PROVE L!Next
  <2>1. UNCHANGED <<mails, captured>>
    BY <1>3 DEF StopQueued
  <2>2. /\ \A j \in {i} : state[j] \in Open /\ state'[j] \in Stopped
        /\ \A j \in Intent \ {i} : state'[j] = state[j]
    BY <1>3 DEF StopQueued, SInv, TypeOK, Open, Stopped
  <2>3. {i} \in SUBSET Intent
    OBVIOUS
  <2> QED BY <2>1, <2>2, <2>3, StoppedFates
<1>4. CASE DeleteContact
  <2> DEFINE S == {i \in Intent : state[i] \in {"queued", "uncertain"}}
  <2>1. UNCHANGED <<mails, captured>> /\ S \in SUBSET Intent
    BY <1>4 DEF DeleteContact
  <2>2. /\ \A j \in S : state[j] \in Open /\ state'[j] \in Stopped
        /\ \A j \in Intent \ S : state'[j] = state[j]
    BY <1>4 DEF DeleteContact, Open, Stopped
  <2> HIDE DEF S
  <2> QED BY <2>1, <2>2, StoppedFates
<1>5. ASSUME NEW w \in Worker, DispatchStep(w) PROVE [L!Next]_L!vars
  BY <1>5, LetterDispatch
<1>6. ASSUME NEW h \in Hook, WebhookWrite(h) PROVE [L!Next]_L!vars
  <2>1. hook[h] # NoHook
    BY <1>6 DEF WebhookWrite
  <2>2. hook[h] \in [i : Intent, status : Status, saw : Filed]
    BY <2>1, Zenon DEF SInv, TypeOK
  <2>3. hook[h].i \in Intent /\ hook[h].status \in Status
    BY <2>2
  <2>4. state[hook[h].i] \in Filed /\ hook[h].status \in Filed
    BY <2>1, <2>3 DEF SInv, Answers, Filed
  <2>5. \A j \in Intent : \/ state'[j] = state[j]
                          \/ state[j] \in Filed /\ state'[j] \in Filed
    BY <1>6, <2>3, <2>4 DEF WebhookWrite, SInv, TypeOK
  <2>6. UNCHANGED <<mails, captured>>
    BY <1>6 DEF WebhookWrite
  <2> QED BY <2>5, <2>6, SameFates
<1>7. CASE \/ \E i \in Intent : ReplayDead(i)
           \/ \E w \in Worker : Crash(w) \/ \E i \in Intent : LeaseJob(w, i)
           \/ \E h \in Hook : \/ WebhookAborts(h)
                             \/ \E i \in Intent, s \in Status :
                                  \E n \in 1 .. mails[i] : WebhookRead(h, i, n, s)
           \/ OptOut \/ Tick \/ UNCHANGED vars
  BY <1>1, <1>7 DEF ReplayDead, Crash, EndDispatch, LeaseJob, WebhookAborts,
     WebhookRead, OptOut, Tick, vars
<1> QED BY <1>2, <1>3, <1>4, <1>5, <1>6, <1>7
        DEF Next, WebhookStep, TakeJob, TakeOver

\* Outbound email keeps the letter's promise: mail goes out only for an open letter,
\* what is filed as sent was mailed or captured, and sent and stopped are final.
THEOREM SendImplementsLetter == Spec => ImplementsLetter
<1>1. Init => L!Init
  BY FateOf DEF Init, L!Init, Fate
<1>2. SInv /\ [Next]_vars => [L!Next]_L!vars
  BY LetterStep
<1> QED BY <1>1, <1>2, SInvAlways, PTL DEF Spec, ImplementsLetter, L!Spec
=============================================================================
