--------------------------- MODULE Requests_proofs ---------------------------
(***************************************************************************)
(* Proofs about module Requests from a stored first revision on, for every *)
(* set of messages, drafts and workers and every bound.                    *)
(***************************************************************************)
EXTENDS Requests, TLAPS

\* Where a handler has a draft in its hands.
Carrying ==
  {"autosend", "queueauto", "finish", "review", "approve", "approving", "queue",
   "expire", "expired", "giveup", "again", "reorder", "gate", "submit", "refuse",
   "file", "filed", "promised"}

InHand ==
  \A w \in Worker :
    /\ pc[w] \in Carrying => doc[w] \in Draft
    /\ pc[w] \in {"research", "sources"} => cur[w] \in ResearchJob
    /\ pc[w] = "send" => cur[w] \in SendJob
    /\ pc[w] = "expire" => doc[w] \in old

USE DEF requestVars, draftVars, mailVars, jobVars, workVars, pastVars, historyVars,
        InInterpret, InResearch, InApproval, InDispatch

-----------------------------------------------------------------------------
(* What the handlers share keeps its type. *)

LEMMA NamedStates ==
  /\ Settled \subseteq State
  /\ {"received", "awaiting_review", "manual_attention"} \subseteq State
  /\ {"researching", "recommendation_sent", "closed"} \subseteq State
  BY DEF State, Settled

LEMMA TransitionType ==
  ASSUME state \in State, held \in BOOLEAN, NEW to \in State, Transition(to)
  PROVE  state' \in State /\ held' \in BOOLEAN
  BY DEF Transition

LEMMA ParkType ==
  ASSUME NEW reason, Park(reason)
  PROVE  state' \in State /\ held' \in BOOLEAN
  BY NamedStates DEF Park

LEMMA EnqueueType ==
  ASSUME job \in [Job -> JobState], NEW j, Enqueue(j)
  PROVE  job' \in [Job -> JobState]
  BY DEF Enqueue, JobState

LEMMA GotoType ==
  ASSUME pc \in [Worker -> Label], NEW w, NEW label \in Label, Goto(w, label)
  PROVE  pc' \in [Worker -> Label]
  BY DEF Goto

LEMMA WithdrawType ==
  ASSUME status \in [Draft -> Review], withdrawn \subseteq Draft,
         NEW ds \in SUBSET Draft, Withdraw(ds)
  PROVE  status' \in [Draft -> Review] /\ withdrawn' \subseteq Draft
  BY DEF Withdraw, Review

LEMMA QueueSendType ==
  ASSUME state \in State, held \in BOOLEAN, kept \subseteq Draft,
         mail \in [Draft -> MailState], job \in [Job -> JobState],
         NEW d \in Draft, QueueSend(d)
  PROVE  /\ state' \in State /\ held' \in BOOLEAN /\ kept' \subseteq Draft
         /\ mail' \in [Draft -> MailState] /\ job' \in [Job -> JobState]
  BY ParkType, EnqueueType DEF QueueSend, MailState

LEMMA LetGoType ==
  ASSUME pc \in [Worker -> Label], cur \in [Worker -> Job \cup {NoJob}],
         at \in [Worker -> 1 .. MaxRev + 1], doc \in [Worker -> Draft \cup {NoDraft}],
         RequestsAssumption, NEW w, NEW label \in Label, LetGo(w, label)
  PROVE  /\ pc' \in [Worker -> Label] /\ cur' \in [Worker -> Job \cup {NoJob}]
         /\ at' \in [Worker -> 1 .. MaxRev + 1]
         /\ doc' \in [Worker -> Draft \cup {NoDraft}]
<1>1. 1 \in 1 .. MaxRev + 1
  BY DEF RequestsAssumption
<1> QED
  BY <1>1, GotoType DEF LetGo

LEMMA EndJobType ==
  ASSUME job \in [Job -> JobState], lease \in [Job -> Worker \cup {NoWorker}],
         NEW w, NEW to \in JobState, EndJob(w, to)
  PROVE  job' \in [Job -> JobState] /\ lease' \in [Job -> Worker \cup {NoWorker}]
  BY DEF EndJob

-----------------------------------------------------------------------------
LEMMA TypeEnvironment ==
  ASSUME TypeOK, RequestsAssumption,
         \/ \E m \in Message : MessageArrives(m)
         \/ \E d \in Draft : DraftAges(d) \/ \E w \in Worker : StaffOpens(w, d)
         \/ EventChanges \/ StaffOrdersResearch \/ StaffReplies \/ RemoveRequest
  PROVE  TypeOK'
<1> USE DEF Act, Goto
<1>1. ASSUME NEW m \in Message, MessageArrives(m) PROVE TypeOK'
  <2>1. state' \in State
    BY <1>1, NamedStates DEF TypeOK, MessageArrives
  <2>2. job' \in [Job -> JobState]
    BY <1>1, EnqueueType DEF TypeOK, MessageArrives
  <2> QED
    BY <1>1, <2>1, <2>2 DEF TypeOK, MessageArrives
<1>2. ASSUME NEW d \in Draft, DraftAges(d) PROVE TypeOK'
  BY <1>2 DEF TypeOK, DraftAges
<1>3. ASSUME NEW d \in Draft, NEW w \in Worker, StaffOpens(w, d) PROVE TypeOK'
  BY <1>3 DEF TypeOK, StaffOpens, Label
<1>4. ASSUME EventChanges PROVE TypeOK'
  BY <1>4 DEF TypeOK, EventChanges
<1>5. ASSUME StaffOrdersResearch PROVE TypeOK'
  <2>1. job' \in [Job -> JobState]
    BY <1>5, EnqueueType DEF TypeOK, StaffOrdersResearch
  <2> QED
    BY <1>5, <2>1 DEF TypeOK, StaffOrdersResearch
<1>6. ASSUME StaffReplies PROVE TypeOK'
  <2>1. state' \in State /\ held' \in BOOLEAN
    BY <1>6, NamedStates DEF StaffReplies
  <2> QED
    BY <1>6, <2>1 DEF TypeOK, StaffReplies
<1>7. ASSUME RemoveRequest PROVE TypeOK'
  <2>1. state' \in State /\ held' \in BOOLEAN /\ removed' \in BOOLEAN
    BY <1>7, NamedStates DEF RemoveRequest
  <2>2. /\ mail' \in [Draft -> MailState] /\ status' \in [Draft -> Review]
        /\ job' \in [Job -> JobState]
    BY <1>7 DEF TypeOK, RemoveRequest, MailState, Review, JobState
  <2> QED
    BY <1>7, <2>1, <2>2 DEF TypeOK, RemoveRequest
<1> QED
  BY <1>1, <1>2, <1>3, <1>4, <1>5, <1>6, <1>7

-----------------------------------------------------------------------------
LEMMA JobLabels ==
  ASSUME NEW j \in Job
  PROVE  /\ j.kind \in {"interpret", "research", "send"}
         /\ j.kind = "research" => j \in ResearchJob
         /\ j.kind = "send" => j \in SendJob
<1>1. CASE j \in InterpretJob
  BY <1>1 DEF InterpretJob
<1>2. CASE j \in ResearchJob
  BY <1>2 DEF ResearchJob
<1>3. CASE j \in SendJob
  BY <1>3 DEF SendJob
<1> QED
  BY <1>1, <1>2, <1>3 DEF Job

LEMMA LeaseJobType ==
  ASSUME TypeOK, RequestsAssumption, NEW w \in Worker, NEW j \in Job, LeaseJob(w, j),
         faults' \in 0 .. MaxFaults
  PROVE  TypeOK'
<1>1. job' \in [Job -> JobState]
  BY DEF LeaseJob, TypeOK, JobState
<1>2. lease' \in [Job -> Worker \cup {NoWorker}]
  BY DEF LeaseJob, TypeOK
<1>3. tries' \in [Job -> 0 .. Budget]
  BY DEF LeaseJob, TypeOK, RequestsAssumption
<1>4. pc' \in [Worker -> Label]
  <2>1. j.kind \in Label
    BY JobLabels DEF Label
  <2> QED
    BY <2>1, GotoType DEF LeaseJob, TypeOK
<1>5. cur' \in [Worker -> Job \cup {NoJob}]
  BY DEF LeaseJob, TypeOK
<1> QED
  BY <1>1, <1>2, <1>3, <1>4, <1>5 DEF TypeOK, LeaseJob

LEMMA TypeOutbox ==
  ASSUME TypeOK, RequestsAssumption,
         \/ \E j \in Job : ReplayDead(j)
         \/ \E w \in Worker, j \in Job : TakeJob(w, j) \/ TakeOver(w, j)
         \/ \E w \in Worker : \/ MarkDispatched(w) \/ MarkFailed(w)
                            \/ HandOffFailedWork(w) \/ StepFails(w) \/ Crash(w)
  PROVE  TypeOK'
<1>1. ASSUME NEW j \in Job, ReplayDead(j) PROVE TypeOK'
  <2>1. job' \in [Job -> JobState]
    BY <1>1 DEF ReplayDead, TypeOK, JobState
  <2>2. tries' \in [Job -> 0 .. Budget]
    BY <1>1 DEF ReplayDead, TypeOK, RequestsAssumption
  <2> QED
    BY <1>1, <2>1, <2>2 DEF TypeOK, ReplayDead, Act
<1>2. ASSUME NEW w \in Worker, NEW j \in Job, TakeJob(w, j) PROVE TypeOK'
  BY <1>2, LeaseJobType DEF TakeJob, TypeOK
<1>3. ASSUME NEW w \in Worker, NEW j \in Job, TakeOver(w, j) PROVE TypeOK'
  <2>1. faults' \in 0 .. MaxFaults
    BY <1>3 DEF TakeOver, TypeOK, RequestsAssumption
  <2> QED
    BY <1>3, <2>1, LeaseJobType DEF TakeOver
<1>4. ASSUME NEW w \in Worker, MarkDispatched(w) PROVE TypeOK'
  <2>1. job' \in [Job -> JobState] /\ lease' \in [Job -> Worker \cup {NoWorker}]
    <3>1. "done" \in JobState
      BY DEF JobState
    <3> QED
      BY <1>4, <3>1, EndJobType DEF MarkDispatched, TypeOK
  <2>2. "idle" \in Label
    BY DEF Label
  <2>3. /\ pc' \in [Worker -> Label] /\ cur' \in [Worker -> Job \cup {NoJob}]
        /\ at' \in [Worker -> 1 .. MaxRev + 1]
        /\ doc' \in [Worker -> Draft \cup {NoDraft}]
    BY <1>4, <2>2, LetGoType DEF MarkDispatched, TypeOK
  <2> QED
    BY <1>4, <2>1, <2>3 DEF TypeOK, MarkDispatched
<1>5. ASSUME NEW w \in Worker, MarkFailed(w) PROVE TypeOK'
  <2>1. job' \in [Job -> JobState] /\ lease' \in [Job -> Worker \cup {NoWorker}]
    <3>1. "dead" \in JobState /\ "pending" \in JobState
      BY DEF JobState
    <3> QED
      BY <1>5, <3>1, EndJobType DEF MarkFailed, TypeOK
  <2>2. "idle" \in Label /\ "handoff" \in Label
    BY DEF Label
  <2>3. /\ pc' \in [Worker -> Label] /\ cur' \in [Worker -> Job \cup {NoJob}]
        /\ at' \in [Worker -> 1 .. MaxRev + 1]
        /\ doc' \in [Worker -> Draft \cup {NoDraft}]
    BY <1>5, <2>2, LetGoType DEF MarkFailed, TypeOK
  <2> QED
    BY <1>5, <2>1, <2>3 DEF TypeOK, MarkFailed
<1>6. ASSUME NEW w \in Worker, HandOffFailedWork(w) PROVE TypeOK'
  <2>1. state' \in State /\ held' \in BOOLEAN
    BY <1>6, ParkType DEF HandOffFailedWork, TypeOK
  <2>2. pc' \in [Worker -> Label]
    BY <1>6, GotoType DEF HandOffFailedWork, TypeOK, Label
  <2> QED
    BY <1>6, <2>1, <2>2 DEF TypeOK, HandOffFailedWork
<1>7. ASSUME NEW w \in Worker, StepFails(w) PROVE TypeOK'
  <2>1. pc' \in [Worker -> Label]
    BY <1>7, GotoType DEF StepFails, TypeOK, Label
  <2>2. faults' \in 0 .. MaxFaults
    BY <1>7 DEF StepFails, TypeOK, RequestsAssumption
  <2> QED
    BY <1>7, <2>1, <2>2 DEF TypeOK, StepFails
<1>8. ASSUME NEW w \in Worker, Crash(w) PROVE TypeOK'
  <2>1. "idle" \in Label
    BY DEF Label
  <2>2. /\ pc' \in [Worker -> Label] /\ cur' \in [Worker -> Job \cup {NoJob}]
        /\ at' \in [Worker -> 1 .. MaxRev + 1]
        /\ doc' \in [Worker -> Draft \cup {NoDraft}]
    BY <1>8, <2>1, LetGoType DEF Crash, TypeOK
  <2>3. faults' \in 0 .. MaxFaults
    BY <1>8 DEF Crash, TypeOK, RequestsAssumption
  <2> QED
    BY <1>8, <2>2, <2>3 DEF TypeOK, Crash
<1> QED
  BY <1>1, <1>2, <1>3, <1>4, <1>5, <1>6, <1>7, <1>8
-----------------------------------------------------------------------------
(* The handlers keep the type. *)

LEMMA ResearchJobRev ==
  ASSUME NEW j \in ResearchJob
  PROVE  j.rev \in 1 .. MaxRev
  BY DEF ResearchJob

LEMMA SendJobDraft ==
  ASSUME NEW j \in SendJob
  PROVE  j.draft \in Draft
  BY DEF SendJob

LEMMA TypeInterpret ==
  ASSUME TypeOK, RequestsAssumption, RevisionsInOrder, NEW w \in Worker,
         InterpretStep(w) \/ ReplyIsHeld(w)
  PROVE  TypeOK'
<1> USE NamedStates
<1>1. CASE InterpretReads(w)
  <2>1. pc' \in [Worker -> Label]
    BY <1>1, GotoType DEF InterpretReads, TypeOK, Label
  <2>2. PICK r \in {1, rev + 1} : at' = [at EXCEPT ![w] = r]
    BY <1>1 DEF InterpretReads
  <2>3. r \in 1 .. MaxRev + 1
    BY <2>2 DEF TypeOK, RequestsAssumption
  <2>4. at' \in [Worker -> 1 .. MaxRev + 1]
    BY <2>2, <2>3 DEF TypeOK
  <2> QED
    BY <1>1, <2>1, <2>4 DEF TypeOK, InterpretReads
<1>2. CASE InterpretAside(w)
  <2>1. pc' \in [Worker -> Label]
    BY <1>2, GotoType DEF InterpretAside, TypeOK, Label
  <2>2. state' \in State /\ held' \in BOOLEAN
    BY <1>2, TransitionType, ParkType DEF InterpretAside, TypeOK, RequestsAssumption
  <2> QED
    BY <1>2, <2>1, <2>2 DEF TypeOK, InterpretAside
<1>3. CASE WriteVersion(w)
  <2>1. pc' \in [Worker -> Label]
    BY <1>3, GotoType DEF WriteVersion, TypeOK, Label
  <2>2. versions' \subseteq 1 .. MaxRev
    <3>1. at[w] \in 1 .. MaxRev
      BY <1>3 DEF WriteVersion, TypeOK, RequestsAssumption
    <3> QED
      BY <1>3, <3>1 DEF WriteVersion, TypeOK
  <2> QED
    BY <1>3, <2>1, <2>2 DEF TypeOK, WriteVersion
<1>4. CASE SetRevision(w)
  <2>1. pc' \in [Worker -> Label]
    BY <1>4, GotoType DEF SetRevision, TypeOK, Label
  <2>2. rev' \in 1 .. MaxRev
    BY <1>4 DEF SetRevision, TypeOK, RevisionsInOrder
  <2> QED
    BY <1>4, <2>1, <2>2 DEF TypeOK, SetRevision
<1>5. CASE InvalidateDrafts(w)
  <2>1. pc' \in [Worker -> Label]
    BY <1>5, GotoType DEF InvalidateDrafts, TypeOK, Label
  <2>2. status' \in [Draft -> Review] /\ withdrawn' \subseteq Draft
    BY <1>5, WithdrawType DEF InvalidateDrafts, TypeOK
  <2> QED
    BY <1>5, <2>1, <2>2 DEF TypeOK, InvalidateDrafts
<1>6. CASE BlockQueued(w)
  <2>1. pc' \in [Worker -> Label]
    BY <1>6, GotoType DEF BlockQueued, TypeOK, Label
  <2>2. mail' \in [Draft -> MailState]
    BY <1>6 DEF BlockQueued, TypeOK, MailState
  <2> QED
    BY <1>6, <2>1, <2>2 DEF TypeOK, BlockQueued
<1>7. CASE Settle(w)
  <2>1. pc' \in [Worker -> Label]
    BY <1>7, GotoType DEF Settle, TypeOK, Label
  <2>2. state' \in State /\ held' \in BOOLEAN
    BY <1>7, TransitionType, ParkType DEF Settle, TypeOK, RequestsAssumption
  <2> QED
    BY <1>7, <2>1, <2>2 DEF TypeOK, Settle
<1>8. CASE OrderResearch(w)
  <2>1. pc' \in [Worker -> Label]
    BY <1>8, GotoType DEF OrderResearch, TypeOK, Label
  <2>2. job' \in [Job -> JobState]
    BY <1>8, EnqueueType DEF OrderResearch, TypeOK
  <2> QED
    BY <1>8, <2>1, <2>2 DEF TypeOK, OrderResearch
<1>9. CASE ReplyIsHeld(w)
  <2>1. state' \in State /\ held' \in BOOLEAN
    BY <1>9, ParkType DEF ReplyIsHeld
  <2> QED
    BY <1>9, <2>1 DEF TypeOK, ReplyIsHeld
<1> QED
  BY <1>1, <1>2, <1>3, <1>4, <1>5, <1>6, <1>7, <1>8, <1>9 DEF InterpretStep

LEMMA TypeResearch ==
  ASSUME TypeOK, RequestsAssumption, InHand, NEW w \in Worker, ResearchStep(w)
  PROVE  TypeOK'
<1> USE NamedStates
<1>1. CASE StartResearch(w)
  <2>1. pc' \in [Worker -> Label]
    BY <1>1, GotoType DEF StartResearch, TypeOK, Label
  <2> QED
    BY <1>1, <2>1 DEF TypeOK, StartResearch
<1>2. CASE InsertDraft(w)
  <2>1. PICK d \in Draft :
          /\ status' = [status EXCEPT ![d] = "pending"]
          /\ about' = [about EXCEPT ![d] = cur[w].rev]
          /\ doc' = [doc EXCEPT ![w] = d]
          /\ \/ listed' = listed \cup {d} /\ Goto(w, "review")
             \/ UNCHANGED listed /\ \E label \in {"review", "autosend"} : Goto(w, label)
    BY <1>2 DEF InsertDraft, Unused
  <2>2. cur[w].rev \in 1 .. MaxRev
    BY <1>2, ResearchJobRev DEF InsertDraft, InHand
  <2>3. pc' \in [Worker -> Label]
    BY <2>1, GotoType DEF TypeOK, Label
  <2>4. status' \in [Draft -> Review]
    BY <2>1 DEF TypeOK, Review
  <2>5. about' \in [Draft -> 1 .. MaxRev]
    BY <2>1, <2>2 DEF TypeOK
  <2>6. doc' \in [Worker -> Draft \cup {NoDraft}]
    BY <2>1 DEF TypeOK
  <2>7. listed' \subseteq Draft
    BY <2>1 DEF TypeOK
  <2> QED
    BY <1>2, <2>3, <2>4, <2>5, <2>6, <2>7 DEF TypeOK, InsertDraft
<1>3. CASE MarkAutoSent(w)
  <2>1. pc' \in [Worker -> Label]
    BY <1>3, GotoType DEF MarkAutoSent, TypeOK, Label
  <2>2. status' \in [Draft -> Review]
    BY <1>3 DEF MarkAutoSent, TypeOK, Review
  <2> QED
    BY <1>3, <2>1, <2>2 DEF TypeOK, MarkAutoSent
<1>4. CASE QueueAutoSend(w)
  <2>1. doc[w] \in Draft
    BY <1>4 DEF QueueAutoSend, InHand, Carrying
  <2>2. pc' \in [Worker -> Label]
    BY <1>4, GotoType DEF QueueAutoSend, TypeOK, Label
  <2>3. /\ state' \in State /\ held' \in BOOLEAN /\ kept' \subseteq Draft
        /\ mail' \in [Draft -> MailState] /\ job' \in [Job -> JobState]
    BY <1>4, <2>1, QueueSendType DEF QueueAutoSend, TypeOK
  <2> QED
    BY <1>4, <2>2, <2>3 DEF TypeOK, QueueAutoSend
<1>5. CASE FinishResearch(w)
  <2>1. pc' \in [Worker -> Label]
    BY <1>5, GotoType DEF FinishResearch, TypeOK, Label
  <2>2. state' \in State /\ held' \in BOOLEAN
    BY <1>5, TransitionType DEF FinishResearch, TypeOK
  <2> QED
    BY <1>5, <2>1, <2>2 DEF TypeOK, FinishResearch
<1> QED
  BY <1>1, <1>2, <1>3, <1>4, <1>5 DEF ResearchStep
LEMMA TypeApproval ==
  ASSUME TypeOK, RequestsAssumption, InHand, NEW w \in Worker, ApprovalStep(w)
  PROVE  TypeOK'
<1> USE NamedStates
<1>0. Back(w) \in Label
  BY DEF Back, Label
<1>1. CASE ApproveChecks(w)
  <2>1. doc[w] \in Draft
    BY <1>1 DEF ApproveChecks, InHand, Carrying
  <2>2. {doc[w]} \in SUBSET Draft
    BY <2>1
  <2>3. pc' \in [Worker -> Label]
    BY <1>1, GotoType DEF ApproveChecks, TypeOK, Label
  <2>4. status' \in [Draft -> Review] /\ withdrawn' \subseteq Draft
    BY <1>1, <2>2, WithdrawType DEF ApproveChecks, TypeOK
  <2>5. noted' \subseteq Draft
    BY <1>1 DEF ApproveChecks, TypeOK
  <2> QED
    BY <1>1, <2>3, <2>4, <2>5 DEF TypeOK, ApproveChecks
<1>2. CASE Approve(w)
  <2>1. pc' \in [Worker -> Label]
    BY <1>2, GotoType DEF Approve, TypeOK, Label
  <2>2. status' \in [Draft -> Review]
    BY <1>2 DEF Approve, TypeOK, Review
  <2> QED
    BY <1>2, <2>1, <2>2 DEF TypeOK, Approve
<1>3. CASE QueueApproved(w)
  <2>1. doc[w] \in Draft
    BY <1>3 DEF QueueApproved, InHand, Carrying
  <2>2. pc' \in [Worker -> Label]
    BY <1>3, GotoType DEF QueueApproved, TypeOK, Label
  <2>3. /\ state' \in State /\ held' \in BOOLEAN /\ kept' \subseteq Draft
        /\ mail' \in [Draft -> MailState] /\ job' \in [Job -> JobState]
    BY <1>3, <2>1, QueueSendType DEF QueueApproved, TypeOK
  <2> QED
    BY <1>3, <2>1, <2>2, <2>3 DEF TypeOK, QueueApproved
<1>4. CASE ExpireDraft(w)
  <2>1. doc[w] \in Draft
    BY <1>4 DEF ExpireDraft, InHand, Carrying
  <2>2. {doc[w]} \in SUBSET Draft
    BY <2>1
  <2>3. pc' \in [Worker -> Label]
    BY <1>4, GotoType DEF ExpireDraft, TypeOK, Label
  <2>4. status' \in [Draft -> Review] /\ withdrawn' \subseteq Draft
    BY <1>4, <2>2, WithdrawType DEF ExpireDraft, TypeOK
  <2> QED
    BY <1>4, <2>1, <2>3, <2>4 DEF TypeOK, ExpireDraft
<1>5. CASE ReresearchChecks(w)
  <2>1. pc' \in [Worker -> Label]
    BY <1>5, <1>0, GotoType DEF ReresearchChecks, TypeOK, Label
  <2> QED
    BY <1>5, <2>1 DEF TypeOK, ReresearchChecks
<1>6. CASE GiveUp(w)
  <2>1. pc' \in [Worker -> Label]
    BY <1>6, <1>0, GotoType DEF GiveUp, TypeOK
  <2>2. state' \in State /\ held' \in BOOLEAN
    BY <1>6, ParkType DEF GiveUp
  <2> QED
    BY <1>6, <2>1, <2>2 DEF TypeOK, GiveUp
<1>7. CASE ResearchAgain(w)
  <2>1. pc' \in [Worker -> Label]
    BY <1>7, GotoType DEF ResearchAgain, TypeOK, Label
  <2>2. state' \in State /\ held' \in BOOLEAN
    BY <1>7, TransitionType DEF ResearchAgain, TypeOK
  <2> QED
    BY <1>7, <2>1, <2>2 DEF TypeOK, ResearchAgain
<1>8. CASE OrderAgain(w)
  <2>1. pc' \in [Worker -> Label]
    BY <1>8, <1>0, GotoType DEF OrderAgain, TypeOK
  <2>2. job' \in [Job -> JobState]
    BY <1>8, EnqueueType DEF OrderAgain, TypeOK
  <2> QED
    BY <1>8, <2>1, <2>2 DEF TypeOK, OrderAgain
<1> QED
  BY <1>1, <1>2, <1>3, <1>4, <1>5, <1>6, <1>7, <1>8 DEF ApprovalStep

LEMMA TypeDispatch ==
  ASSUME TypeOK, RequestsAssumption, InHand, NEW w \in Worker, DispatchStep(w)
  PROVE  TypeOK'
<1> USE NamedStates
<1>1. CASE ClaimMail(w)
  <2>1. cur[w].draft \in Draft
    BY <1>1, SendJobDraft DEF ClaimMail, InHand
  <2>2. pc' \in [Worker -> Label]
    BY <1>1, GotoType DEF ClaimMail, TypeOK, Label
  <2>3. mail' \in [Draft -> MailState]
    BY <1>1 DEF ClaimMail, TypeOK, MailState
  <2>4. doc' \in [Worker -> Draft \cup {NoDraft}]
    BY <1>1, <2>1 DEF ClaimMail, TypeOK
  <2> QED
    BY <1>1, <2>2, <2>3, <2>4 DEF TypeOK, ClaimMail
<1>2. CASE GateAllows(w)
  <2>1. pc' \in [Worker -> Label]
    BY <1>2, GotoType DEF GateAllows, TypeOK, Label
  <2> QED
    BY <1>2, <2>1 DEF TypeOK, GateAllows
<1>3. CASE GateRefuses(w)
  <2>1. doc[w] \in Draft
    BY <1>3 DEF GateRefuses, InHand, Carrying
  <2>2. {doc[w]} \in SUBSET Draft
    BY <2>1
  <2>3. pc' \in [Worker -> Label]
    BY <1>3, GotoType DEF GateRefuses, TypeOK, Label
  <2>4. status' \in [Draft -> Review] /\ withdrawn' \subseteq Draft
    BY <1>3, <2>2, WithdrawType DEF GateRefuses, TypeOK
  <2>5. noted' \subseteq Draft
    BY <1>3 DEF GateRefuses, TypeOK
  <2> QED
    BY <1>3, <2>3, <2>4, <2>5 DEF TypeOK, GateRefuses
<1>4. CASE RefuseMail(w)
  <2>1. pc' \in [Worker -> Label]
    BY <1>4, GotoType DEF RefuseMail, TypeOK, Label
  <2>2. mail' \in [Draft -> MailState]
    BY <1>4 DEF RefuseMail, TypeOK, MailState
  <2> QED
    BY <1>4, <2>1, <2>2 DEF TypeOK, RefuseMail
<1>5. CASE SubmitMail(w)
  <2>1. pc' \in [Worker -> Label]
    BY <1>5, GotoType DEF SubmitMail, TypeOK, Label
  <2>2. mail' \in [Draft -> MailState]
    BY <1>5 DEF SubmitMail, TypeOK, MailState
  <2> QED
    BY <1>5, <2>1, <2>2 DEF TypeOK, SubmitMail
<1>6. CASE FileSent(w)
  <2>1. pc' \in [Worker -> Label]
    BY <1>6, GotoType DEF FileSent, TypeOK, Label
  <2>2. status' \in [Draft -> Review]
    BY <1>6 DEF FileSent, TypeOK, Review
  <2> QED
    BY <1>6, <2>1, <2>2 DEF TypeOK, FileSent
<1>7. CASE FileRequest(w)
  <2>1. pc' \in [Worker -> Label]
    BY <1>7, GotoType DEF FileRequest, TypeOK, Label
  <2>2. state' \in State /\ held' \in BOOLEAN
    BY <1>7, TransitionType DEF FileRequest, TypeOK
  <2> QED
    BY <1>7, <2>1, <2>2 DEF TypeOK, FileRequest
<1>8. CASE KeepPromise(w)
  <2>1. pc' \in [Worker -> Label]
    BY <1>8, GotoType DEF KeepPromise, TypeOK, Label
  <2>2. state' \in State /\ held' \in BOOLEAN
    BY <1>8, ParkType DEF KeepPromise, TypeOK
  <2> QED
    BY <1>8, <2>1, <2>2 DEF TypeOK, KeepPromise
<1> QED
  BY <1>1, <1>2, <1>3, <1>4, <1>5, <1>6, <1>7, <1>8 DEF DispatchStep
-----------------------------------------------------------------------------
(* The numbering of revisions.  A handler that has read the request numbers its     *)
(* revision at most one ahead, and one that invalidates is not ahead at all.        *)

ReadingInOrder ==
  \A w \in Worker :
    /\ pc[w] = "reading" => at[w] <= rev + 1
    /\ pc[w] = "invalidate" => at[w] <= rev

Numbering == RevisionsInOrder /\ ReadingInOrder

LEMMA NumberingFrame ==
  ASSUME Numbering, rev' = rev, versions' = versions,
         \A v \in Worker : \/ pc'[v] = pc[v] /\ at'[v] = at[v]
                           \/ pc'[v] \notin {"reading", "revise", "invalidate"}
  PROVE  Numbering'
  BY DEF Numbering, RevisionsInOrder, ReadingInOrder

LEMMA NumberingEnvironment ==
  ASSUME TypeOK, Numbering,
         \/ \E m \in Message : MessageArrives(m)
         \/ \E d \in Draft : DraftAges(d) \/ \E w \in Worker : StaffOpens(w, d)
         \/ EventChanges \/ StaffOrdersResearch \/ StaffReplies \/ RemoveRequest
  PROVE  Numbering'
<1>1. rev' = rev /\ versions' = versions /\ at' = at
  BY DEF MessageArrives, DraftAges, StaffOpens, EventChanges, StaffOrdersResearch,
         StaffReplies, RemoveRequest
<1>2. \A v \in Worker : pc'[v] = pc[v] \/ pc'[v] = "approve"
  BY DEF MessageArrives, DraftAges, StaffOpens, EventChanges, StaffOrdersResearch,
         StaffReplies, RemoveRequest, Goto, TypeOK
<1> QED
  BY <1>1, <1>2, NumberingFrame

LEMMA NumberingOutbox ==
  ASSUME TypeOK, Numbering,
         \/ \E j \in Job : ReplayDead(j)
         \/ \E w \in Worker, j \in Job : TakeJob(w, j) \/ TakeOver(w, j)
         \/ \E w \in Worker : \/ MarkDispatched(w) \/ MarkFailed(w)
                            \/ HandOffFailedWork(w) \/ StepFails(w) \/ Crash(w)
  PROVE  Numbering'
<1>1. rev' = rev /\ versions' = versions
  BY DEF ReplayDead, TakeJob, TakeOver, LeaseJob, MarkDispatched, MarkFailed,
         HandOffFailedWork, StepFails, Crash
<1>2. CASE \E j \in Job : ReplayDead(j)
  BY <1>1, <1>2, NumberingFrame DEF ReplayDead
<1>3. ASSUME NEW w \in Worker, NEW j \in Job, TakeJob(w, j) \/ TakeOver(w, j)
      PROVE  Numbering'
  <2>1. pc' = [pc EXCEPT ![w] = j.kind] /\ at' = at
    BY <1>3 DEF TakeJob, TakeOver, LeaseJob, Goto
  <2>2. \A v \in Worker : pc'[v] = pc[v] \/ pc'[v] = j.kind
    BY <2>1 DEF TypeOK
  <2> QED
    BY <1>1, <2>1, <2>2, JobLabels, NumberingFrame
<1>4. ASSUME NEW w \in Worker,
             \/ MarkDispatched(w) \/ MarkFailed(w) \/ HandOffFailedWork(w)
             \/ StepFails(w) \/ Crash(w)
      PROVE  Numbering'
  <2>1. \E label \in {"idle", "handoff", "returned", "threw"} :
          pc' = [pc EXCEPT ![w] = label]
    BY <1>4 DEF MarkDispatched, MarkFailed, HandOffFailedWork, StepFails, Crash, LetGo,
                Goto
  <2>2. at' = at \/ at' = [at EXCEPT ![w] = 1]
    BY <1>4 DEF MarkDispatched, MarkFailed, HandOffFailedWork, StepFails, Crash, LetGo
  <2>3. \A v \in Worker : \/ pc'[v] = pc[v] /\ at'[v] = at[v]
                          \/ pc'[v] \in {"idle", "handoff", "returned", "threw"}
    BY <2>1, <2>2 DEF TypeOK
  <2> QED
    BY <1>1, <2>3, NumberingFrame
<1> QED
  BY <1>2, <1>3, <1>4

LEMMA NumberingInterpret ==
  ASSUME TypeOK, RequestsAssumption, Numbering, NEW w \in Worker,
         InterpretStep(w) \/ ReplyIsHeld(w)
  PROVE  Numbering'
<1> USE DEF Goto
<1>0. rev \in Nat /\ rev >= 1 /\ 1 \in versions /\ \A v \in Worker : at[v] \in Nat /\ at[v] >= 1
  BY DEF TypeOK, Numbering, RevisionsInOrder
<1>1. CASE InterpretReads(w)
  <2>1. at' = [at EXCEPT ![w] = rev + 1]
    BY <1>0, <1>1 DEF InterpretReads
  <2>2. rev' = rev /\ versions' = versions /\ pc' = [pc EXCEPT ![w] = "reading"]
    BY <1>1 DEF InterpretReads
  <2> QED
    BY <1>0, <2>1, <2>2 DEF TypeOK, Numbering, RevisionsInOrder, ReadingInOrder
<1>2. CASE WriteVersion(w)
  <2>1. rev' = rev /\ at' = at /\ versions' = versions \cup {at[w]}
    BY <1>2 DEF WriteVersion
  <2>2. at[w] <= rev + 1
    BY <1>2 DEF WriteVersion, Numbering, ReadingInOrder
  <2>3. CASE at[w] \in versions
    <3>1. pc' = [pc EXCEPT ![w] = "threw"]
      BY <1>2, <2>3 DEF WriteVersion
    <3> QED
      BY <2>1, <2>3, <3>1, NumberingFrame DEF TypeOK
  <2>4. CASE at[w] \notin versions
    <3>1. pc' = [pc EXCEPT ![w] = "revise"]
      BY <1>2, <2>4 DEF WriteVersion
    <3>2. at[w] = rev + 1
      BY <1>0, <2>2, <2>4 DEF Numbering, RevisionsInOrder
    <3>3. \A v \in Worker : pc[v] # "revise"
      BY <2>4, <3>2 DEF Numbering, RevisionsInOrder
    <3>4. 1 .. rev \subseteq versions' /\ versions' \subseteq 1 .. rev + 1
      BY <1>0, <2>1, <3>2 DEF Numbering, RevisionsInOrder
    <3> QED
      BY <2>1, <3>1, <3>2, <3>3, <3>4
      DEF TypeOK, Numbering, RevisionsInOrder, ReadingInOrder
  <2> QED
    BY <2>3, <2>4
<1>3. CASE SetRevision(w)
  <2>1. at[w] = rev + 1 /\ rev + 1 \in versions /\ \A v \in Worker \ {w} : pc[v] # "revise"
    BY <1>3 DEF SetRevision, Numbering, RevisionsInOrder
  <2>2. rev' = rev + 1 /\ versions' = versions /\ at' = at
    BY <1>3, <2>1 DEF SetRevision
  <2>3. \E label \in {"invalidate", "settle", "answer"} : pc' = [pc EXCEPT ![w] = label]
    BY <1>3 DEF SetRevision
  <2>4. 1 .. rev' \subseteq versions' /\ versions' \subseteq 1 .. rev' + 1
    BY <1>0, <2>1, <2>2 DEF Numbering, RevisionsInOrder
  <2>5. \A v \in Worker : pc'[v] # "revise"
    BY <2>1, <2>3 DEF TypeOK
  <2>6. ReadingInOrder'
    BY <1>0, <2>1, <2>2, <2>3 DEF TypeOK, Numbering, ReadingInOrder
  <2> QED
    BY <2>4, <2>5, <2>6 DEF Numbering, RevisionsInOrder
<1>4. CASE InterpretAside(w)
  BY <1>4, NumberingFrame DEF InterpretAside, TypeOK
<1>5. CASE InvalidateDrafts(w)
  BY <1>5, NumberingFrame DEF InvalidateDrafts, TypeOK
<1>6. CASE BlockQueued(w)
  BY <1>6, NumberingFrame DEF BlockQueued, TypeOK
<1>7. CASE Settle(w)
  BY <1>7, NumberingFrame DEF Settle, TypeOK
<1>8. CASE OrderResearch(w)
  BY <1>8, NumberingFrame DEF OrderResearch, TypeOK
<1>9. CASE ReplyIsHeld(w)
  BY <1>9, NumberingFrame DEF ReplyIsHeld, TypeOK
<1> QED
  BY <1>1, <1>2, <1>3, <1>4, <1>5, <1>6, <1>7, <1>8, <1>9 DEF InterpretStep

\* The other handlers leave the numbers alone.
LEMMA NumberingOthers ==
  ASSUME TypeOK, Numbering, NEW w \in Worker,
         ResearchStep(w) \/ ApprovalStep(w) \/ DispatchStep(w)
  PROVE  Numbering'
<1>1. rev' = rev /\ versions' = versions /\ at' = at
  <2>1. CASE ResearchStep(w)
    BY <2>1 DEF ResearchStep, StartResearch, InsertDraft, MarkAutoSent, QueueAutoSend,
                FinishResearch
  <2>2. CASE ApprovalStep(w)
    BY <2>2 DEF ApprovalStep, ApproveChecks, Approve, QueueApproved, ExpireDraft,
                ReresearchChecks, GiveUp, ResearchAgain, OrderAgain
  <2>3. CASE DispatchStep(w)
    BY <2>3 DEF DispatchStep, ClaimMail, GateAllows, GateRefuses, RefuseMail, SubmitMail,
                FileSent, FileRequest, KeepPromise
  <2> QED
    BY <2>1, <2>2, <2>3
<1>2. \E label \in Label \ {"reading", "revise", "invalidate"} :
        pc' = [pc EXCEPT ![w] = label]
  <2> USE DEF Goto, Label, Back
  <2>1. CASE ResearchStep(w)
    BY <2>1 DEF ResearchStep, StartResearch, InsertDraft, MarkAutoSent, QueueAutoSend,
                FinishResearch
  <2>2. CASE ApprovalStep(w)
    BY <2>2 DEF ApprovalStep, ApproveChecks, Approve, QueueApproved, ExpireDraft,
                ReresearchChecks, GiveUp, ResearchAgain, OrderAgain
  <2>3. CASE DispatchStep(w)
    BY <2>3 DEF DispatchStep, ClaimMail, GateAllows, GateRefuses, RefuseMail, SubmitMail,
                FileSent, FileRequest, KeepPromise
  <2> QED
    BY <2>1, <2>2, <2>3
<1>3. \A v \in Worker : pc'[v] = pc[v] \/ pc'[v] \notin {"reading", "revise", "invalidate"}
  BY <1>2 DEF TypeOK
<1> QED
  BY <1>1, <1>3, NumberingFrame
-----------------------------------------------------------------------------
(* What a handler has in its hands. *)

\* A worker that did not move keeps what it had, when nothing grows younger.
LEMMA HandFrame ==
  ASSUME TypeOK, InHand, old \subseteq old', NEW w \in Worker, NEW label \in Label,
         pc' = [pc EXCEPT ![w] = label],
         \A v \in Worker \ {w} : cur'[v] = cur[v] /\ doc'[v] = doc[v],
         label \in Carrying => doc'[w] \in Draft,
         label \in {"research", "sources"} => cur'[w] \in ResearchJob,
         label = "send" => cur'[w] \in SendJob,
         label = "expire" => doc'[w] \in old'
  PROVE  InHand'
<1> SUFFICES ASSUME NEW v \in Worker
             PROVE  /\ pc'[v] \in Carrying => doc'[v] \in Draft
                    /\ pc'[v] \in {"research", "sources"} => cur'[v] \in ResearchJob
                    /\ pc'[v] = "send" => cur'[v] \in SendJob
                    /\ pc'[v] = "expire" => doc'[v] \in old'
  BY DEF InHand
<1>1. CASE v = w
  BY <1>1 DEF TypeOK
<1>2. CASE v # w
  BY <1>2 DEF TypeOK, InHand
<1> QED
  BY <1>1, <1>2

LEMMA HandEnvironment ==
  ASSUME TypeOK, InHand,
         \/ \E m \in Message : MessageArrives(m)
         \/ \E d \in Draft : DraftAges(d) \/ \E w \in Worker : StaffOpens(w, d)
         \/ EventChanges \/ StaffOrdersResearch \/ StaffReplies \/ RemoveRequest
  PROVE  InHand'
<1>1. ASSUME NEW d \in Draft, NEW w \in Worker, StaffOpens(w, d) PROVE InHand'
  <2>1. /\ pc' = [pc EXCEPT ![w] = "approve"] /\ doc' = [doc EXCEPT ![w] = d]
        /\ cur' = cur /\ old' = old
    BY <1>1 DEF StaffOpens, Goto
  <2>2. "approve" \in Label
    BY DEF Label
  <2> QED
    BY <2>1, <2>2, HandFrame DEF TypeOK
<1>2. CASE \/ \E m \in Message : MessageArrives(m)
           \/ \E d \in Draft : DraftAges(d)
           \/ EventChanges \/ StaffOrdersResearch \/ StaffReplies \/ RemoveRequest
  <2>1. pc' = pc /\ cur' = cur /\ doc' = doc /\ old \subseteq old'
    BY <1>2 DEF MessageArrives, DraftAges, EventChanges, StaffOrdersResearch,
                StaffReplies, RemoveRequest
  <2> QED
    BY <2>1 DEF InHand
<1> QED
  BY <1>1, <1>2

LEMMA HandOutbox ==
  ASSUME TypeOK, InHand,
         \/ \E j \in Job : ReplayDead(j)
         \/ \E w \in Worker, j \in Job : TakeJob(w, j) \/ TakeOver(w, j)
         \/ \E w \in Worker : \/ MarkDispatched(w) \/ MarkFailed(w)
                            \/ HandOffFailedWork(w) \/ StepFails(w) \/ Crash(w)
  PROVE  InHand'
<1>1. old' = old
  BY DEF ReplayDead, TakeJob, TakeOver, LeaseJob, MarkDispatched, MarkFailed,
         HandOffFailedWork, StepFails, Crash
<1>2. CASE \E j \in Job : ReplayDead(j)
  BY <1>1, <1>2 DEF ReplayDead, InHand
<1>3. ASSUME NEW w \in Worker, NEW j \in Job, TakeJob(w, j) \/ TakeOver(w, j)
      PROVE  InHand'
  <2>1. pc' = [pc EXCEPT ![w] = j.kind] /\ cur' = [cur EXCEPT ![w] = j] /\ doc' = doc
    BY <1>3 DEF TakeJob, TakeOver, LeaseJob, Goto
  <2>2. j.kind \in Label /\ j.kind \notin Carrying /\ j.kind # "sources" /\ j.kind # "expire"
    BY JobLabels DEF Label, Carrying
  <2>3. /\ j.kind \in {"research", "sources"} => cur'[w] \in ResearchJob
        /\ j.kind = "send" => cur'[w] \in SendJob
    BY <2>1, <2>2, JobLabels DEF TypeOK
  <2>4. \A v \in Worker \ {w} : cur'[v] = cur[v] /\ doc'[v] = doc[v]
    BY <2>1 DEF TypeOK
  <2> QED
    BY <1>1, <2>1, <2>2, <2>3, <2>4, HandFrame
<1>4. ASSUME NEW w \in Worker,
             \/ MarkDispatched(w) \/ MarkFailed(w) \/ HandOffFailedWork(w)
             \/ StepFails(w) \/ Crash(w)
      PROVE  InHand'
  <2>1. PICK label \in {"idle", "handoff", "returned", "threw"} :
          pc' = [pc EXCEPT ![w] = label]
    BY <1>4 DEF MarkDispatched, MarkFailed, HandOffFailedWork, StepFails, Crash, LetGo,
                Goto
  <2>2. \A v \in Worker \ {w} : cur'[v] = cur[v] /\ doc'[v] = doc[v]
    BY <1>4 DEF MarkDispatched, MarkFailed, HandOffFailedWork, StepFails, Crash, LetGo,
                TypeOK
  <2>3. label \in Label /\ label \notin Carrying
    BY DEF Label, Carrying
  <2> QED
    BY <1>1, <2>1, <2>2, <2>3, HandFrame
<1> QED
  BY <1>2, <1>3, <1>4

LEMMA HandInterpret ==
  ASSUME TypeOK, InHand, NEW w \in Worker, InterpretStep(w) \/ ReplyIsHeld(w)
  PROVE  InHand'
<1> USE DEF InterpretReads, InterpretAside, WriteVersion, SetRevision, InvalidateDrafts,
            BlockQueued, Settle, OrderResearch
<1>1. CASE ReplyIsHeld(w)
  BY <1>1 DEF ReplyIsHeld, InHand
<1>2. CASE InterpretStep(w)
  <2>1. cur' = cur /\ doc' = doc /\ old' = old
    BY <1>2 DEF InterpretStep
  <2>2. PICK label \in {"reading", "returned", "threw", "revise", "invalidate", "settle",
                        "answer", "block", "order"} : pc' = [pc EXCEPT ![w] = label]
    BY <1>2 DEF InterpretStep, Goto
  <2>3. label \in Label /\ label \notin Carrying
    BY DEF Label, Carrying
  <2> QED
    BY <2>1, <2>2, <2>3, HandFrame
<1> QED
  BY <1>1, <1>2

LEMMA HandResearch ==
  ASSUME TypeOK, InHand, NEW w \in Worker, ResearchStep(w)
  PROVE  InHand'
<1> USE DEF Goto
<1>0. old' = old /\ cur' = cur
  BY DEF ResearchStep, StartResearch, InsertDraft, MarkAutoSent, QueueAutoSend,
         FinishResearch
<1>1. CASE StartResearch(w)
  <2>1. PICK label \in {"sources", "returned"} : pc' = [pc EXCEPT ![w] = label]
    BY <1>1 DEF StartResearch
  <2>2. cur[w] \in ResearchJob /\ doc' = doc
    BY <1>1 DEF StartResearch, InHand
  <2>3. label \in Label /\ label \notin Carrying
    BY DEF Label, Carrying
  <2> QED
    BY <1>0, <2>1, <2>2, <2>3, HandFrame
<1>2. CASE InsertDraft(w)
  <2>1. PICK d \in Draft : doc' = [doc EXCEPT ![w] = d]
    BY <1>2 DEF InsertDraft, Unused
  <2>2. PICK label \in {"review", "autosend"} : pc' = [pc EXCEPT ![w] = label]
    BY <1>2 DEF InsertDraft
  <2>3. doc'[w] \in Draft /\ \A v \in Worker \ {w} : doc'[v] = doc[v]
    BY <2>1 DEF TypeOK
  <2>4. label \in Label
    BY DEF Label
  <2> QED
    BY <1>0, <2>2, <2>3, <2>4, HandFrame
<1>3. CASE MarkAutoSent(w) \/ QueueAutoSend(w) \/ FinishResearch(w)
  <2>1. doc' = doc /\ doc[w] \in Draft
    BY <1>3 DEF MarkAutoSent, QueueAutoSend, FinishResearch, InHand, Carrying
  <2>2. PICK label \in {"queueauto", "finish", "returned", "approve"} :
          pc' = [pc EXCEPT ![w] = label]
    BY <1>3 DEF MarkAutoSent, QueueAutoSend, FinishResearch
  <2>3. label \in Label
    BY DEF Label
  <2> QED
    BY <1>0, <2>1, <2>2, <2>3, HandFrame
<1> QED
  BY <1>1, <1>2, <1>3 DEF ResearchStep

LEMMA HandApproval ==
  ASSUME TypeOK, InHand, NEW w \in Worker, ApprovalStep(w)
  PROVE  InHand'
<1> USE DEF Goto, ApproveChecks, Approve, QueueApproved, ExpireDraft, ReresearchChecks,
            GiveUp, ResearchAgain, OrderAgain
<1>1. old' = old /\ cur' = cur /\ doc' = doc
  BY DEF ApprovalStep
<1>2. doc[w] \in Draft
  BY DEF ApprovalStep, InHand, Carrying
<1>3. PICK label \in {"returned", "expire", "approving", "queue", "expired", "giveup",
                      "again", "refuse", "reorder"} : pc' = [pc EXCEPT ![w] = label]
  BY DEF ApprovalStep, Back
<1>4. label = "expire" => doc[w] \in old
  BY <1>3 DEF ApprovalStep, Back, TypeOK
<1>5. label \in Label
  BY DEF Label
<1> QED
  BY <1>1, <1>2, <1>3, <1>4, <1>5, HandFrame

LEMMA HandDispatch ==
  ASSUME TypeOK, InHand, NEW w \in Worker, DispatchStep(w)
  PROVE  InHand'
<1> USE DEF Goto
<1>0. old' = old /\ cur' = cur
  BY DEF DispatchStep, ClaimMail, GateAllows, GateRefuses, RefuseMail, SubmitMail,
         FileSent, FileRequest, KeepPromise
<1>1. CASE ClaimMail(w)
  <2>1. cur[w].draft \in Draft
    BY <1>1, SendJobDraft DEF ClaimMail, InHand
  <2>2. CASE mail[cur[w].draft] = "queued"
    <3>1. pc' = [pc EXCEPT ![w] = "gate"] /\ doc' = [doc EXCEPT ![w] = cur[w].draft]
      BY <1>1, <2>2 DEF ClaimMail
    <3>2. doc'[w] \in Draft /\ \A v \in Worker \ {w} : doc'[v] = doc[v]
      BY <2>1, <3>1 DEF TypeOK
    <3>3. "gate" \in Label
      BY DEF Label
    <3> QED
      BY <1>0, <3>1, <3>2, <3>3, HandFrame
  <2>3. CASE mail[cur[w].draft] # "queued"
    <3>1. pc' = [pc EXCEPT ![w] = "returned"] /\ doc' = doc
      BY <1>1, <2>3 DEF ClaimMail
    <3>2. "returned" \in Label /\ "returned" \notin Carrying
      BY DEF Label, Carrying
    <3> QED
      BY <1>0, <3>1, <3>2, HandFrame
  <2> QED
    BY <2>2, <2>3
<1>2. CASE \/ GateAllows(w) \/ GateRefuses(w) \/ RefuseMail(w) \/ SubmitMail(w)
           \/ FileSent(w) \/ FileRequest(w) \/ KeepPromise(w)
  <2> USE <1>2 DEF GateAllows, GateRefuses, RefuseMail, SubmitMail, FileSent, FileRequest,
                   KeepPromise
  <2>1. doc' = doc /\ doc[w] \in Draft
    BY DEF InHand, Carrying
  <2>2. PICK label \in {"submit", "expire", "refuse", "returned", "file", "filed",
                        "promised"} : pc' = [pc EXCEPT ![w] = label]
    OBVIOUS
  <2>3. label = "expire" => doc[w] \in old
    BY <2>2 DEF ExpiredNow, TypeOK
  <2>4. label \in Label
    BY DEF Label
  <2> QED
    BY <1>0, <2>1, <2>2, <2>3, <2>4, HandFrame
<1> QED
  BY <1>1, <1>2 DEF DispatchStep
-----------------------------------------------------------------------------
(* A draft is withdrawn for a reason that stays: a newer revision, its age or the   *)
(* event.  Its status does not stay, for approvals go by the draft's id alone.      *)

Reason(d) == about[d] < rev \/ d \in old \/ d \in moved

WithdrawnForGood ==
  /\ \A d \in old \cup moved \cup withdrawn : status[d] # "none"
  /\ \A d \in withdrawn : Reason(d)

LEMMA WithdrawnFrame ==
  ASSUME TypeOK, WithdrawnForGood, rev' \in Nat, rev <= rev',
         old \subseteq old', moved \subseteq moved', old' \cup moved' \subseteq Draft,
         \A d \in Draft : status[d] # "none" => status'[d] # "none" /\ about'[d] = about[d],
         \A d \in old' \cup moved' : status[d] # "none",
         \A d \in withdrawn' \ withdrawn : d \in Draft /\ status[d] # "none" /\ Reason(d)
  PROVE  WithdrawnForGood'
<1>1. \A d \in withdrawn' : d \in Draft /\ status[d] # "none" /\ Reason(d)
  BY DEF TypeOK, WithdrawnForGood
<1>2. \A d \in Draft : about[d] \in Nat
  BY DEF TypeOK
<1>3. \A d \in withdrawn' : about'[d] < rev' \/ d \in old' \/ d \in moved'
  BY <1>1, <1>2 DEF TypeOK, Reason
<1>4. \A d \in old' \cup moved' \cup withdrawn' : status'[d] # "none"
  BY <1>1
<1> QED
  BY <1>3, <1>4 DEF WithdrawnForGood, Reason

LEMMA WithdrawnQuiet ==
  ASSUME WithdrawnForGood, UNCHANGED <<status, about, rev, old, moved, withdrawn>>
  PROVE  WithdrawnForGood'
  BY DEF WithdrawnForGood, Reason

\* A draft that exists changes its status.
LEMMA WithdrawnRelabel ==
  ASSUME TypeOK, WithdrawnForGood, NEW d \in Draft, NEW to \in Review \ {"none"},
         status' = [status EXCEPT ![d] = to],
         UNCHANGED <<about, rev, old, moved, withdrawn>>
  PROVE  WithdrawnForGood'
<1>1. \A x \in Draft : status[x] # "none" => status'[x] # "none"
  BY DEF TypeOK
<1>2. old' \cup moved' \cup withdrawn' \subseteq Draft
  BY DEF TypeOK
<1> QED
  BY <1>1, <1>2 DEF WithdrawnForGood, Reason

LEMMA WithdrawnMore ==
  ASSUME TypeOK, WithdrawnForGood, NEW ds \in SUBSET Draft, Withdraw(ds),
         \A d \in ds : status[d] # "none" /\ Reason(d),
         UNCHANGED <<about, rev, old, moved>>
  PROVE  WithdrawnForGood'
<1>1. \A d \in Draft : status[d] # "none" => status'[d] # "none"
  BY DEF Withdraw
<1>2. \A d \in withdrawn' \ withdrawn : d \in Draft /\ status[d] # "none" /\ Reason(d)
  BY DEF Withdraw
<1>3. rev' \in Nat /\ rev <= rev'
  BY DEF TypeOK
<1>4. old' \cup moved' \subseteq Draft /\ \A d \in old' \cup moved' : status[d] # "none"
  BY DEF TypeOK, WithdrawnForGood
<1> QED
  BY <1>1, <1>2, <1>3, <1>4, WithdrawnFrame

LEMMA WithdrawnEnvironment ==
  ASSUME TypeOK, WithdrawnForGood,
         \/ \E m \in Message : MessageArrives(m)
         \/ \E d \in Draft : DraftAges(d) \/ \E w \in Worker : StaffOpens(w, d)
         \/ EventChanges \/ StaffOrdersResearch \/ StaffReplies \/ RemoveRequest
  PROVE  WithdrawnForGood'
<1>0. rev' = rev /\ rev \in Nat /\ about' = about /\ withdrawn' = withdrawn
  BY DEF MessageArrives, DraftAges, StaffOpens, EventChanges, StaffOrdersResearch,
         StaffReplies, RemoveRequest, TypeOK
<1>1. ASSUME NEW d \in Draft, DraftAges(d) PROVE WithdrawnForGood'
  <2>1. old' = old \cup {d} /\ moved' = moved /\ status' = status /\ status[d] # "none"
    BY <1>1 DEF DraftAges
  <2>2. old' \cup moved' \subseteq Draft /\ \A x \in old' \cup moved' : status[x] # "none"
    BY <2>1 DEF TypeOK, WithdrawnForGood
  <2> QED
    BY <1>0, <2>1, <2>2, WithdrawnFrame
<1>2. CASE EventChanges
  <2>1. /\ old' = old /\ moved' = {d \in Draft : status[d] # "none"} /\ status' = status
    BY <1>2 DEF EventChanges
  <2>2. /\ moved \subseteq moved' /\ old' \cup moved' \subseteq Draft
        /\ \A x \in old' \cup moved' : status[x] # "none"
    BY <2>1 DEF TypeOK, WithdrawnForGood
  <2> QED
    BY <1>0, <2>1, <2>2, WithdrawnFrame
<1>3. CASE RemoveRequest
  <2>1. old' = old /\ moved' = moved
    BY <1>3 DEF RemoveRequest
  <2>2. \A d \in Draft : status[d] # "none" => status'[d] # "none"
    BY <1>3 DEF RemoveRequest
  <2>3. old' \cup moved' \subseteq Draft /\ \A x \in old' \cup moved' : status[x] # "none"
    BY <2>1 DEF TypeOK, WithdrawnForGood
  <2> QED
    BY <1>0, <2>1, <2>2, <2>3, WithdrawnFrame
<1>4. CASE \/ \E m \in Message : MessageArrives(m)
           \/ \E d \in Draft, w \in Worker : StaffOpens(w, d)
           \/ StaffOrdersResearch \/ StaffReplies
  BY <1>4, WithdrawnQuiet DEF MessageArrives, StaffOpens, StaffOrdersResearch, StaffReplies
<1> QED
  BY <1>1, <1>2, <1>3, <1>4

LEMMA WithdrawnOutbox ==
  ASSUME WithdrawnForGood,
         \/ \E j \in Job : ReplayDead(j)
         \/ \E w \in Worker, j \in Job : TakeJob(w, j) \/ TakeOver(w, j)
         \/ \E w \in Worker : \/ MarkDispatched(w) \/ MarkFailed(w)
                            \/ HandOffFailedWork(w) \/ StepFails(w) \/ Crash(w)
  PROVE  WithdrawnForGood'
  BY WithdrawnQuiet
  DEF ReplayDead, TakeJob, TakeOver, LeaseJob, MarkDispatched, MarkFailed,
      HandOffFailedWork, StepFails, Crash

LEMMA WithdrawnInterpret ==
  ASSUME TypeOK, WithdrawnForGood, Numbering, NEW w \in Worker,
         InterpretStep(w) \/ ReplyIsHeld(w)
  PROVE  WithdrawnForGood'
<1>1. CASE SetRevision(w)
  <2>1. rev' = at[w] /\ at[w] = rev + 1 /\ rev \in Nat
    BY <1>1 DEF SetRevision, Numbering, RevisionsInOrder, TypeOK
  <2>2. /\ old' = old /\ moved' = moved /\ status' = status /\ about' = about
        /\ withdrawn' = withdrawn
    BY <1>1 DEF SetRevision
  <2>3. old' \cup moved' \subseteq Draft /\ \A x \in old' \cup moved' : status[x] # "none"
    BY <2>2 DEF TypeOK, WithdrawnForGood
  <2>4. rev' \in Nat /\ rev <= rev'
    BY <2>1
  <2> QED
    BY <2>2, <2>3, <2>4, WithdrawnFrame
<1>2. CASE InvalidateDrafts(w)
  <2> DEFINE ds == {d \in Draft : status[d] \in {"pending", "approved"} /\ about[d] < at[w]}
  <2>1. Withdraw(ds) /\ UNCHANGED <<about, rev, old, moved>>
    BY <1>2 DEF InvalidateDrafts
  <2>2. at[w] <= rev /\ at[w] \in Nat /\ rev \in Nat /\ \A d \in Draft : about[d] \in Nat
    BY <1>2 DEF InvalidateDrafts, Numbering, ReadingInOrder, TypeOK
  <2>3. \A d \in ds : status[d] # "none" /\ Reason(d)
    BY <2>2 DEF Reason
  <2>4. ds \in SUBSET Draft
    OBVIOUS
  <2> HIDE DEF ds
  <2> QED
    BY <2>1, <2>3, <2>4, WithdrawnMore
<1>3. CASE \/ InterpretReads(w) \/ InterpretAside(w) \/ WriteVersion(w) \/ BlockQueued(w)
           \/ Settle(w) \/ OrderResearch(w) \/ ReplyIsHeld(w)
  BY <1>3, WithdrawnQuiet
  DEF InterpretReads, InterpretAside, WriteVersion, BlockQueued, Settle, OrderResearch,
      ReplyIsHeld
<1> QED
  BY <1>1, <1>2, <1>3 DEF InterpretStep

LEMMA WithdrawnResearch ==
  ASSUME TypeOK, InHand, WithdrawnForGood, NEW w \in Worker, ResearchStep(w)
  PROVE  WithdrawnForGood'
<1>1. CASE InsertDraft(w)
  <2>1. PICK d \in Draft : /\ status[d] = "none"
                           /\ status' = [status EXCEPT ![d] = "pending"]
                           /\ about' = [about EXCEPT ![d] = cur[w].rev]
    BY <1>1 DEF InsertDraft, Unused
  <2>2. UNCHANGED <<rev, old, moved, withdrawn>> /\ rev \in Nat
    BY <1>1 DEF InsertDraft, TypeOK
  <2>3. \A x \in Draft : status[x] # "none" => status'[x] # "none" /\ about'[x] = about[x]
    BY <2>1 DEF TypeOK
  <2>4. old' \cup moved' \subseteq Draft /\ \A x \in old' \cup moved' : status[x] # "none"
    BY <2>2 DEF TypeOK, WithdrawnForGood
  <2> QED
    BY <2>2, <2>3, <2>4, WithdrawnFrame
<1>2. CASE MarkAutoSent(w)
  <2>1. doc[w] \in Draft /\ "auto_sent" \in Review \ {"none"}
    BY <1>2 DEF MarkAutoSent, InHand, Carrying, Review
  <2> QED
    BY <1>2, <2>1, WithdrawnRelabel DEF MarkAutoSent
<1>3. CASE StartResearch(w) \/ QueueAutoSend(w) \/ FinishResearch(w)
  BY <1>3, WithdrawnQuiet DEF StartResearch, QueueAutoSend, FinishResearch
<1> QED
  BY <1>1, <1>2, <1>3 DEF ResearchStep

LEMMA WithdrawnApproval ==
  ASSUME TypeOK, InHand, WithdrawnForGood, NEW w \in Worker, ApprovalStep(w)
  PROVE  WithdrawnForGood'
<1>0. doc[w] \in Draft /\ {doc[w]} \in SUBSET Draft
  <2>1. doc[w] \in Draft
    BY DEF ApprovalStep, ApproveChecks, Approve, QueueApproved, ExpireDraft,
           ReresearchChecks, GiveUp, ResearchAgain, OrderAgain, InHand, Carrying
  <2> QED
    BY <2>1
<1>1. CASE ApproveChecks(w)
  <2>1. UNCHANGED <<about, rev, old, moved>>
    BY <1>1 DEF ApproveChecks
  <2>2. \/ UNCHANGED <<status, withdrawn>>
        \/ Withdraw({doc[w]}) /\ status[doc[w]] = "pending" /\ doc[w] \in moved
    BY <1>1 DEF ApproveChecks
  <2> QED
    BY <1>0, <2>1, <2>2, WithdrawnQuiet, WithdrawnMore DEF Reason
<1>2. CASE ExpireDraft(w)
  <2>1. Withdraw({doc[w]}) /\ UNCHANGED <<about, rev, old, moved>>
    BY <1>2 DEF ExpireDraft
  <2>2. doc[w] \in old /\ status[doc[w]] # "none"
    BY <1>2 DEF ExpireDraft, InHand, WithdrawnForGood
  <2> QED
    BY <1>0, <2>1, <2>2, WithdrawnMore DEF Reason
<1>3. CASE Approve(w)
  <2>1. "approved" \in Review \ {"none"}
    BY DEF Review
  <2> QED
    BY <1>0, <1>3, <2>1, WithdrawnRelabel DEF Approve
<1>4. CASE \/ QueueApproved(w) \/ ReresearchChecks(w) \/ GiveUp(w) \/ ResearchAgain(w)
           \/ OrderAgain(w)
  BY <1>4, WithdrawnQuiet
  DEF QueueApproved, ReresearchChecks, GiveUp, ResearchAgain, OrderAgain
<1> QED
  BY <1>1, <1>2, <1>3, <1>4 DEF ApprovalStep

LEMMA WithdrawnDispatch ==
  ASSUME TypeOK, InHand, WithdrawnForGood, NEW w \in Worker, DispatchStep(w)
  PROVE  WithdrawnForGood'
<1>1. CASE GateRefuses(w)
  <2>1. doc[w] \in Draft
    BY <1>1 DEF GateRefuses, InHand, Carrying
  <2>2. {doc[w]} \in SUBSET Draft
    BY <2>1
  <2>3. UNCHANGED <<about, rev, old, moved>>
    BY <1>1 DEF GateRefuses
  <2>4. \/ UNCHANGED <<status, withdrawn>>
        \/ Withdraw({doc[w]}) /\ doc[w] \in moved
    BY <1>1 DEF GateRefuses, ChangedNow
  <2>5. doc[w] \in moved => status[doc[w]] # "none"
    BY DEF WithdrawnForGood
  <2> QED
    BY <2>2, <2>3, <2>4, <2>5, WithdrawnQuiet, WithdrawnMore DEF Reason
<1>2. CASE FileSent(w)
  <2>1. doc[w] \in Draft /\ "sent" \in Review \ {"none"}
    BY <1>2 DEF FileSent, InHand, Carrying, Review
  <2>2. UNCHANGED <<about, rev, old, moved, withdrawn>>
    BY <1>2 DEF FileSent
  <2>3. status' = [status EXCEPT ![doc[w]] = "sent"] \/ UNCHANGED status
    BY <1>2 DEF FileSent
  <2> QED
    BY <2>1, <2>2, <2>3, WithdrawnRelabel, WithdrawnQuiet
<1>3. CASE \/ ClaimMail(w) \/ GateAllows(w) \/ RefuseMail(w) \/ SubmitMail(w)
           \/ FileRequest(w) \/ KeepPromise(w)
  BY <1>3, WithdrawnQuiet
  DEF ClaimMail, GateAllows, RefuseMail, SubmitMail, FileRequest, KeepPromise
<1> QED
  BY <1>1, <1>2, <1>3 DEF DispatchStep
-----------------------------------------------------------------------------
(* The inductive invariant. *)

IInv == TypeOK /\ InHand /\ Numbering /\ WithdrawnForGood

LEMMA InitIInv ==
  ASSUME RequestsAssumption, InitResearching
  PROVE  IInv
<1> USE DEF InitResearching
<1>1. TypeOK
  <2>1. 1 \in 1 .. MaxRev /\ 1 \in 1 .. MaxRev + 1
    BY DEF RequestsAssumption
  <2>2. job \in [Job -> JobState]
    BY DEF JobState
  <2>3. tries \in [Job -> 0 .. Budget]
    BY DEF RequestsAssumption
  <2>4. pc \in [Worker -> Label]
    BY DEF Label
  <2>5. state \in State /\ status \in [Draft -> Review] /\ mail \in [Draft -> MailState]
    BY NamedStates DEF Review, MailState
  <2>6. faults \in 0 .. MaxFaults /\ acts \in 0 .. MaxActs
    BY DEF RequestsAssumption
  <2> QED
    BY <2>1, <2>2, <2>3, <2>4, <2>5, <2>6 DEF TypeOK
<1>2. \A w \in Worker : pc[w] = "idle"
  OBVIOUS
<1>3. InHand
  BY <1>2 DEF InHand, Carrying
<1>4. Numbering
  BY <1>2 DEF Numbering, RevisionsInOrder, ReadingInOrder
<1>5. WithdrawnForGood
  BY DEF WithdrawnForGood
<1> QED
  BY <1>1, <1>3, <1>4, <1>5 DEF IInv

LEMMA NextIInv ==
  ASSUME RequestsAssumption, IInv, [Next]_vars
  PROVE  IInv'
<1> USE DEF IInv
<1>1. CASE \/ \E m \in Message : MessageArrives(m)
           \/ \E d \in Draft : DraftAges(d) \/ \E w \in Worker : StaffOpens(w, d)
           \/ EventChanges \/ StaffOrdersResearch \/ StaffReplies \/ RemoveRequest
  BY <1>1, TypeEnvironment, HandEnvironment, NumberingEnvironment, WithdrawnEnvironment
<1>2. CASE \/ \E j \in Job : ReplayDead(j)
           \/ \E w \in Worker, j \in Job : TakeJob(w, j) \/ TakeOver(w, j)
           \/ \E w \in Worker : \/ MarkDispatched(w) \/ MarkFailed(w)
                                \/ HandOffFailedWork(w) \/ StepFails(w) \/ Crash(w)
  BY <1>2, TypeOutbox, HandOutbox, NumberingOutbox, WithdrawnOutbox
<1>3. ASSUME NEW w \in Worker, InterpretStep(w) \/ ReplyIsHeld(w) PROVE IInv'
  <2>1. RevisionsInOrder
    BY DEF Numbering
  <2> QED
    BY <1>3, <2>1, TypeInterpret, HandInterpret, NumberingInterpret, WithdrawnInterpret
<1>4. ASSUME NEW w \in Worker, ResearchStep(w) PROVE IInv'
  BY <1>4, TypeResearch, HandResearch, NumberingOthers, WithdrawnResearch
<1>5. ASSUME NEW w \in Worker, ApprovalStep(w) PROVE IInv'
  BY <1>5, TypeApproval, HandApproval, NumberingOthers, WithdrawnApproval
<1>6. ASSUME NEW w \in Worker, DispatchStep(w) PROVE IInv'
  BY <1>6, TypeDispatch, HandDispatch, NumberingOthers, WithdrawnDispatch
<1>7. CASE UNCHANGED vars
  <2>1. UNCHANGED <<state, held, rev, versions, status, about, listed, old, moved, noted>>
    BY <1>7 DEF vars
  <2>2. UNCHANGED <<mail, byApproval, kept, job, lease, tries>>
    BY <1>7 DEF vars
  <2>3. UNCHANGED <<pc, cur, at, doc, withdrawn, removed, faults, acts>>
    BY <1>7 DEF vars
  <2>4. TypeOK'
    BY <2>1, <2>2, <2>3 DEF TypeOK
  <2>5. InHand' /\ Numbering'
    BY <2>1, <2>3 DEF InHand, Numbering, RevisionsInOrder, ReadingInOrder
  <2>6. WithdrawnForGood'
    BY <2>1, <2>3, WithdrawnQuiet
  <2> QED
    BY <2>4, <2>5, <2>6
<1> QED
  BY <1>1, <1>2, <1>3, <1>4, <1>5, <1>6, <1>7 DEF Next, Step

THEOREM Invariance == LaterSpec => []IInv
<1>1. InitResearching => IInv
  BY InitIInv, RequestsAssumption
<1>2. IInv /\ [Next]_vars => IInv'
  BY NextIInv, RequestsAssumption
<1> QED
  BY <1>1, <1>2, PTL DEF LaterSpec

\* Whatever the customer, staff, the clock and a failing process do, every row and
\* every handler's local state has its type.
THEOREM TypeCorrect == LaterSpec => []TypeOK
<1>1. IInv => TypeOK
  BY DEF IInv
<1> QED
  BY <1>1, Invariance, PTL

\* The revisions of a request are numbered without a gap, and one handler at a time
\* makes a new one current, however interpretations are repeated or cut short.
\* (interpret; request_versions_uq.)
THEOREM OneRevisionAtATime == LaterSpec => []RevisionsInOrder
<1>1. IInv => RevisionsInOrder
  BY DEF IInv, Numbering
<1> QED
  BY <1>1, Invariance, PTL

\* A request whose first revision is stored never goes back to an earlier one.
\* (interpret; request_versions_uq.)
THEOREM NoEarlierRevision == LaterSpec => RevisionMovesForward
<1>1. IInv /\ [Next]_vars => [rev' >= rev]_vars
  <2> SUFFICES ASSUME IInv, Next
               PROVE  rev' >= rev
    OBVIOUS
  <2>0. rev \in Nat
    BY DEF IInv, TypeOK
  <2>1. ASSUME NEW w \in Worker, SetRevision(w) PROVE rev' >= rev
    BY <2>0, <2>1 DEF SetRevision, IInv, Numbering, RevisionsInOrder
  <2>2. CASE \/ \E m \in Message : MessageArrives(m)
             \/ \E d \in Draft : DraftAges(d) \/ \E w \in Worker : StaffOpens(w, d)
             \/ EventChanges \/ StaffOrdersResearch \/ StaffReplies \/ RemoveRequest
    BY <2>0, <2>2 DEF MessageArrives, DraftAges, StaffOpens, EventChanges,
       StaffOrdersResearch, StaffReplies, RemoveRequest
  <2>3. CASE \/ \E j \in Job : ReplayDead(j)
             \/ \E w \in Worker, j \in Job : TakeJob(w, j) \/ TakeOver(w, j)
             \/ \E w \in Worker : \/ MarkDispatched(w) \/ MarkFailed(w)
                                  \/ HandOffFailedWork(w) \/ StepFails(w) \/ Crash(w)
    BY <2>0, <2>3 DEF ReplayDead, TakeJob, TakeOver, LeaseJob, MarkDispatched, MarkFailed,
       HandOffFailedWork, StepFails, Crash
  <2>4. ASSUME NEW w \in Worker,
               InterpretStep(w) \/ ReplyIsHeld(w), ~SetRevision(w)
        PROVE  rev' >= rev
    BY <2>0, <2>4 DEF InterpretStep, InterpretReads, InterpretAside, WriteVersion,
       InvalidateDrafts, BlockQueued, Settle, OrderResearch, ReplyIsHeld
  <2>5. ASSUME NEW w \in Worker, ResearchStep(w) PROVE rev' >= rev
    BY <2>0, <2>5 DEF ResearchStep, StartResearch, InsertDraft, MarkAutoSent,
       QueueAutoSend, FinishResearch
  <2>6. ASSUME NEW w \in Worker, ApprovalStep(w) PROVE rev' >= rev
    BY <2>0, <2>6 DEF ApprovalStep, ApproveChecks, Approve, QueueApproved, ExpireDraft,
       ReresearchChecks, GiveUp, ResearchAgain, OrderAgain
  <2>7. ASSUME NEW w \in Worker, DispatchStep(w) PROVE rev' >= rev
    BY <2>0, <2>7 DEF DispatchStep, ClaimMail, GateAllows, GateRefuses, RefuseMail,
       SubmitMail, FileSent, FileRequest, KeepPromise
  <2> QED
    BY <2>1, <2>2, <2>3, <2>4, <2>5, <2>6, <2>7 DEF Next, Step
<1> QED
  BY <1>1, Invariance, PTL DEF LaterSpec, RevisionMovesForward
\* Only the gate lets a mail through.
LEMMA OnlyTheGate ==
  ASSUME TypeOK, Next, NEW w \in Worker, pc[w] = "gate", pc'[w] = "submit"
  PROVE  GateAllows(w)
<1> USE DEF Goto
<1>1. CASE \/ \E m \in Message : MessageArrives(m)
           \/ \E d \in Draft : DraftAges(d) \/ \E v \in Worker : StaffOpens(v, d)
           \/ EventChanges \/ StaffOrdersResearch \/ StaffReplies \/ RemoveRequest
  <2>1. pc' = pc \/ \E v \in Worker : pc' = [pc EXCEPT ![v] = "approve"]
    BY <1>1 DEF MessageArrives, DraftAges, StaffOpens, EventChanges, StaffOrdersResearch,
       StaffReplies, RemoveRequest
  <2> QED
    BY <2>1 DEF TypeOK
<1>2. CASE \E j \in Job : ReplayDead(j)
  BY <1>2 DEF ReplayDead
<1>3. CASE \E v \in Worker, j \in Job : TakeJob(v, j) \/ TakeOver(v, j)
  <2>1. PICK v \in Worker, j \in Job : pc' = [pc EXCEPT ![v] = j.kind]
    BY <1>3 DEF TakeJob, TakeOver, LeaseJob
  <2> QED
    BY <2>1, JobLabels DEF TypeOK
<1>4. CASE \E v \in Worker : \/ MarkDispatched(v) \/ MarkFailed(v)
                             \/ HandOffFailedWork(v) \/ StepFails(v) \/ Crash(v)
  <2>1. \E v \in Worker, label \in {"idle", "handoff", "returned", "threw"} :
          pc' = [pc EXCEPT ![v] = label]
    BY <1>4 DEF MarkDispatched, MarkFailed, HandOffFailedWork, StepFails, Crash, LetGo
  <2> QED
    BY <2>1 DEF TypeOK
<1>5. ASSUME NEW v \in Worker, InterpretStep(v) \/ ReplyIsHeld(v) PROVE GateAllows(w)
  <2>1. pc' = pc \/ \E label \in Label \ {"submit"} : pc' = [pc EXCEPT ![v] = label]
    BY <1>5 DEF InterpretStep, InterpretReads, InterpretAside, WriteVersion, SetRevision,
       InvalidateDrafts, BlockQueued, Settle, OrderResearch, ReplyIsHeld, Label
  <2> QED
    BY <2>1 DEF TypeOK
<1>6. ASSUME NEW v \in Worker, ResearchStep(v) PROVE GateAllows(w)
  <2>1. \E label \in Label \ {"submit"} : pc' = [pc EXCEPT ![v] = label]
    BY <1>6 DEF ResearchStep, StartResearch, InsertDraft, MarkAutoSent, QueueAutoSend,
       FinishResearch, Label
  <2> QED
    BY <2>1 DEF TypeOK
<1>7. ASSUME NEW v \in Worker, ApprovalStep(v) PROVE GateAllows(w)
  <2>1. \E label \in Label \ {"submit"} : pc' = [pc EXCEPT ![v] = label]
    BY <1>7 DEF ApprovalStep, ApproveChecks, Approve, QueueApproved, ExpireDraft,
       ReresearchChecks, GiveUp, ResearchAgain, OrderAgain, Back, Label
  <2> QED
    BY <2>1 DEF TypeOK
<1>8. ASSUME NEW v \in Worker, DispatchStep(v), ~GateAllows(v) PROVE GateAllows(w)
  <2>1. \E label \in Label \ {"submit"} : pc' = [pc EXCEPT ![v] = label]
    BY <1>8 DEF DispatchStep, ClaimMail, GateRefuses, RefuseMail, SubmitMail, FileSent,
       FileRequest, KeepPromise, Label
  <2> QED
    BY <2>1 DEF TypeOK
<1>9. ASSUME NEW v \in Worker, GateAllows(v) PROVE GateAllows(w)
  <2>1. pc' = [pc EXCEPT ![v] = "submit"]
    BY <1>9 DEF GateAllows
  <2>2. v = w
    BY <2>1 DEF TypeOK
  <2> QED
    BY <1>9, <2>2
<1> QED
  BY <1>1, <1>2, <1>3, <1>4, <1>5, <1>6, <1>7, <1>8, <1>9 DEF Next, Step

\* An approved answer that lists offers never passes the gate once its draft has been
\* withdrawn, however approvals, revisions, expiries and dispatches interleave: each
\* reason for a withdrawal stays, and the gate asks for each of them.
\* (invalidateForRevision, reresearchExpired, dispatchSend.)
THEOREM WithdrawnStaysUnsent == LaterSpec => WithdrawnIsNeverSent
<1> DEFINE Silent == \A w \in Worker :
                       /\ pc[w] = "gate" /\ pc'[w] = "submit" /\ doc[w] \in listed
                       => doc[w] \notin withdrawn
<1>1. IInv /\ [Next]_vars => [Silent]_vars
  <2> SUFFICES ASSUME IInv, Next, NEW w \in Worker,
                      pc[w] = "gate", pc'[w] = "submit", doc[w] \in listed
               PROVE  doc[w] \notin withdrawn
    OBVIOUS
  <2>1. GatePasses(doc[w])
    BY OnlyTheGate DEF IInv, GateAllows
  <2>2. doc[w] \in byApproval /\ ApprovedNow(doc[w])
    BY <2>1 DEF GatePasses
  <2>3. rev = about[doc[w]] /\ doc[w] \notin old /\ doc[w] \notin moved
    BY <2>1, <2>2 DEF GatePasses, ExpiredNow, ChangedNow
  <2>4. ~Reason(doc[w])
    <3>1. rev \in Nat
      BY DEF IInv, TypeOK
    <3> QED
      BY <2>3, <3>1 DEF Reason
  <2> QED
    BY <2>4 DEF IInv, WithdrawnForGood
<1> QED
  BY <1>1, Invariance, PTL DEF LaterSpec, WithdrawnIsNeverSent
=============================================================================
