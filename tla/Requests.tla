------------------------------ MODULE Requests ------------------------------
(***************************************************************************)
(* The life of one request: a customer's messages are interpreted into     *)
(* revisions, a revision is researched into a draft, a draft is approved   *)
(* (by staff, or by the system while testing) and its email dispatched.  A *)
(* newer revision, an expiry or a change of the event withdraws a draft.   *)
(*                                                                         *)
(* interpret, research and dispatchSend are the handlers of outbox jobs;   *)
(* approveRecommendation is called by staff too, and then has no job.      *)
(* None of them is a transaction: each action is one statement, or the     *)
(* reads between two of them, so every handler may be overtaken between    *)
(* any two of its writes.                                                  *)
(*                                                                         *)
(* One step each: the reads of a handler that come together; transition,   *)
(* which reads the state to see whether a person holds the request.  Left  *)
(* out: replies that need no approval (module SendIntents has their        *)
(* delivery), rereads by staff, watches (invalidated too), research runs'  *)
(* status, which no handler reads, alerts and the audit log.               *)
(***************************************************************************)
EXTENDS Naturals, FiniteSets

CONSTANTS
  Message,      \* the customer's messages
  Draft,        \* recommendations rows
  Worker,       \* runs of the dispatcher and calls by staff
  NoWorker, NoJob, NoDraft, Staff,
  Outcome,      \* bound: the states an interpretation may settle in
  AutoApprove,  \* autoApproveActive: the system approves every draft
  ExpiryLimit,  \* expiries of one revision before a person takes it (3 in the code)
  Budget,       \* attempts before a job is dead-lettered
  MaxRev,       \* bound: revisions
  MaxFaults,    \* bound: crashes, leases lost alive, failed statements
  MaxActs       \* bound: messages, acts of staff, expiries, changes of the event

Settled == {"researching", "needs_clarification", "referred", "closed",
            "unsupported", "recommendation_sent"}

ASSUME RequestsAssumption ==
  /\ NoWorker \notin Worker
  /\ NoDraft \notin Draft /\ Staff \notin Draft /\ Staff # NoDraft
  /\ Outcome \subseteq Settled
  /\ AutoApprove \in BOOLEAN
  /\ ExpiryLimit \in Nat \ {0} /\ Budget \in Nat \ {0}
  /\ MaxRev \in Nat \ {0} /\ MaxFaults \in Nat /\ MaxActs \in Nat

InterpretJob == [kind : {"interpret"}, msg : Message]
ResearchJob == [kind : {"research"}, rev : 1 .. MaxRev, for : Draft \cup {NoDraft, Staff}]
SendJob == [kind : {"send"}, draft : Draft]
Job == InterpretJob \cup ResearchJob \cup SendJob

Interpret(m) == [kind |-> "interpret", msg |-> m]
Research(r, d) == [kind |-> "research", rev |-> r, for |-> d]
Send(d) == [kind |-> "send", draft |-> d]

ASSUME NoJobAssumption == NoJob \notin Job

VARIABLES
  \* the requests row (held: the reason it last went to manual_attention is one of
  \* HELD_REASONS), and the revisions that have a request_versions row
  state, held, rev, versions,
  \* the recommendations rows: review status, revision, whether they list offers,
  \* past expires_at, written for an occurrence that has changed, noted as expired
  status, about, listed, old, moved, noted,
  \* the send intents of drafts; those that carry an approval; the drafts whose answer
  \* was kept for a person (a held intent, or the repeat of an earlier answer)
  mail, byApproval, kept,
  \* the outbox rows
  job, lease, tries,
  \* each worker: where it is, its job, the revision and the draft in its hands
  pc, cur, at, doc,
  \* history: the drafts withdrawn; staff took the request off the board; faults and
  \* acts so far
  withdrawn, removed, faults, acts

requestVars == <<state, held, rev, versions>>
draftVars == <<status, about, listed, old, moved, noted>>
mailVars == <<mail, byApproval, kept>>
jobVars == <<job, lease, tries>>
workVars == <<pc, cur, at, doc>>
pastVars == <<withdrawn, faults>>
historyVars == <<pastVars, removed, acts>>
vars == <<requestVars, draftVars, mailVars, jobVars, workVars, historyVars>>

State == Settled \cup {"none", "received", "awaiting_review", "manual_attention"}
OpenState == State \ {"none", "closed", "unsupported"}
AfterSend == {"recommendation_sent", "referred", "closed"}

Label ==
  {"idle", "returned", "threw", "handoff",
   "interpret", "reading", "revise", "invalidate", "block", "settle", "answer", "order",
   "research", "sources", "autosend", "queueauto", "finish", "review",
   "approve", "approving", "queue", "expire", "expired", "giveup", "again", "reorder",
   "send", "gate", "submit", "refuse", "file", "filed", "promised"}

Review == {"none", "pending", "approved", "invalidated", "auto_sent", "sent"}
MailState == {"none", "queued", "claimed", "blocked", "uncertain", "accepted"}
JobState == {"none", "pending", "leased", "done", "dead"}

TypeOK ==
  /\ state \in State /\ held \in BOOLEAN
  /\ rev \in 1 .. MaxRev /\ versions \subseteq 1 .. MaxRev
  /\ status \in [Draft -> Review]
  /\ about \in [Draft -> 1 .. MaxRev]
  /\ listed \subseteq Draft /\ old \subseteq Draft /\ moved \subseteq Draft
  /\ noted \subseteq Draft /\ byApproval \subseteq Draft /\ kept \subseteq Draft
  /\ mail \in [Draft -> MailState]
  /\ job \in [Job -> JobState]
  /\ lease \in [Job -> Worker \cup {NoWorker}]
  /\ tries \in [Job -> 0 .. Budget]
  /\ pc \in [Worker -> Label]
  /\ cur \in [Worker -> Job \cup {NoJob}]
  /\ at \in [Worker -> 1 .. MaxRev + 1]
  /\ doc \in [Worker -> Draft \cup {NoDraft}]
  /\ withdrawn \subseteq Draft /\ removed \in BOOLEAN
  /\ faults \in 0 .. MaxFaults /\ acts \in 0 .. MaxActs

Init ==
  /\ state = "none" /\ held = FALSE /\ rev = 1 /\ versions = {}
  /\ status = [d \in Draft |-> "none"]
  /\ about = [d \in Draft |-> 1]
  /\ listed = {} /\ old = {} /\ moved = {} /\ noted = {}
  /\ mail = [d \in Draft |-> "none"]
  /\ byApproval = {} /\ kept = {}
  /\ job = [j \in Job |-> "none"]
  /\ lease = [j \in Job |-> NoWorker]
  /\ tries = [j \in Job |-> 0]
  /\ pc = [w \in Worker |-> "idle"]
  /\ cur = [w \in Worker |-> NoJob]
  /\ at = [w \in Worker |-> 1]
  /\ doc = [w \in Worker |-> NoDraft]
  /\ withdrawn = {} /\ removed = FALSE /\ faults = 0 /\ acts = 0

\* Later in that life: the first message is interpreted and its revision stored, and
\* its research is ordered.  (Until its 1 is stored a second message may overtake it.)
InitResearching ==
  /\ state = "researching" /\ held = FALSE /\ rev = 1 /\ versions = {1}
  /\ status = [d \in Draft |-> "none"]
  /\ about = [d \in Draft |-> 1]
  /\ listed = {} /\ old = {} /\ moved = {} /\ noted = {}
  /\ mail = [d \in Draft |-> "none"]
  /\ byApproval = {} /\ kept = {}
  /\ \E m \in Message :
       job = [j \in Job |-> IF j = Interpret(m) THEN "done"
                           ELSE IF j = Research(1, NoDraft) THEN "pending" ELSE "none"]
  /\ lease = [j \in Job |-> NoWorker]
  /\ tries = [j \in Job |-> 0]
  /\ pc = [w \in Worker |-> "idle"]
  /\ cur = [w \in Worker |-> NoJob]
  /\ at = [w \in Worker |-> 1]
  /\ doc = [w \in Worker |-> NoDraft]
  /\ withdrawn = {} /\ removed = FALSE /\ faults = 0 /\ acts = 0

-----------------------------------------------------------------------------
(* What the handlers share *)

Goto(w, label) == pc' = [pc EXCEPT ![w] = label]

\* transition: what was sent on a request held for a person does not move it on.
Transition(to) ==
  IF state = "manual_attention" /\ held /\ to \in AfterSend
    THEN UNCHANGED <<state, held>>
    ELSE state' = to /\ held' = FALSE

\* parkForStaff; its reason is one of HELD_REASONS when a reply was held back.
Park(reason) == state' = "manual_attention" /\ held' = (reason = "reply_held")

\* enqueueOutbox: once per event key.
Enqueue(j) == job' = [job EXCEPT ![j] = IF @ = "none" THEN "pending" ELSE @]

\* A row's review status becomes "invalidated".
Withdraw(ds) ==
  /\ status' = [d \in Draft |-> IF d \in ds THEN "invalidated" ELSE status[d]]
  /\ withdrawn' = withdrawn \cup ds

-----------------------------------------------------------------------------
(* Customers, staff and the world *)

\* The bound on what nobody has to do.
Act == acts < MaxActs /\ acts' = acts + 1

\* ingestInbound: the first message makes the request, later ones join it while it
\* is open.
MessageArrives(m) ==
  /\ Act
  /\ job[Interpret(m)] = "none"
  /\ state = "none" \/ state \in OpenState
  /\ state' = IF state = "none" THEN "received" ELSE state
  /\ Enqueue(Interpret(m))
  /\ UNCHANGED <<held, rev, versions, draftVars, mailVars, lease, tries, workVars,
                 pastVars, removed>>

\* expires_at passes.
DraftAges(d) ==
  /\ Act
  /\ status[d] # "none" /\ d \notin old
  /\ old' = old \cup {d}
  /\ UNCHANGED <<requestVars, status, about, listed, moved, noted, mailVars, jobVars,
                 workVars, pastVars, removed>>

\* The event is cancelled, postponed or moved, for good: every draft so far is about the
\* past.  (A draft whose research was under way: as if right after it is inserted.)
EventChanges ==
  /\ Act
  /\ moved' = {d \in Draft : status[d] # "none"}
  /\ moved' # moved
  /\ UNCHANGED <<requestVars, status, about, listed, old, noted, mailVars, jobVars,
                 workVars, pastVars, removed>>

\* Staff approve a draft that waits: approveRecommendation outside the dispatcher.
StaffOpens(w, d) ==
  /\ Act
  /\ pc[w] = "idle" /\ status[d] = "pending"
  /\ Goto(w, "approve")
  /\ doc' = [doc EXCEPT ![w] = d]
  /\ UNCHANGED <<requestVars, draftVars, mailVars, jobVars, cur, at, pastVars, removed>>

\* The admin route "research again", for the current revision.
StaffOrdersResearch ==
  /\ Act
  /\ rev \in versions
  /\ job[Research(rev, Staff)] = "none"
  /\ Enqueue(Research(rev, Staff))
  /\ UNCHANGED <<requestVars, draftVars, mailVars, lease, tries, workVars, pastVars, removed>>

\* sendStaffReply: a person answers, and the request counts as answered.
StaffReplies ==
  /\ Act
  /\ state # "none"
  /\ state' = "recommendation_sent" /\ held' = FALSE
  /\ UNCHANGED <<rev, versions, draftVars, mailVars, jobVars, workVars, pastVars, removed>>

\* removeRequests, one transaction; it drops only the jobs no run has leased.
RemoveRequest ==
  /\ Act
  /\ state \notin {"none", "closed"}
  /\ state' = "closed" /\ held' = FALSE /\ removed' = TRUE
  /\ mail' = [d \in Draft |-> IF mail[d] = "queued" THEN "blocked" ELSE mail[d]]
  /\ status' = [d \in Draft |-> IF status[d] = "pending" THEN "invalidated" ELSE status[d]]
  /\ job' = [j \in Job |-> IF j \notin SendJob /\ job[j] = "pending" THEN "dead" ELSE job[j]]
  /\ UNCHANGED <<rev, versions, about, listed, old, moved, noted, byApproval, kept,
                 lease, tries, workVars, pastVars>>

-----------------------------------------------------------------------------
(* The outbox, as in module Outbox with one row per lease *)

LiveHolder(j) == \E v \in Worker : pc[v] # "idle" /\ cur[v] = j /\ lease[j] = v

LeaseJob(w, j) ==
  /\ pc[w] = "idle"
  /\ job[j] \in {"pending", "leased"}
  /\ job' = [job EXCEPT ![j] = "leased"]
  /\ lease' = [lease EXCEPT ![j] = w]
  /\ tries' = [tries EXCEPT ![j] = IF @ < Budget THEN @ + 1 ELSE @]
  /\ Goto(w, j.kind)
  /\ cur' = [cur EXCEPT ![w] = j]
  /\ UNCHANGED <<requestVars, draftVars, mailVars, at, doc, withdrawn, removed, acts>>

\* leaseDueOutbox: a due row, or one whose holder is dead.
TakeJob(w, j) == ~LiveHolder(j) /\ LeaseJob(w, j) /\ UNCHANGED faults

\* ... or one whose holder is only slow: its lease ran out.
TakeOver(w, j) ==
  /\ LiveHolder(j)
  /\ faults < MaxFaults /\ faults' = faults + 1
  /\ LeaseJob(w, j)

ReplayDead(j) ==
  /\ Act
  /\ job[j] = "dead"
  /\ job' = [job EXCEPT ![j] = "pending"]
  /\ tries' = [tries EXCEPT ![j] = 0]
  /\ UNCHANGED <<requestVars, draftVars, mailVars, lease, workVars, pastVars, removed>>

\* The worker has nothing in its hands any more and goes to label.
LetGo(w, label) ==
  /\ Goto(w, label)
  /\ cur' = [cur EXCEPT ![w] = NoJob]
  /\ at' = [at EXCEPT ![w] = 1]
  /\ doc' = [doc EXCEPT ![w] = NoDraft]

EndJob(w, to) ==
  IF lease[cur[w]] = w
    THEN /\ job' = [job EXCEPT ![cur[w]] = to]
         /\ lease' = [lease EXCEPT ![cur[w]] = NoWorker]
    ELSE UNCHANGED <<job, lease>>

\* The handler returned: markDispatched.  A call by staff just ends.
MarkDispatched(w) ==
  /\ pc[w] = "returned"
  /\ IF cur[w] = NoJob THEN UNCHANGED <<job, lease>> ELSE EndJob(w, "done")
  /\ LetGo(w, "idle")
  /\ UNCHANGED <<requestVars, draftVars, mailVars, tries, historyVars>>

\* The handler threw: markFailed, and for dead customer work the hand-off next.
\* (Input that no retry can read is dead at once: module Outbox.)
MarkFailed(w) ==
  /\ pc[w] = "threw"
  /\ IF cur[w] = NoJob
       THEN UNCHANGED <<job, lease>> /\ LetGo(w, "idle")
       ELSE LET dead == tries[cur[w]] >= Budget IN
              /\ EndJob(w, IF dead THEN "dead" ELSE "pending")
              /\ LetGo(w, IF dead /\ cur[w] \notin SendJob THEN "handoff" ELSE "idle")
  /\ UNCHANGED <<requestVars, draftVars, mailVars, tries, historyVars>>

\* handOffFailedWork: only a request that still waits goes to a person; one that a
\* person has is parked again when this message was not acknowledged yet.
HandOffFailedWork(w) ==
  /\ pc[w] = "handoff"
  /\ \/ state \notin {"closed", "recommendation_sent", "unsupported"} /\ Park("work_failed")
     \/ /\ state \in {"closed", "recommendation_sent", "unsupported", "manual_attention"}
        /\ UNCHANGED <<state, held>>
  /\ Goto(w, "idle")
  /\ UNCHANGED <<rev, versions, draftVars, mailVars, jobVars, cur, at, doc, historyVars>>

\* A statement or a call fails between two writes; after the provider's answer
\* dispatchSend catches the error and returns.
StepFails(w) ==
  /\ pc[w] \notin {"idle", "returned", "threw", "handoff", "submit"}
  /\ faults < MaxFaults /\ faults' = faults + 1
  /\ Goto(w, IF pc[w] \in {"file", "filed", "promised"} THEN "returned" ELSE "threw")
  /\ UNCHANGED <<requestVars, draftVars, mailVars, jobVars, cur, at, doc, withdrawn, removed, acts>>

Crash(w) ==
  /\ pc[w] # "idle"
  /\ faults < MaxFaults /\ faults' = faults + 1
  /\ LetGo(w, "idle")
  /\ UNCHANGED <<requestVars, draftVars, mailVars, jobVars, withdrawn, removed, acts>>

-----------------------------------------------------------------------------
(* interpret *)

\* What interpret's steps never touch.
InInterpret == <<about, listed, old, moved, noted, byApproval, kept, lease, tries, removed, faults, acts>>

\* The reads: the request and whether it has a version; the model call follows.  An
\* answer from facts they sent numbers a first revision 2 (saveEvidenceRevision).
InterpretReads(w) ==
  /\ pc[w] = "interpret"
  /\ \E r \in IF versions = {} THEN {1, rev + 1} ELSE {rev + 1} : at' = [at EXCEPT ![w] = r]
  /\ Goto(w, "reading")
  /\ UNCHANGED <<requestVars, status, mail, job, cur, doc, withdrawn, InInterpret>>

\* A refusal, a spent budget, a sender over the limits: a person takes it.  Or an
\* answer that makes no revision: off topic, an opt-out, "we bought them", an aside,
\* an evidence answer on the revision there is.
InterpretAside(w) ==
  /\ pc[w] = "reading"
  /\ \/ Park("not_read") \/ UNCHANGED <<state, held>>
     \/ \E to \in Outcome \ {"researching"} : Transition(to)
  /\ Goto(w, "returned")
  /\ UNCHANGED <<rev, versions, status, mail, job, cur, at, doc, withdrawn, InInterpret>>

\* Faulty variant of WriteVersion: no unique index on a request's revisions.
FaultyWriteVersion(w) ==
  /\ pc[w] = "reading" /\ at[w] <= MaxRev
  /\ versions' = versions \cup {at[w]}
  /\ Goto(w, "revise")
  /\ UNCHANGED <<state, held, rev, status, mail, job, cur, at, doc, withdrawn, InInterpret>>

\* The version's row; request_versions_uq refuses a revision that has one.
WriteVersion(w) ==
  /\ pc[w] = "reading" /\ at[w] <= MaxRev
  /\ versions' = versions \cup {at[w]}
  /\ Goto(w, IF at[w] \in versions THEN "threw" ELSE "revise")
  /\ UNCHANGED <<state, held, rev, status, mail, job, cur, at, doc, withdrawn, InInterpret>>

\* Faulty variant of SetRevision: the number is counted up twice.
FaultySetRevision(w) ==
  /\ pc[w] = "revise"
  /\ rev' = at[w] + 1
  /\ Goto(w, "invalidate")
  /\ UNCHANGED <<state, held, versions, status, mail, job, cur, at, doc, withdrawn,
                 InInterpret>>

\* currentRevision.  Some early answers ("stop watching", outside the US, facts from
\* a screenshot) do not invalidate what went before.
SetRevision(w) ==
  /\ pc[w] = "revise"
  /\ rev' = at[w]
  /\ \/ Goto(w, IF at[w] > 1 THEN "invalidate" ELSE "settle")
     \/ Goto(w, "answer")
  /\ UNCHANGED <<state, held, versions, status, mail, job, cur, at, doc, withdrawn,
                 InInterpret>>

\* invalidateForRevision, its first statement ...
InvalidateDrafts(w) ==
  /\ pc[w] = "invalidate"
  /\ Withdraw({d \in Draft : status[d] \in {"pending", "approved"} /\ about[d] < at[w]})
  /\ Goto(w, "block")
  /\ UNCHANGED <<requestVars, mail, job, cur, at, doc, InInterpret>>

\* ... and its third: queued recommendations are blocked, whatever their revision.
BlockQueued(w) ==
  /\ pc[w] = "block"
  /\ mail' = [d \in Draft |-> IF mail[d] = "queued" /\ d \in listed THEN "blocked" ELSE mail[d]]
  /\ Goto(w, "settle")
  /\ UNCHANGED <<requestVars, status, job, cur, at, doc, withdrawn, InInterpret>>

\* The answer that goes with the new state is held for a person.
ReplyIsHeld(w) ==
  /\ pc[w] \in {"settle", "answer"}
  /\ Park("reply_held")
  /\ UNCHANGED <<rev, versions, status, mail, job, workVars, withdrawn, InInterpret>>

\* The transition that ends the interpretation; research is ordered after it.
Settle(w) ==
  /\ \/ pc[w] = "settle" /\ \E to \in Outcome :
          Transition(to) /\ Goto(w, IF to = "researching" THEN "order" ELSE "returned")
     \/ pc[w] = "answer" /\ \E to \in Outcome \ {"researching"} :
          Transition(to) /\ Goto(w, "returned")
     \/ pc[w] = "settle" /\ Park("question_limit") /\ Goto(w, "returned")
  /\ UNCHANGED <<rev, versions, status, mail, job, cur, at, doc, withdrawn, InInterpret>>

OrderResearch(w) ==
  /\ pc[w] = "order"
  /\ Enqueue(Research(at[w], NoDraft))
  /\ Goto(w, "returned")
  /\ UNCHANGED <<requestVars, status, mail, cur, at, doc, withdrawn, InInterpret>>

-----------------------------------------------------------------------------
(* research *)

InResearch == <<rev, versions, old, moved, noted, lease, tries, cur, at, withdrawn,
                removed, faults, acts>>

\* Work for a superseded revision stops here, and only here.
StartResearch(w) ==
  /\ pc[w] = "research"
  /\ Goto(w, IF rev = cur[w].rev THEN "sources" ELSE "returned")
  /\ UNCHANGED <<state, held, status, about, listed, mailVars, job, doc, InResearch>>

Unused == {d \in Draft : status[d] = "none"}

\* Minutes of source and model calls later, the draft; a price check without
\* listings goes out without review.
InsertDraft(w) ==
  /\ pc[w] = "sources" /\ Unused # {}
  /\ LET d == CHOOSE x \in Unused : TRUE IN
       /\ status' = [status EXCEPT ![d] = "pending"]
       /\ about' = [about EXCEPT ![d] = cur[w].rev]
       /\ doc' = [doc EXCEPT ![w] = d]
       /\ \/ listed' = listed \cup {d} /\ Goto(w, "review")
          \/ UNCHANGED listed /\ \E label \in {"review", "autosend"} : Goto(w, label)
  /\ UNCHANGED <<state, held, mailVars, job, InResearch>>

MarkAutoSent(w) ==
  /\ pc[w] = "autosend"
  /\ status' = [status EXCEPT ![doc[w]] = "auto_sent"]
  /\ Goto(w, "queueauto")
  /\ UNCHANGED <<state, held, about, listed, mailVars, job, doc, InResearch>>

\* queueSend: a reply that repeats the last one, or that the answer gate refuses,
\* is held for a person; otherwise the intent (once per dedupe key) and its job.
QueueSend(d) ==
  \/ Park("reply_held") /\ kept' = kept \cup {d} /\ UNCHANGED <<mail, job>>
  \/ /\ mail' = [mail EXCEPT ![d] = IF @ = "none" THEN "queued" ELSE @]
     /\ IF mail[d] = "none" THEN Enqueue(Send(d)) ELSE UNCHANGED job
     /\ UNCHANGED <<state, held, kept>>

QueueAutoSend(w) ==
  /\ pc[w] = "queueauto"
  /\ QueueSend(doc[w])
  /\ Goto(w, "finish")
  /\ UNCHANGED <<status, about, listed, byApproval, doc, InResearch>>

\* The transition after an automatic send, or to review.
FinishResearch(w) ==
  /\ \/ pc[w] = "finish" /\ Transition("recommendation_sent") /\ Goto(w, "returned")
     \/ /\ pc[w] = "review" /\ Transition("awaiting_review")
        /\ Goto(w, IF AutoApprove THEN "approve" ELSE "returned")
  /\ UNCHANGED <<status, about, listed, mailVars, job, doc, InResearch>>

-----------------------------------------------------------------------------
(* approveRecommendation and reresearchExpired *)

InApproval == <<rev, versions, about, listed, old, moved, lease, tries, cur, at, doc,
                removed, faults, acts>>

\* The reads and checks; a changed event withdraws the draft, an expired one is
\* researched again.  Stale evidence or trend rights leave it for later.  The
\* system's own approval overwrites the note of one it may not approve.
ApproveChecks(w) ==
  /\ pc[w] = "approve"
  /\ LET d == doc[w] IN
       IF about[d] # rev \/ status[d] # "pending"
         THEN /\ Goto(w, "returned")
              /\ noted' = IF cur[w] = NoJob THEN noted ELSE noted \ {d}
              /\ UNCHANGED <<status, withdrawn>>
       ELSE IF d \in moved
         THEN Goto(w, "returned") /\ Withdraw({d}) /\ UNCHANGED noted
       ELSE /\ \/ d \in old /\ Goto(w, "expire")
               \/ d \notin old /\ \E label \in {"approving", "returned"} : Goto(w, label)
            /\ UNCHANGED <<status, noted, withdrawn>>
  /\ UNCHANGED <<state, held, mailVars, job, InApproval>>

\* The update goes by the draft's id alone.
Approve(w) ==
  /\ pc[w] = "approving"
  /\ status' = [status EXCEPT ![doc[w]] = "approved"]
  /\ noted' = noted \ {doc[w]}
  /\ Goto(w, "queue")
  /\ UNCHANGED <<state, held, mailVars, job, withdrawn, InApproval>>

QueueApproved(w) ==
  /\ pc[w] = "queue"
  /\ QueueSend(doc[w])
  /\ byApproval' = IF mail[doc[w]] = "none" /\ mail'[doc[w]] = "queued"
                     THEN byApproval \cup {doc[w]} ELSE byApproval
  /\ Goto(w, "returned")
  /\ UNCHANGED <<status, noted, withdrawn, InApproval>>

\* Back from reresearchExpired: a dispatch still has to refuse its mail.
Back(w) == IF cur[w] \in SendJob THEN "refuse" ELSE "returned"

ExpireDraft(w) ==
  /\ pc[w] = "expire"
  /\ Withdraw({doc[w]})
  /\ noted' = noted \cup {doc[w]}
  /\ Goto(w, "expired")
  /\ UNCHANGED <<state, held, mailVars, job, InApproval>>

\* Only a request that still waits for this answer is researched again; nor is one
\* that a switch or an opt-out would stop, or whose customer opted out.
ReresearchChecks(w) ==
  /\ pc[w] = "expired"
  /\ LET d == doc[w]
         waits == /\ rev = about[d]
                  /\ state \notin {"closed", "referred", "unsupported", "manual_attention"}
         often == Cardinality({x \in noted : about[x] = about[d]}) >= ExpiryLimit
     IN \/ waits /\ Goto(w, IF often THEN "giveup" ELSE "again")
        \/ Goto(w, Back(w))
  /\ UNCHANGED <<state, held, status, noted, mailVars, job, withdrawn, InApproval>>

GiveUp(w) ==
  /\ pc[w] = "giveup"
  /\ Park("recommendation_expired_repeatedly")
  /\ Goto(w, Back(w))
  /\ UNCHANGED <<status, noted, mailVars, job, withdrawn, InApproval>>

ResearchAgain(w) ==
  /\ pc[w] = "again"
  /\ Transition("researching")
  /\ Goto(w, "reorder")
  /\ UNCHANGED <<status, noted, mailVars, job, withdrawn, InApproval>>

\* Faulty variant of OrderAgain: the event key leaves out the expired draft.
FaultyOrderAgain(w) ==
  /\ pc[w] = "reorder"
  /\ Enqueue(Research(about[doc[w]], NoDraft))
  /\ Goto(w, Back(w))
  /\ UNCHANGED <<state, held, status, noted, mailVars, withdrawn, InApproval>>

OrderAgain(w) ==
  /\ pc[w] = "reorder"
  /\ Enqueue(Research(about[doc[w]], doc[w]))
  /\ Goto(w, Back(w))
  /\ UNCHANGED <<state, held, status, noted, mailVars, withdrawn, InApproval>>

-----------------------------------------------------------------------------
(* dispatchSend, for the email of a draft *)

InDispatch == <<rev, versions, about, listed, old, moved, byApproval, kept, jobVars,
                cur, at>>

\* claimSendIntent.
ClaimMail(w) ==
  /\ pc[w] = "send"
  /\ LET d == cur[w].draft IN
       IF mail[d] = "queued"
         THEN /\ mail' = [mail EXCEPT ![d] = "claimed"]
              /\ doc' = [doc EXCEPT ![w] = d]
              /\ Goto(w, "gate")
         ELSE Goto(w, "returned") /\ UNCHANGED <<mail, doc>>
  /\ UNCHANGED <<state, held, status, noted, historyVars, InDispatch>>

\* What dispatchSend reads about the draft of an intent that carries an approval.
ApprovedNow(d) == status[d] = "approved"
ExpiredNow(d) == d \in byApproval /\ ApprovedNow(d) /\ d \in old
ChangedNow(d) == d \in byApproval /\ d \in moved

\* Faulty variant of GatePasses: an approval given is trusted.
FaultyGateTrustsApproval(d) == d \in listed => d \in byApproval /\ ApprovedNow(d)

\* evaluateGate and dispatchSend's own reasons: the revision is current, offers have
\* their approval, and the draft is neither expired nor about a changed event.
GatePasses(d) ==
  /\ rev = about[d]
  /\ d \in listed => d \in byApproval /\ ApprovedNow(d)
  /\ ~ExpiredNow(d) /\ ~ChangedNow(d)

GateAllows(w) ==
  /\ pc[w] = "gate" /\ GatePasses(doc[w])
  /\ Goto(w, "submit")
  /\ UNCHANGED <<state, held, status, noted, mail, doc, historyVars, InDispatch>>

\* The gate may refuse for other reasons too (switches, suppression, stale evidence).
GateRefuses(w) ==
  /\ pc[w] = "gate"
  /\ LET d == doc[w] IN
       \/ ChangedNow(d) /\ Withdraw({d}) /\ noted' = noted \ {d} /\ Goto(w, "refuse")
       \/ /\ ~ChangedNow(d)
          /\ Goto(w, IF ExpiredNow(d) THEN "expire" ELSE "refuse")
          /\ UNCHANGED <<status, noted, withdrawn>>
  /\ UNCHANGED <<state, held, mail, doc, removed, faults, acts, InDispatch>>

\* Faulty variant of RefuseMail: the claim is not released.
FaultyRefuseMail(w) ==
  /\ pc[w] = "refuse"
  /\ Goto(w, "returned")
  /\ UNCHANGED <<state, held, status, noted, mail, doc, historyVars, InDispatch>>

RefuseMail(w) ==
  /\ pc[w] = "refuse"
  /\ mail' = [mail EXCEPT ![doc[w]] = IF @ = "claimed" THEN "blocked" ELSE @]
  /\ Goto(w, "returned")
  /\ UNCHANGED <<state, held, status, noted, doc, historyVars, InDispatch>>

\* The provider takes the mail and the answer is recorded; without an answer the
\* outcome is uncertain (what follows is module SendIntents').
SubmitMail(w) ==
  /\ pc[w] = "submit"
  /\ \/ mail' = [mail EXCEPT ![doc[w]] = "accepted"] /\ Goto(w, "file")
     \/ mail' = [mail EXCEPT ![doc[w]] = "uncertain"] /\ Goto(w, "returned")
  /\ UNCHANGED <<state, held, status, noted, doc, historyVars, InDispatch>>

\* An approved draft is marked sent ...
FileSent(w) ==
  /\ pc[w] = "file"
  /\ IF doc[w] \in byApproval
       THEN status' = [status EXCEPT ![doc[w]] = "sent"] /\ Goto(w, "filed")
       ELSE UNCHANGED status /\ Goto(w, "promised")
  /\ UNCHANGED <<state, held, noted, mail, doc, historyVars, InDispatch>>

\* ... its request answered ...
FileRequest(w) ==
  /\ pc[w] = "filed"
  /\ Transition("recommendation_sent")
  /\ Goto(w, "promised")
  /\ UNCHANGED <<status, noted, mail, doc, historyVars, InDispatch>>

\* ... and handed over, if the answer promised a person's comparison.
KeepPromise(w) ==
  /\ pc[w] = "promised"
  /\ Park("staff_comparison") \/ UNCHANGED <<state, held>>
  /\ Goto(w, "returned")
  /\ UNCHANGED <<status, noted, mail, doc, historyVars, InDispatch>>

-----------------------------------------------------------------------------
InterpretStep(w) ==
  \/ InterpretReads(w) \/ InterpretAside(w) \/ WriteVersion(w) \/ SetRevision(w)
  \/ InvalidateDrafts(w) \/ BlockQueued(w) \/ Settle(w) \/ OrderResearch(w)

ResearchStep(w) ==
  \/ StartResearch(w) \/ InsertDraft(w) \/ MarkAutoSent(w) \/ QueueAutoSend(w)
  \/ FinishResearch(w)

ApprovalStep(w) ==
  \/ ApproveChecks(w) \/ Approve(w) \/ QueueApproved(w) \/ ExpireDraft(w)
  \/ ReresearchChecks(w) \/ GiveUp(w) \/ ResearchAgain(w) \/ OrderAgain(w)

DispatchStep(w) ==
  \/ ClaimMail(w) \/ GateAllows(w) \/ GateRefuses(w) \/ RefuseMail(w)
  \/ SubmitMail(w) \/ FileSent(w) \/ FileRequest(w) \/ KeepPromise(w)

Step(w) ==
  \/ InterpretStep(w) \/ ResearchStep(w) \/ ApprovalStep(w) \/ DispatchStep(w)
  \/ MarkDispatched(w) \/ MarkFailed(w) \/ HandOffFailedWork(w)

Next ==
  \/ \E m \in Message : MessageArrives(m)
  \/ \E d \in Draft : DraftAges(d) \/ \E w \in Worker : StaffOpens(w, d)
  \/ EventChanges \/ StaffOrdersResearch \/ StaffReplies \/ RemoveRequest
  \/ \E j \in Job : ReplayDead(j)
  \/ \E w \in Worker, j \in Job : TakeJob(w, j) \/ TakeOver(w, j)
  \/ \E w \in Worker : Step(w) \/ ReplyIsHeld(w) \/ StepFails(w) \/ Crash(w)

Spec == Init /\ [][Next]_vars
LaterSpec == InitResearching /\ [][Next]_vars

\* Due jobs are taken and a handler goes on until it ends or its process dies.
\* Nothing obliges customers, staff or the clock.
Fairness ==
  /\ \A w \in Worker : WF_vars(Step(w))
  /\ \A j \in Job : WF_vars(\E w \in Worker : TakeJob(w, j))

FairSpec == Spec /\ Fairness
LaterFairSpec == LaterSpec /\ Fairness

-----------------------------------------------------------------------------
(* What the request's life promises *)

\* An approved answer that lists offers never passes the gate once its draft has
\* been withdrawn - by a newer revision, an expiry or a change of the event - even
\* when an approval that was already past its checks brings the draft back.
\* (invalidateForRevision, reresearchExpired, dispatchSend; DECISION A05, A27.)
WithdrawnIsNeverSent ==
  [][\A w \in Worker :
       /\ pc[w] = "gate" /\ pc'[w] = "submit" /\ doc[w] \in listed
       => doc[w] \notin withdrawn]_vars

\* However interpretations of a request are repeated, overtaken or cut short, its
\* revisions are numbered without a gap, at most one is written and not yet current,
\* and one handler only is about to make it current.  (interpret; request_versions_uq.)
RevisionsInOrder ==
  /\ 1 .. rev \subseteq versions /\ versions \subseteq 1 .. rev + 1
  /\ \A w \in Worker : pc[w] = "revise" => at[w] = rev + 1 /\ at[w] \in versions
  /\ \A v, w \in Worker : pc[v] = "revise" /\ pc[w] = "revise" => v = w

\* So a request never goes back to an earlier revision.  (interpret.)
RevisionMovesForward == [][rev' >= rev]_vars

\* A request that is being researched comes out of it, or has a draft for its
\* current revision that was not withdrawn.  (research, reresearchExpired, interpret;
\* two who find the same draft expired may leave the state itself behind.)
ResearchEnds ==
  state = "researching"
    ~> \/ state # "researching"
       \/ \E d \in Draft : about[d] = rev /\ status[d] \notin {"none", "invalidated"}

\* An approved draft is mailed, refused, withdrawn or kept for a person.
\* (approveRecommendation, queueSend, dispatchSend.)
ApprovedIsSettled ==
  \A d \in Draft :
    status[d] = "approved"
      ~> \/ status[d] # "approved" \/ mail[d] \in {"blocked", "uncertain", "accepted"}
         \/ d \in kept
=============================================================================
