---------------------------- MODULE Inbound_proofs ----------------------------
(***************************************************************************)
(* Proofs about module Inbound, for every set of emails, senders and       *)
(* workers, every way its headers name earlier mail, and every bound.      *)
(***************************************************************************)
EXTENDS Inbound, FiniteSetTheorems, TLAPS

USE DEF eventVars, mailVars, workerVars, sweepVars

-----------------------------------------------------------------------------
(* The inductive invariant. *)

\* A worker that is not idle has an event in its hands.
InHand == \A w \in Worker : pc[w] # "idle" => cur[w] \in Key

\* A conversation is named by the email that began it, and is one sender's.
Rooted ==
  \A e \in Email : conv[e] # NoEmail => conv[conv[e]] = conv[e] /\ Sender[conv[e]] = Sender[e]

\* Only stored mail has a request, and no conversation has two open ones but by
\* reopening.
RequestsAreFiled ==
  /\ \A e \in Email : request[e] # "absent" => conv[e] # NoEmail
  /\ \A e \in reopened : request[e] # "absent"
NoSecondRequest ==
  \A d, e \in Email \ reopened :
    request[d] = "open" /\ request[e] = "open" /\ conv[d] = conv[e] => d = e

\* The contact's row is held by one transaction at a time.
OneWriter ==
  \A v, w \in Worker :
    pc[v] = "commit" /\ pc[w] = "commit" /\ Sender[MailOf(v)] = Sender[MailOf(w)] => v = w

\* Where an email may be filed: a conversation of its own, or one of its sender's.
Homes(e) == {e} \cup {d \in Email : conv[d] = d /\ Sender[d] = Sender[e]}

\* What a transaction read when it got the row is still so when it commits.
ReadsStand ==
  \A w \in Worker : pc[w] = "commit" =>
    /\ conv[MailOf(w)] = NoEmail
    /\ thread[w] \in Homes(MailOf(w))
    /\ joins[w] = NoEmail => OpenRequests(thread[w]) \subseteq reopened

IngestedIsStored == \A w \in Worker : pc[w] = "ingested" => conv[MailOf(w)] # NoEmail

Filing ==
  /\ InHand /\ Rooted /\ RequestsAreFiled /\ NoSecondRequest /\ OneWriter /\ ReadsStand
  /\ IngestedIsStored /\ ProcessedIsStored
IInv == TypeOK /\ Filing

-----------------------------------------------------------------------------
(* The types. *)

LEMMA Keys ==
  ASSUME NEW e \in Email
  PROVE  <<"webhook", e>> \in Key /\ <<"sweep", e>> \in Key
  BY DEF Key

LEMMA LetGoType ==
  ASSUME TypeOK, NEW w,
         NEW label \in {"idle", "retrieve", "check", "contact", "commit", "ingested",
                        "returned", "threw", "handoff"},
         LetGo(w, label)
  PROVE  /\ pc' \in [Worker -> {"idle", "retrieve", "check", "contact", "commit",
                                "ingested", "returned", "threw", "handoff"}]
         /\ cur' \in [Worker -> Key \cup {NoKey}] /\ known' \in [Worker -> BOOLEAN]
         /\ thread' \in [Worker -> Email \cup {NoEmail}]
         /\ joins' \in [Worker -> Email \cup {NoEmail}]
  BY DEF LetGo, Goto, TypeOK

LEMMA EndJobType ==
  ASSUME TypeOK, NEW w, NEW to \in {"pending", "dispatched", "dead"}, EndJob(w, to)
  PROVE  /\ job' \in [Key -> {"absent", "pending", "leased", "dispatched", "dead"}]
         /\ lease' \in [Key -> Worker \cup {NoWorker}]
  BY DEF EndJob, TypeOK

LEMMA TypeInit == InboundAssumption /\ Init => TypeOK
<1> SUFFICES ASSUME InboundAssumption, Init PROVE TypeOK
  OBVIOUS
<1>1. Stored \subseteq Email
  BY DEF InboundAssumption
<1>2. 0 \in 0 .. Budget /\ 0 \in 0 .. MaxFaults /\ 0 \in 0 .. MaxActs
  BY DEF InboundAssumption
<1> QED
  BY <1>1, <1>2 DEF Init, TypeOK

LEMMA TypeOutside ==
  ASSUME InboundAssumption, TypeOK,
         \/ \E e \in Email : WebhookDelivers(e) \/ SweepWrites(e) \/ RequestCloses(e) \/ RequestReopens(e)
         \/ SweepReads \/ SweepQueues \/ SweepStops
         \/ \E k \in Key : ReplayDead(k) \/ AlertStaffUnreadEmail(k) \/ AlertGoesUnsent(k)
  PROVE  TypeOK'
<1> USE DEF Act, Fault
<1>1. ASSUME NEW e \in Email, WebhookDelivers(e) PROVE TypeOK'
  BY <1>1, Keys DEF WebhookDelivers, TypeOK
<1>2. ASSUME NEW e \in Email, SweepWrites(e) PROVE TypeOK'
  BY <1>2, Keys DEF SweepWrites, TypeOK
<1>3. ASSUME NEW e \in Email, RequestCloses(e) PROVE TypeOK'
  BY <1>3 DEF RequestCloses, TypeOK, InboundAssumption
<1>10. ASSUME NEW e \in Email, RequestReopens(e) PROVE TypeOK'
  BY <1>10 DEF RequestReopens, TypeOK, InboundAssumption
<1>4. CASE SweepReads
  BY <1>4 DEF SweepReads, TypeOK, InboundAssumption
<1>5. CASE SweepQueues
  BY <1>5, Keys DEF SweepQueues, TypeOK
<1>6. CASE SweepStops
  BY <1>6 DEF SweepStops, TypeOK, InboundAssumption
<1>7. ASSUME NEW k \in Key, ReplayDead(k) PROVE TypeOK'
  BY <1>7 DEF ReplayDead, TypeOK, InboundAssumption
<1>8. ASSUME NEW k \in Key, AlertStaffUnreadEmail(k) PROVE TypeOK'
  BY <1>8 DEF AlertStaffUnreadEmail, TypeOK
<1>9. ASSUME NEW k \in Key, AlertGoesUnsent(k) PROVE TypeOK'
  BY <1>9 DEF AlertGoesUnsent, TypeOK
<1> QED
  BY <1>1, <1>2, <1>3, <1>4, <1>5, <1>6, <1>7, <1>8, <1>9, <1>10

LEMMA TypeLease ==
  ASSUME InboundAssumption, TypeOK, NEW w \in Worker, NEW k \in Key,
         TakeJob(w, k) \/ TakeOver(w, k)
  PROVE  TypeOK'
<1>1. LeaseJob(w, k)
  BY DEF TakeJob, TakeOver
<1>2. /\ faults' \in 0 .. MaxFaults
      /\ UNCHANGED <<event, alert, mailVars, known, thread, joins, sweepVars, acts>>
  BY <1>1 DEF TakeJob, TakeOver, LeaseJob, Fault, TypeOK, InboundAssumption
<1>3. tries' \in [Key -> 0 .. Budget]
  BY <1>1 DEF LeaseJob, TypeOK, InboundAssumption
<1>4. /\ job' \in [Key -> {"absent", "pending", "leased", "dispatched", "dead"}]
      /\ lease' \in [Key -> Worker \cup {NoWorker}]
      /\ cur' \in [Worker -> Key \cup {NoKey}]
  BY <1>1 DEF LeaseJob, TypeOK
<1>5. pc' \in [Worker -> {"idle", "retrieve", "check", "contact", "commit",
                          "ingested", "returned", "threw", "handoff"}]
  BY <1>1 DEF LeaseJob, Goto, TypeOK
<1> QED
  BY <1>2, <1>3, <1>4, <1>5 DEF TypeOK

LEMMA TypeEnds ==
  ASSUME InboundAssumption, TypeOK, InHand, NEW w \in Worker,
         \/ MarkDispatched(w) \/ MarkFailed(w) \/ HandOffFailedWork(w)
         \/ StepFails(w) \/ Crash(w)
  PROVE  TypeOK'
<1>1. CASE MarkDispatched(w)
  BY <1>1, LetGoType, EndJobType DEF MarkDispatched, TypeOK
<1>2. CASE MarkFailed(w)
  <2>1. \/ EndJob(w, "dead") /\ LetGo(w, "handoff")
        \/ EndJob(w, "pending") /\ LetGo(w, "idle")
    BY <1>2 DEF MarkFailed
  <2> QED
    BY <1>2, <2>1, LetGoType, EndJobType DEF MarkFailed, TypeOK
<1>3. CASE HandOffFailedWork(w)
  BY <1>3, LetGoType DEF HandOffFailedWork, TypeOK
<1>4. CASE StepFails(w)
  BY <1>4, LetGoType DEF StepFails, Fault, TypeOK, InboundAssumption
<1>5. CASE Crash(w)
  <2>1. untold' \subseteq Key
    BY <1>5 DEF Crash, TypeOK, InHand
  <2> QED
    BY <1>5, <2>1, LetGoType DEF Crash, Fault, TypeOK, InboundAssumption
<1> QED
  BY <1>1, <1>2, <1>3, <1>4, <1>5

LEMMA MailIsEmail ==
  ASSUME NEW w \in Worker, cur[w] \in Key
  PROVE  MailOf(w) \in Email
  BY DEF MailOf, Key

LEMMA TypeIngest ==
  ASSUME InboundAssumption, TypeOK, InHand, NEW w \in Worker,
         \/ Retrieve(w) \/ CheckDuplicate(w) \/ LockContact(w) \/ CommitIngest(w)
         \/ MarkProcessed(w)
  PROVE  TypeOK'
<1>1. CASE Retrieve(w)
  BY <1>1 DEF Retrieve, Goto, TypeOK
<1>2. CASE CheckDuplicate(w)
  BY <1>2 DEF CheckDuplicate, Goto, TypeOK
<1>3. CASE LockContact(w)
  <2>1. MailOf(w) \in Email
    BY <1>3, MailIsEmail DEF LockContact, InHand
  <2>2. \A e \in Email : Threads(e) \subseteq Email \cup {NoEmail}
    BY DEF Threads, TypeOK, InboundAssumption
  <2>3. /\ thread' \in [Worker -> Email \cup {NoEmail}]
        /\ joins' \in [Worker -> Email \cup {NoEmail}]
        /\ pc' \in [Worker -> {"idle", "retrieve", "check", "contact", "commit",
                               "ingested", "returned", "threw", "handoff"}]
        /\ cur' \in [Worker -> Key \cup {NoKey}] /\ known' \in [Worker -> BOOLEAN]
    <3>1. CASE LetGo(w, "threw")
      BY <3>1, LetGoType
    <3>2. CASE ~LetGo(w, "threw")
      BY <1>3, <2>1, <2>2, <3>2 DEF LockContact, OpenRequests, Goto, TypeOK
    <3> QED
      BY <3>1, <3>2
  <2> QED
    BY <1>3, <2>3 DEF LockContact, TypeOK
<1>4. CASE CommitIngest(w)
  <2>1. MailOf(w) \in Email
    BY <1>4, MailIsEmail DEF CommitIngest, InHand
  <2> QED
    BY <1>4, <2>1 DEF CommitIngest, Goto, TypeOK
<1>5. CASE MarkProcessed(w)
  BY <1>5 DEF MarkProcessed, Goto, TypeOK
<1> QED
  BY <1>1, <1>2, <1>3, <1>4, <1>5

-----------------------------------------------------------------------------
(* Filing. *)

LEMMA FilingInit == InboundAssumption /\ Init => Filing
<1> SUFFICES ASSUME InboundAssumption, Init PROVE Filing
  OBVIOUS
<1>1. \A w \in Worker : pc[w] = "idle"
  BY DEF Init
<1>2. reopened = {} /\ \A e \in Email : conv[e] \in {e, NoEmail} /\ request[e] = "absent"
  BY DEF Init
<1>3. ProcessedIsStored
  BY DEF ProcessedIsStored, Init, Key, InboundAssumption
<1> QED
  BY <1>1, <1>2, <1>3 DEF Filing, InHand, Rooted, RequestsAreFiled, NoSecondRequest, OneWriter,
     ReadsStand, IngestedIsStored

\* A step that stores no mail and no request, and takes no worker to "commit" or "ingested".
LEMMA Quiet ==
  ASSUME Filing, conv' = conv, request' = request, reopened' = reopened,
         \A v \in Worker : pc'[v] # "idle" => cur'[v] \in Key,
         \A v \in Worker : pc'[v] \in {"commit", "ingested"} =>
           /\ pc[v] = pc'[v] /\ cur'[v] = cur[v]
           /\ thread'[v] = thread[v] /\ joins'[v] = joins[v],
         \A k \in Key : event'[k] = "processed" => event[k] = "processed"
  PROVE  Filing'
<1>1. InHand' /\ Rooted' /\ RequestsAreFiled' /\ NoSecondRequest'
  BY DEF Filing, InHand, Rooted, RequestsAreFiled, NoSecondRequest
<1>2. OneWriter' /\ IngestedIsStored'
  BY DEF Filing, OneWriter, IngestedIsStored, MailOf
<1>3. ReadsStand'
  BY DEF Filing, ReadsStand, MailOf, Homes, OpenRequests
<1>4. ProcessedIsStored'
  BY DEF Filing, ProcessedIsStored
<1> QED
  BY <1>1, <1>2, <1>3, <1>4 DEF Filing

\* What a worker leaves behind is only its own.
LEMMA LetGoFiling ==
  ASSUME TypeOK, Filing, NEW w \in Worker, NEW label \in {"idle", "threw", "handoff"},
         LetGo(w, label), pc[w] # "idle",
         UNCHANGED <<event, conv, request, reopened>>
  PROVE  Filing'
<1>1. \A v \in Worker : v # w => /\ pc'[v] = pc[v] /\ cur'[v] = cur[v]
                                /\ thread'[v] = thread[v] /\ joins'[v] = joins[v]
  BY DEF LetGo, Goto, TypeOK
<1>2. pc'[w] = label /\ (label # "idle" => cur'[w] = cur[w])
  BY DEF LetGo, Goto, TypeOK
<1> QED
  BY <1>1, <1>2, Quiet DEF Filing, InHand

LEMMA GotoFiling ==
  ASSUME TypeOK, Filing, NEW w \in Worker, NEW label \in {"retrieve", "check", "contact", "returned"},
         Goto(w, label), cur' = cur, thread' = thread, joins' = joins, pc[w] # "idle",
         UNCHANGED <<conv, request, reopened>>,
         \A k \in Key : event'[k] = "processed" => event[k] = "processed"
  PROVE  Filing'
<1>1. \A v \in Worker : v # w => pc'[v] = pc[v]
  BY DEF Goto, TypeOK
<1>2. pc'[w] = label
  BY DEF Goto, TypeOK
<1> QED
  BY <1>1, <1>2, Quiet DEF Filing, InHand

LEMMA FilingOutside ==
  ASSUME TypeOK, Filing,
         \/ \E e \in Email : WebhookDelivers(e) \/ SweepWrites(e)
         \/ SweepReads \/ SweepQueues \/ SweepStops
         \/ \E k \in Key : ReplayDead(k) \/ AlertStaffUnreadEmail(k) \/ AlertGoesUnsent(k)
         \/ UNCHANGED vars
  PROVE  Filing'
<1>1. UNCHANGED <<conv, request, reopened, pc, cur, thread, joins>>
  BY DEF WebhookDelivers, SweepWrites, SweepReads, SweepQueues, SweepStops, ReplayDead,
         AlertStaffUnreadEmail, AlertGoesUnsent, vars
<1>2. \A k \in Key : event'[k] = "processed" => event[k] = "processed"
  <2>1. ASSUME NEW e \in Email, WebhookDelivers(e)
        PROVE  \A k \in Key : event'[k] = "processed" => event[k] = "processed"
    BY <2>1, Keys DEF WebhookDelivers, TypeOK
  <2>2. ASSUME NEW e \in Email, SweepWrites(e)
        PROVE  \A k \in Key : event'[k] = "processed" => event[k] = "processed"
    BY <2>2, Keys DEF SweepWrites, TypeOK
  <2>3. UNCHANGED event \/ \E e \in Email : WebhookDelivers(e) \/ SweepWrites(e)
    BY DEF SweepReads, SweepQueues, SweepStops, ReplayDead, AlertStaffUnreadEmail, AlertGoesUnsent, vars
  <2> QED
    BY <2>1, <2>2, <2>3
<1> QED
  BY <1>1, <1>2, Quiet DEF Filing, InHand

LEMMA FilingLease ==
  ASSUME TypeOK, Filing, NEW w \in Worker, NEW k \in Key, TakeJob(w, k) \/ TakeOver(w, k)
  PROVE  Filing'
<1>1. LeaseJob(w, k)
  BY DEF TakeJob, TakeOver
<1>2. \A v \in Worker : v # w => pc'[v] = pc[v] /\ cur'[v] = cur[v]
  BY <1>1 DEF LeaseJob, Goto, TypeOK
<1>3. pc'[w] = "retrieve" /\ cur'[w] = k
  BY <1>1 DEF LeaseJob, Goto, TypeOK
<1>4. UNCHANGED <<event, conv, request, reopened, thread, joins>>
  BY <1>1 DEF LeaseJob
<1> QED
  BY <1>2, <1>3, <1>4, Quiet DEF Filing, InHand

LEMMA FilingEnds ==
  ASSUME TypeOK, Filing, NEW w \in Worker,
         \/ MarkDispatched(w) \/ MarkFailed(w) \/ HandOffFailedWork(w)
         \/ StepFails(w) \/ Crash(w)
  PROVE  Filing'
<1>1. UNCHANGED <<event, conv, request, reopened>> /\ pc[w] # "idle"
  BY DEF MarkDispatched, MarkFailed, HandOffFailedWork, StepFails, Crash
<1>2. \E label \in {"idle", "threw", "handoff"} : LetGo(w, label)
  BY DEF MarkDispatched, MarkFailed, HandOffFailedWork, StepFails, Crash
<1> QED
  BY <1>1, <1>2, LetGoFiling

LEMMA FilingRetrieve ==
  ASSUME TypeOK, Filing, NEW w \in Worker, Retrieve(w)
  PROVE  Filing'
<1>1. \E label \in {"check", "returned"} : Goto(w, label)
  BY DEF Retrieve
<1>2. \A k \in Key : event'[k] = "processed" => event[k] = "processed"
  BY DEF Retrieve, TypeOK
<1> QED
  BY <1>1, <1>2, GotoFiling DEF Retrieve

LEMMA FilingCheck ==
  ASSUME TypeOK, Filing, NEW w \in Worker, CheckDuplicate(w)
  PROVE  Filing'
<1>1. CASE conv[MailOf(w)] = NoEmail
  BY <1>1, GotoFiling DEF CheckDuplicate
<1>2. CASE conv[MailOf(w)] # NoEmail
  <2>1. /\ UNCHANGED <<event, conv, request, reopened, cur, thread, joins>>
        /\ pc'[w] = "ingested" /\ \A v \in Worker : v # w => pc'[v] = pc[v]
    BY <1>2 DEF CheckDuplicate, Goto, TypeOK
  <2>2. InHand' /\ Rooted' /\ RequestsAreFiled' /\ NoSecondRequest' /\ ProcessedIsStored'
    BY <2>1 DEF Filing, InHand, Rooted, RequestsAreFiled, NoSecondRequest, ProcessedIsStored,
                CheckDuplicate
  <2>3. OneWriter' /\ ReadsStand'
    BY <2>1 DEF Filing, OneWriter, ReadsStand, MailOf, Homes, OpenRequests
  <2>4. IngestedIsStored'
    BY <1>2, <2>1 DEF Filing, IngestedIsStored, MailOf
  <2> QED
    BY <2>2, <2>3, <2>4 DEF Filing
<1> QED
  BY <1>1, <1>2

LEMMA FilingProcessed ==
  ASSUME TypeOK, Filing, NEW w \in Worker, MarkProcessed(w)
  PROVE  Filing'
<1>1. /\ UNCHANGED <<conv, request, reopened, cur, thread, joins>>
      /\ pc'[w] = "returned" /\ \A v \in Worker : v # w => pc'[v] = pc[v]
  BY DEF MarkProcessed, Goto, TypeOK
<1>2. ProcessedIsStored'
  <2>1. cur[w] \in Key /\ conv[cur[w][2]] # NoEmail
    BY DEF MarkProcessed, Filing, InHand, IngestedIsStored, MailOf
  <2> QED
    BY <1>1, <2>1 DEF MarkProcessed, Filing, ProcessedIsStored, TypeOK
<1>3. InHand' /\ Rooted' /\ RequestsAreFiled' /\ NoSecondRequest'
  BY <1>1 DEF Filing, InHand, Rooted, RequestsAreFiled, NoSecondRequest, MarkProcessed
<1>4. OneWriter' /\ ReadsStand' /\ IngestedIsStored'
  BY <1>1 DEF Filing, OneWriter, ReadsStand, IngestedIsStored, MailOf, Homes, OpenRequests
<1> QED
  BY <1>2, <1>3, <1>4 DEF Filing

LEMMA FilingCloses ==
  ASSUME TypeOK, Filing, NEW e \in Email, RequestCloses(e)
  PROVE  Filing'
<1>1. /\ UNCHANGED <<event, conv, reopened, pc, cur, thread, joins>>
      /\ \A d \in Email : request'[d] = "absent" <=> request[d] = "absent"
      /\ \A d \in Email : request'[d] = "open" => request[d] = "open"
  BY DEF RequestCloses, TypeOK
<1>2. InHand' /\ Rooted' /\ RequestsAreFiled' /\ NoSecondRequest' /\ ProcessedIsStored'
  BY <1>1 DEF Filing, InHand, Rooted, RequestsAreFiled, NoSecondRequest, ProcessedIsStored,
              TypeOK
<1>3. OneWriter' /\ ReadsStand' /\ IngestedIsStored'
  BY <1>1 DEF Filing, OneWriter, ReadsStand, IngestedIsStored, MailOf, Homes, OpenRequests
<1> QED
  BY <1>2, <1>3 DEF Filing

LEMMA FilingReopens ==
  ASSUME TypeOK, Filing, NEW e \in Email, RequestReopens(e)
  PROVE  Filing'
<1>1. /\ UNCHANGED <<event, conv, pc, cur, thread, joins>>
      /\ reopened' = reopened \cup {e} /\ request[e] # "absent" /\ request'[e] = "open"
      /\ \A d \in Email : d # e => request'[d] = request[d]
  BY DEF RequestReopens, TypeOK
<1>2. InHand' /\ Rooted' /\ ProcessedIsStored'
  BY <1>1 DEF Filing, InHand, Rooted, ProcessedIsStored
<1>3. RequestsAreFiled' /\ NoSecondRequest'
  BY <1>1 DEF Filing, RequestsAreFiled, NoSecondRequest, TypeOK
<1>4. OneWriter' /\ ReadsStand' /\ IngestedIsStored'
  BY <1>1 DEF Filing, OneWriter, ReadsStand, IngestedIsStored, MailOf, Homes, OpenRequests
<1> QED
  BY <1>2, <1>3, <1>4 DEF Filing

-----------------------------------------------------------------------------
(* The transaction that stores an email. *)

\* Every thread the headers lead to is a conversation of the sender's.
LEMMA ThreadsAreHomes ==
  ASSUME InboundAssumption, TypeOK, Rooted, NEW e \in Email, NEW c \in Threads(e)
  PROVE  c \in Homes(e)
<1>1. PICK d \in Email : conv[d] = c /\ conv[d] # NoEmail /\ Sender[d] = Sender[e]
  BY DEF Threads, InboundAssumption
<1> QED
  BY <1>1 DEF Rooted, Homes, TypeOK

LEMMA FilingLocks ==
  ASSUME InboundAssumption, TypeOK, Filing, NEW w \in Worker, LockContact(w)
  PROVE  Filing'
<1>1. CASE LetGo(w, "threw")
  BY <1>1, LetGoFiling DEF LockContact
<1>2. CASE ~LetGo(w, "threw")
  <2> DEFINE e == MailOf(w)
  <2>1. e \in Email
    BY MailIsEmail DEF LockContact, Filing, InHand
  <2>2. /\ UNCHANGED <<event, conv, request, reopened, cur>> /\ conv[e] = NoEmail
        /\ pc'[w] = "commit" /\ \A v \in Worker : v # w => pc'[v] = pc[v]
    BY <1>2 DEF LockContact, Goto, TypeOK
  <2>3. /\ thread'[w] \in IF Threads(e) = {} THEN {e} ELSE Threads(e)
        /\ joins'[w] \in IF OpenRequests(thread'[w]) = {} THEN {NoEmail}
                         ELSE OpenRequests(thread'[w])
        /\ \A v \in Worker : v # w => thread'[v] = thread[v] /\ joins'[v] = joins[v]
    BY <1>2 DEF LockContact, TypeOK
  <2>4. thread'[w] \in Homes(e)
    BY <2>1, <2>3, ThreadsAreHomes DEF Filing, Homes
  <2>5. joins'[w] = NoEmail => OpenRequests(thread'[w]) \subseteq reopened
    BY <2>3 DEF OpenRequests, InboundAssumption
  <2>6. InHand' /\ Rooted' /\ RequestsAreFiled' /\ NoSecondRequest' /\ ProcessedIsStored'
    BY <2>2 DEF Filing, InHand, Rooted, RequestsAreFiled, NoSecondRequest, ProcessedIsStored,
                LockContact
  <2>7. OneWriter' /\ IngestedIsStored'
    BY <2>2 DEF Filing, OneWriter, IngestedIsStored, MailOf, LockContact, Locked
  <2>8. ReadsStand'
    BY <2>2, <2>3, <2>4, <2>5 DEF Filing, ReadsStand, MailOf, Homes, OpenRequests
  <2> QED
    BY <2>6, <2>7, <2>8 DEF Filing
<1> QED
  BY <1>1, <1>2

\* The email it stores, in the conversation it chose, and whether with a request.
LEMMA CommitEffect ==
  ASSUME TypeOK, Filing, NEW w \in Worker, CommitIngest(w)
  PROVE  /\ MailOf(w) \in Email /\ conv[MailOf(w)] = NoEmail
         /\ thread[w] \in Homes(MailOf(w))
         /\ conv'[MailOf(w)] = thread[w]
         /\ \A d \in Email : d # MailOf(w) => conv'[d] = conv[d] /\ request'[d] = request[d]
         /\ reopened' = reopened
         /\ request'[MailOf(w)] # request[MailOf(w)] =>
              request'[MailOf(w)] = "open" /\ OpenRequests(thread[w]) \subseteq reopened
<1>1. MailOf(w) \in Email
  BY MailIsEmail DEF CommitIngest, Filing, InHand
<1>2. conv[MailOf(w)] = NoEmail /\ thread[w] \in Homes(MailOf(w))
  BY DEF CommitIngest, Filing, ReadsStand
<1>3. /\ conv'[MailOf(w)] = thread[w] /\ reopened' = reopened
      /\ \A d \in Email : d # MailOf(w) => conv'[d] = conv[d] /\ request'[d] = request[d]
  BY <1>1 DEF CommitIngest, TypeOK
<1>4. request'[MailOf(w)] # request[MailOf(w)] =>
        request'[MailOf(w)] = "open" /\ OpenRequests(thread[w]) \subseteq reopened
  BY <1>1 DEF CommitIngest, Filing, ReadsStand, TypeOK
<1> QED
  BY <1>1, <1>2, <1>3, <1>4

LEMMA FilingCommits ==
  ASSUME InboundAssumption, TypeOK, Filing, NEW w \in Worker, CommitIngest(w)
  PROVE  Filing'
<1> DEFINE e == MailOf(w)
           c == thread[w]
<1>1. /\ e \in Email /\ conv[e] = NoEmail /\ c \in Homes(e) /\ conv'[e] = c
      /\ \A d \in Email : d # e => conv'[d] = conv[d] /\ request'[d] = request[d]
      /\ request'[e] # request[e] => request'[e] = "open" /\ OpenRequests(c) \subseteq reopened
      /\ reopened' = reopened
  BY CommitEffect
<1>2. /\ UNCHANGED <<event, cur, thread, joins>>
      /\ pc[w] = "commit" /\ pc'[w] = "ingested" /\ \A v \in Worker : v # w => pc'[v] = pc[v]
  BY DEF CommitIngest, Goto, TypeOK
<1>3. c \in Email /\ c # NoEmail /\ Sender[c] = Sender[e] /\ (c # e => conv[c] = c)
  BY <1>1 DEF Homes, InboundAssumption
<1>4. Rooted'
  <2> SUFFICES ASSUME NEW d \in Email, conv'[d] # NoEmail
               PROVE  conv'[conv'[d]] = conv'[d] /\ Sender[conv'[d]] = Sender[d]
    BY DEF Rooted
  <2>1. CASE d = e
    BY <1>1, <1>3, <2>1
  <2>2. CASE d # e
    <3>1. /\ conv[d] = conv'[d] /\ conv[d] \in Email
          /\ conv[conv[d]] = conv[d] /\ Sender[conv[d]] = Sender[d]
      BY <1>1, <2>2 DEF Filing, Rooted, TypeOK
    <3> QED
      BY <1>1, <3>1
  <2> QED
    BY <2>1, <2>2
<1>5. RequestsAreFiled'
  BY <1>1, <1>3 DEF Filing, RequestsAreFiled, TypeOK
<1>6. NoSecondRequest'
  <2>1. ASSUME NEW d \in Email \ reopened, d # e, request'[d] = "open", request'[e] = "open", conv'[d] = conv'[e]
        PROVE  FALSE
    <3>1. request[e] # "open"
      BY <1>1 DEF Filing, RequestsAreFiled
    <3>2. d \in OpenRequests(c)
      BY <1>1, <2>1 DEF OpenRequests
    <3> QED
      BY <1>1, <2>1, <3>1, <3>2
  <2> QED
    BY <1>1, <2>1 DEF Filing, NoSecondRequest
<1>7. \A v \in Worker : v # w /\ pc[v] = "commit" => Sender[MailOf(v)] # Sender[e]
  BY <1>2 DEF Filing, OneWriter
<1>8. ReadsStand'
  <2> SUFFICES ASSUME NEW v \in Worker, v # w, pc[v] = "commit"
               PROVE  /\ conv'[MailOf(v)] = NoEmail
                      /\ thread[v] \in Homes(MailOf(v))'
                      /\ joins[v] = NoEmail => OpenRequests(thread[v])' \subseteq reopened
    BY <1>1, <1>2 DEF ReadsStand, MailOf
  <2>1. /\ MailOf(v) \in Email /\ MailOf(v) # e
        /\ conv[MailOf(v)] = NoEmail /\ thread[v] \in Homes(MailOf(v))
        /\ joins[v] = NoEmail => OpenRequests(thread[v]) \subseteq reopened
    BY <1>7, MailIsEmail DEF Filing, ReadsStand, InHand
  <2>2. Sender[thread[v]] = Sender[MailOf(v)] /\ thread[v] # c
    BY <1>3, <1>7, <2>1 DEF Homes
  <2>3. thread[v] \in Homes(MailOf(v))'
    BY <1>1, <1>2, <2>1 DEF Homes, MailOf
  <2>4. ASSUME joins[v] = NoEmail, NEW d \in Email \ reopened, conv'[d] = thread[v], request'[d] = "open"
        PROVE  FALSE
    <3>1. d # e
      BY <1>1, <2>2, <2>4
    <3>2. d \in OpenRequests(thread[v])
      BY <1>1, <2>4, <3>1 DEF OpenRequests
    <3> QED
      BY <2>1, <2>4, <3>2
  <2> QED
    BY <1>1, <1>2, <2>1, <2>3, <2>4 DEF OpenRequests
<1>9. InHand' /\ OneWriter'
  BY <1>2 DEF Filing, InHand, OneWriter, MailOf
<1>10. IngestedIsStored'
  <2>1. \A v \in Worker : pc[v] # "idle" => MailOf(v) \in Email
    BY MailIsEmail DEF Filing, InHand
  <2> QED
    BY <1>1, <1>2, <1>3, <2>1 DEF Filing, IngestedIsStored, MailOf
<1>11. ProcessedIsStored'
  BY <1>1, <1>2, <1>3 DEF Filing, ProcessedIsStored, Key
<1> QED
  BY <1>4, <1>5, <1>6, <1>8, <1>9, <1>10, <1>11 DEF Filing

-----------------------------------------------------------------------------
(* The theorems. *)

LEMMA IInvNext == InboundAssumption /\ IInv /\ [Next]_vars => IInv'
<1> SUFFICES ASSUME InboundAssumption, IInv, [Next]_vars PROVE IInv'
  OBVIOUS
<1> USE DEF IInv
<1>1. InHand
  BY DEF Filing
<1>2. CASE UNCHANGED vars
  BY <1>2, FilingOutside DEF vars, TypeOK
<1>3. ASSUME NEW e \in Email,
             WebhookDelivers(e) \/ SweepWrites(e) \/ RequestCloses(e) \/ RequestReopens(e)
      PROVE  IInv'
  BY <1>3, TypeOutside, FilingOutside, FilingCloses, FilingReopens
<1>4. CASE SweepReads \/ SweepQueues \/ SweepStops
  BY <1>4, TypeOutside, FilingOutside
<1>5. ASSUME NEW k \in Key, ReplayDead(k) \/ AlertStaffUnreadEmail(k) \/ AlertGoesUnsent(k)
      PROVE  IInv'
  BY <1>5, TypeOutside, FilingOutside
<1>6. ASSUME NEW w \in Worker, NEW k \in Key, TakeJob(w, k) \/ TakeOver(w, k) PROVE IInv'
  BY <1>6, TypeLease, FilingLease
<1>7. ASSUME NEW w \in Worker, Step(w) \/ StepFails(w) \/ Crash(w) PROVE IInv'
  <2>1. CASE \/ MarkDispatched(w) \/ MarkFailed(w) \/ HandOffFailedWork(w)
             \/ StepFails(w) \/ Crash(w)
    BY <1>1, <2>1, TypeEnds, FilingEnds
  <2>2. CASE \/ Retrieve(w) \/ CheckDuplicate(w) \/ LockContact(w) \/ CommitIngest(w)
             \/ MarkProcessed(w)
    BY <1>1, <2>2, TypeIngest, FilingRetrieve, FilingCheck, FilingLocks, FilingCommits,
       FilingProcessed
  <2> QED
    BY <1>7, <2>1, <2>2 DEF Step
<1> QED
  BY <1>2, <1>3, <1>4, <1>5, <1>6, <1>7 DEF Next

\* The types, the lock on the sender's contact row, and what is read behind it, hold in every
\* reachable state (ingestInbound, ingestFromProvider).
THEOREM InboundInvariant == Spec => []IInv
<1>1. Init => IInv
  BY InboundAssumption, TypeInit, FilingInit DEF IInv
<1>2. IInv /\ [Next]_vars => IInv'
  BY InboundAssumption, IInvNext
<1> QED
  BY <1>1, <1>2, PTL DEF Spec

\* The types, and that mail whose event is done is stored in a conversation.
THEOREM MailIsFiled == Spec => []MailInv
<1>1. IInv => MailInv
  BY DEF IInv, Filing, MailInv
<1> QED
  BY <1>1, InboundInvariant, PTL

\* No conversation has two open requests, however two of its emails are ingested side by side,
\* unless one of them was closed and is set open again.
THEOREM OneRequestAtATime == Spec => []OneOpenRequest
<1>1. IInv => OneOpenRequest
  <2> SUFFICES ASSUME IInv, NEW e \in Email
               PROVE  Cardinality(OpenRequests(e) \ reopened) <= 1
    BY DEF OneOpenRequest
  <2>1. CASE OpenRequests(e) \ reopened = {}
    <3>1. Cardinality({}) = 0
      BY FS_EmptySet
    <3> QED
      BY <2>1, <3>1
  <2>2. CASE OpenRequests(e) \ reopened # {}
    <3>1. PICK d \in Email : OpenRequests(e) \ reopened = {d}
      BY <2>2 DEF IInv, Filing, NoSecondRequest, OpenRequests
    <3>2. Cardinality({d}) = 1
      BY FS_Singleton
    <3> QED
      BY <3>1, <3>2
  <2> QED
    BY <2>1, <2>2
<1> QED
  BY <1>1, InboundInvariant, PTL

-----------------------------------------------------------------------------
(* The mailbox the intake implements. *)

LEMMA MailboxInit == Init => Mail!Init
  BY DEF Init, Mail!Init

LEMMA MailboxFiles ==
  ASSUME InboundAssumption, IInv, NEW w \in Worker, CommitIngest(w)
  PROVE  Mail!Next
<1> DEFINE e == MailOf(w)
<1>1. e \in Email /\ conv[e] = NoEmail /\ thread[w] \in Homes(e)
  BY CommitEffect DEF IInv
<1>2. conv' = [conv EXCEPT ![e] = thread[w]]
  BY DEF CommitIngest
<1>3. interpret' = interpret \cup ({e} \cap (Email \ (AutoMail \cup ForeignMail)))
  BY <1>1 DEF CommitIngest, Answerable
<1> QED
  BY <1>1, <1>2, <1>3 DEF Mail!Next, Mail!File, Homes

LEMMA MailboxStep == InboundAssumption /\ IInv /\ [Next]_vars => [Mail!Next]_Mail!vars
<1> SUFFICES ASSUME InboundAssumption, IInv, [Next]_vars,
                    ~(\E w \in Worker : CommitIngest(w))
             PROVE  UNCHANGED Mail!vars
  BY MailboxFiles
<1>1. UNCHANGED <<conv, interpret>>
  <2>1. CASE UNCHANGED vars
    BY <2>1 DEF vars
  <2>2. ASSUME NEW e \in Email,
               WebhookDelivers(e) \/ SweepWrites(e) \/ RequestCloses(e) \/ RequestReopens(e)
        PROVE  UNCHANGED <<conv, interpret>>
    BY <2>2 DEF WebhookDelivers, SweepWrites, RequestCloses, RequestReopens
  <2>3. CASE SweepReads \/ SweepQueues \/ SweepStops
    BY <2>3 DEF SweepReads, SweepQueues, SweepStops
  <2>4. ASSUME NEW k \in Key, ReplayDead(k) \/ AlertStaffUnreadEmail(k) \/ AlertGoesUnsent(k)
        PROVE  UNCHANGED <<conv, interpret>>
    BY <2>4 DEF ReplayDead, AlertStaffUnreadEmail, AlertGoesUnsent
  <2>5. ASSUME NEW w \in Worker, NEW k \in Key, TakeJob(w, k) \/ TakeOver(w, k)
        PROVE  UNCHANGED <<conv, interpret>>
    BY <2>5 DEF TakeJob, TakeOver, LeaseJob
  <2>6. ASSUME NEW w \in Worker, Step(w) \/ StepFails(w) \/ Crash(w)
        PROVE  UNCHANGED <<conv, interpret>>
    BY <2>6 DEF Step, StepFails, Crash, Retrieve, CheckDuplicate, LockContact, MarkProcessed,
                MarkDispatched, MarkFailed, HandOffFailedWork
  <2> QED
    BY <2>1, <2>2, <2>3, <2>4, <2>5, <2>6 DEF Next
<1> QED
  BY <1>1 DEF Mail!vars

\* Every behaviour of the intake is one of the mailbox's: an email is filed at most once, with
\* its own sender's, read exactly when a person wrote it, and never moved.
THEOREM InboundImplementsMailbox == Spec => ImplementsMailbox
<1>1. Init => Mail!Init
  BY MailboxInit
<1>2. IInv /\ [Next]_vars => [Mail!Next]_Mail!vars
  BY InboundAssumption, MailboxStep
<1> QED
  BY <1>1, <1>2, InboundInvariant, PTL DEF Spec, ImplementsMailbox, Mail!Spec
=============================================================================
