------------------------------- MODULE Inbound -------------------------------
(***************************************************************************)
(* Mail the provider received: the webhook, the reconciliation sweep, the  *)
(* dispatcher's retrieval, and ingestInbound.                              *)
(*                                                                         *)
(* An email reaches the system as an inbound event: one that the webhook   *)
(* writes, together with its outbox row, in one transaction; or one that   *)
(* the sweep writes for an email nothing accounts for, in two statements.  *)
(* Both name the same email, so both may exist.  A worker that leases the  *)
(* row retrieves the email and ingests it in one transaction.  The update  *)
(* (or insert) of the sender's contact row near its start is a lock that   *)
(* lasts until it commits.                                                 *)
(*                                                                         *)
(* The row's own rules are module Outbox's, kept as one lease per row.     *)
(* Attachments, names and the message's text have no part in what is       *)
(* checked here.                                                           *)
(***************************************************************************)
EXTENDS Integers, FiniteSets

CONSTANTS
  Email,        \* emails held by the provider
  NoEmail,
  Worker, NoWorker,
  Sender,       \* Sender[e]: the sender's address, trimmed and lowercased
  References,   \* References[e]: earlier emails named in its headers
  AutoMail,     \* emails that detectAutoResponse recognises
  ForeignMail,  \* emails to no address of the service
  Unnamed,      \* emails whose webhook carries neither text nor id
  Stored,       \* automatic replies ingested before the behaviour begins
  Page,         \* the sweep reads at most so many of the provider's emails (50 in the code)
  Budget,       \* attempts before a row is dead-lettered
  MaxFaults,    \* bound: crashes, leases lost alive, failed calls
  MaxActs       \* bound: sweeps, replays, requests closed

ASSUME InboundAssumption ==
  /\ NoEmail \notin Email /\ NoWorker \notin Worker
  /\ References \in [Email -> SUBSET Email]
  /\ DOMAIN Sender = Email
  /\ AutoMail \cup ForeignMail \cup Unnamed \subseteq Email /\ Stored \subseteq AutoMail
  /\ Page \in Nat \ {0} /\ Budget \in Nat \ {0} /\ MaxFaults \in Nat /\ MaxActs \in Nat

\* Provider event ids: the webhook's own, and the sweep's "reconcile:<email id>".
Key == {"webhook", "sweep"} \X Email
NoKey == <<"none", NoEmail>>

VARIABLES
  event,        \* inbound_events.processing_state, by key
  job, lease, tries,          \* the key's outbox row
  alert,        \* the staff.alert row of the key
  contacts,     \* addresses with a contact row
  conv,         \* the conversation of each stored message
  request,      \* the request each email created: absent, open or closed
  reopened,     \* requests that were set open again after they were closed
  interpret,    \* emails whose request.interpret row is written
  pc, cur, known,             \* workers: where, which key, was the contact known
  thread, joins,              \* ... the conversation chosen, the open request read
  todo, queueing,             \* the sweep: emails to write, the one not queued yet
  untold,                     \* events lost track of: no row, or a hand-off that failed
  faults, acts

eventVars == <<event, job, lease, tries, alert>>
mailVars == <<contacts, conv, request, reopened, interpret>>
workerVars == <<pc, cur, known, thread, joins>>
sweepVars == <<todo, queueing, untold>>
vars == <<eventVars, mailVars, workerVars, sweepVars, faults, acts>>

TypeOK ==
  /\ event \in [Key -> {"absent", "pending", "processed", "quarantined"}]
  /\ job \in [Key -> {"absent", "pending", "leased", "dispatched", "dead"}]
  /\ lease \in [Key -> Worker \cup {NoWorker}]
  /\ tries \in [Key -> 0 .. Budget]
  /\ alert \in [Key -> {"absent", "due", "sent", "skipped"}]
  /\ contacts \subseteq {Sender[e] : e \in Email}
  /\ conv \in [Email -> Email \cup {NoEmail}]
  /\ request \in [Email -> {"absent", "open", "closed"}] /\ reopened \subseteq Email
  /\ interpret \subseteq Email
  /\ pc \in [Worker -> {"idle", "retrieve", "check", "contact", "commit",
                        "ingested", "returned", "threw", "handoff"}]
  /\ cur \in [Worker -> Key \cup {NoKey}]
  /\ known \in [Worker -> BOOLEAN]
  /\ thread \in [Worker -> Email \cup {NoEmail}]
  /\ joins \in [Worker -> Email \cup {NoEmail}]
  /\ todo \subseteq Email /\ queueing \in Email \cup {NoEmail} /\ untold \subseteq Key
  /\ faults \in 0 .. MaxFaults /\ acts \in 0 .. MaxActs

\* Stored mail came by webhook, each beginning a conversation.
Init ==
  /\ event = [k \in Key |-> IF k \in {"webhook"} \X Stored THEN "processed" ELSE "absent"]
  /\ job = [k \in Key |-> IF k \in {"webhook"} \X Stored THEN "dispatched" ELSE "absent"]
  /\ lease = [k \in Key |-> NoWorker]
  /\ tries = [k \in Key |-> 0]
  /\ alert = [k \in Key |-> "absent"]
  /\ contacts = {Sender[e] : e \in Stored} /\ interpret = {}
  /\ conv = [e \in Email |-> IF e \in Stored THEN e ELSE NoEmail]
  /\ request = [e \in Email |-> "absent"] /\ reopened = {}
  /\ pc = [w \in Worker |-> "idle"]
  /\ cur = [w \in Worker |-> NoKey]
  /\ known = [w \in Worker |-> FALSE]
  /\ thread = [w \in Worker |-> NoEmail]
  /\ joins = [w \in Worker |-> NoEmail]
  /\ todo = {} /\ queueing = NoEmail /\ untold = {}
  /\ faults = 0 /\ acts = 0

Goto(w, label) == pc' = [pc EXCEPT ![w] = label]

\* The bound on what nobody has to do.
Act == acts < MaxActs /\ acts' = acts + 1
Fault == faults < MaxFaults /\ faults' = faults + 1

-----------------------------------------------------------------------------
(* The webhook and the sweep *)

\* POST: event and outbox row in one transaction, once per event id; a repeated
\* delivery changes nothing.  A request that is unsigned, too large or unreadable is
\* refused before that, as if it had never been delivered.
WebhookDelivers(e) ==
  LET k == <<"webhook", e>> IN
  /\ event[k] = "absent"
  /\ event' = [event EXCEPT ![k] = "pending"]
  /\ job' = [job EXCEPT ![k] = "pending"]
  /\ UNCHANGED <<lease, tries, alert, mailVars, workerVars, sweepVars, faults, acts>>

\* knownProviderIds: an event that carries the id, or a stored message.
KnownEmails ==
  {e \in Email : \/ event[<<"sweep", e>>] # "absent"
                 \/ event[<<"webhook", e>>] # "absent" /\ e \notin Unnamed
                 \/ conv[e] # NoEmail}

\* reconcileReceived, --apply: what is missing is read once, for a page of the list.
SweepReads ==
  /\ Act
  /\ todo = {} /\ queueing = NoEmail
  /\ \E page \in SUBSET Email :
       /\ Cardinality(page) <= Page /\ page \ KnownEmails # {}
       /\ todo' = page \ KnownEmails
  /\ UNCHANGED <<eventVars, mailVars, workerVars, queueing, untold, faults>>

\* For each of them the event, unless the event id is taken ...
SweepWrites(e) ==
  LET k == <<"sweep", e>> IN
  /\ queueing = NoEmail /\ e \in todo
  /\ todo' = todo \ {e}
  /\ IF event[k] = "absent"
       THEN event' = [event EXCEPT ![k] = "pending"] /\ queueing' = e
       ELSE UNCHANGED <<event, queueing>>
  /\ UNCHANGED <<job, lease, tries, alert, mailVars, workerVars, untold, faults, acts>>

\* ... and then its row, once per key.
SweepQueues ==
  LET k == <<"sweep", queueing>> IN
  /\ queueing # NoEmail
  /\ job' = [job EXCEPT ![k] = IF @ = "absent" THEN "pending" ELSE @]
  /\ queueing' = NoEmail
  /\ UNCHANGED <<event, lease, tries, alert, mailVars, workerVars, todo, untold, faults, acts>>

\* The script dies, or one of its statements fails: the rest is not done, and an event
\* without its row is one no later sweep looks at.
SweepStops ==
  /\ Fault
  /\ todo # {} \/ queueing # NoEmail
  /\ untold' = untold \cup ({<<"sweep", queueing>>} \cap Key)
  /\ todo' = {} /\ queueing' = NoEmail
  /\ UNCHANGED <<eventVars, mailVars, workerVars, acts>>

-----------------------------------------------------------------------------
(* The outbox, as in module Outbox with one row per lease *)

LiveHolder(k) == \E v \in Worker : pc[v] # "idle" /\ cur[v] = k /\ lease[k] = v

LeaseJob(w, k) ==
  /\ pc[w] = "idle"
  /\ job[k] \in {"pending", "leased"}
  /\ job' = [job EXCEPT ![k] = "leased"]
  /\ lease' = [lease EXCEPT ![k] = w]
  /\ tries' = [tries EXCEPT ![k] = IF @ < Budget THEN @ + 1 ELSE @]
  /\ Goto(w, "retrieve")
  /\ cur' = [cur EXCEPT ![w] = k]
  /\ UNCHANGED <<event, alert, mailVars, known, thread, joins, sweepVars, acts>>

\* leaseDueOutbox: a due row, or one whose holder is dead ...
TakeJob(w, k) == ~LiveHolder(k) /\ LeaseJob(w, k) /\ UNCHANGED faults

\* ... or only slow.
TakeOver(w, k) == LiveHolder(k) /\ Fault /\ LeaseJob(w, k)

ReplayDead(k) ==
  /\ Act
  /\ job[k] = "dead"
  /\ job' = [job EXCEPT ![k] = "pending"]
  /\ tries' = [tries EXCEPT ![k] = 0]
  /\ UNCHANGED <<event, lease, alert, mailVars, workerVars, sweepVars, faults>>

\* The worker is at label with nothing in its hands.
LetGo(w, label) ==
  /\ Goto(w, label)
  /\ cur' = [cur EXCEPT ![w] = IF label = "idle" THEN NoKey ELSE @]
  /\ known' = [known EXCEPT ![w] = FALSE]
  /\ thread' = [thread EXCEPT ![w] = NoEmail]
  /\ joins' = [joins EXCEPT ![w] = NoEmail]

EndJob(w, to) ==
  IF lease[cur[w]] = w
    THEN /\ job' = [job EXCEPT ![cur[w]] = to]
         /\ lease' = [lease EXCEPT ![cur[w]] = NoWorker]
    ELSE UNCHANGED <<job, lease>>

MarkDispatched(w) ==
  /\ pc[w] = "returned"
  /\ EndJob(w, "dispatched")
  /\ LetGo(w, "idle")
  /\ UNCHANGED <<event, tries, alert, mailVars, sweepVars, faults, acts>>

MarkFailed(w) ==
  /\ pc[w] = "threw"
  /\ LET dead == tries[cur[w]] >= Budget IN
       EndJob(w, IF dead THEN "dead" ELSE "pending") /\ LetGo(w, IF dead THEN "handoff" ELSE "idle")
  /\ UNCHANGED <<event, tries, alert, mailVars, sweepVars, faults, acts>>

\* Faulty variant of HandOffFailedWork: unread email is no customer work.
FaultyHandOff(w) ==
  /\ pc[w] = "handoff"
  /\ LetGo(w, "idle")
  /\ UNCHANGED <<eventVars, mailVars, sweepVars, faults, acts>>

\* handOffFailedWork, for email.received: staff are alerted, once per event.
HandOffFailedWork(w) ==
  /\ pc[w] = "handoff"
  /\ LET k == cur[w] IN
       alert' = [alert EXCEPT ![k] = IF @ = "absent" /\ event[k] = "pending" THEN "due" ELSE @]
  /\ LetGo(w, "idle")
  /\ UNCHANGED <<event, job, lease, tries, mailVars, sweepVars, faults, acts>>

\* alertStaffUnreadEmail, by that row: nothing when the email was read meanwhile, and
\* nothing without addresses, while sending is off, or once that row is dead itself.
AlertStaffUnreadEmail(k) ==
  /\ alert[k] = "due"
  /\ alert' = [alert EXCEPT ![k] = IF event[k] = "pending" THEN "sent" ELSE "skipped"]
  /\ UNCHANGED <<event, job, lease, tries, mailVars, workerVars, sweepVars, faults, acts>>

AlertGoesUnsent(k) ==
  /\ alert[k] = "due"
  /\ alert' = [alert EXCEPT ![k] = "skipped"]
  /\ UNCHANGED <<event, job, lease, tries, mailVars, workerVars, sweepVars, faults, acts>>

\* A statement or a call to the provider fails; what is open rolls back.
StepFails(w) ==
  /\ Fault
  /\ pc[w] \in {"retrieve", "check", "contact", "commit", "ingested"}
  /\ LetGo(w, "threw")
  /\ UNCHANGED <<eventVars, mailVars, sweepVars, acts>>

\* The process dies; a hand-off that fails is only logged, which is the same.
Crash(w) ==
  /\ Fault
  /\ pc[w] # "idle"
  /\ untold' = IF pc[w] = "handoff" THEN untold \cup {cur[w]} ELSE untold
  /\ LetGo(w, "idle")
  /\ UNCHANGED <<eventVars, mailVars, todo, queueing, acts>>

-----------------------------------------------------------------------------
(* ingestFromProvider and ingestInbound *)

MailOf(w) == cur[w][2]

\* Faulty variant of Retrieve: an event is done before its email is stored.
FaultyRetrieve(w) ==
  /\ pc[w] = "retrieve"
  /\ event' = [event EXCEPT ![cur[w]] = "processed"]
  /\ Goto(w, IF event[cur[w]] = "pending" THEN "check" ELSE "returned")
  /\ UNCHANGED <<job, lease, tries, alert, mailVars, cur, known, thread, joins, sweepVars,
                 faults, acts>>

\* An event that is no longer pending is done; one that names no email is set aside.
\* Otherwise the email's text is in the event, or fetched.
Retrieve(w) ==
  /\ pc[w] = "retrieve"
  /\ LET k == cur[w]
         lost == k[1] = "webhook" /\ k[2] \in Unnamed
     IN IF event[k] = "pending"
          THEN /\ event' = [event EXCEPT ![k] = IF lost THEN "quarantined" ELSE @]
               /\ Goto(w, IF lost THEN "returned" ELSE "check")
          ELSE UNCHANGED event /\ Goto(w, "returned")
  /\ UNCHANGED <<job, lease, tries, alert, mailVars, cur, known, thread, joins, sweepVars,
                 faults, acts>>

\* The transaction begins: a message stored under this provider id, the contact.
CheckDuplicate(w) ==
  /\ pc[w] = "check"
  /\ Goto(w, IF conv[MailOf(w)] # NoEmail THEN "ingested" ELSE "contact")
  /\ known' = [known EXCEPT ![w] = Sender[MailOf(w)] \in contacts]
  /\ UNCHANGED <<eventVars, mailVars, cur, thread, joins, sweepVars, faults, acts>>

\* Faulty variant of Locked: the contact is only read.
FaultyLocked(a) == FALSE

\* Whether the contact's row is locked by a transaction that goes on.
Locked(a) == \E v \in Worker : pc[v] = "commit" /\ Sender[MailOf(v)] = a

\* Faulty variant of Threads: any known Message-ID is followed.
FaultyThreads(e) == {conv[d] : d \in {x \in References[e] : conv[x] # NoEmail}}

\* resolveThread: a referenced message counts only when its contact is the sender.
Threads(e) == {conv[d] : d \in {x \in References[e] : conv[x] # NoEmail /\ Sender[x] = Sender[e]}}

\* The conversation's open requests; a new conversation's first request names it.
OpenRequests(c) == {d \in Email : conv[d] = c /\ request[d] = "open"}

\* The contact's row is written, behind whoever holds it; one that another
\* transaction inserted meanwhile is a unique violation, and so is the message.
\* Then the thread, and an open request of it (the newest, in the code), are read.
LockContact(w) ==
  /\ pc[w] = "contact" /\ ~Locked(Sender[MailOf(w)])
  /\ LET e == MailOf(w) IN
       IF (~known[w] /\ Sender[e] \in contacts) \/ conv[e] # NoEmail
         THEN LetGo(w, "threw")
         ELSE /\ \E c \in IF Threads(e) = {} THEN {e} ELSE Threads(e) :
                   /\ thread' = [thread EXCEPT ![w] = c]
                   /\ \E r \in IF OpenRequests(c) = {} THEN {NoEmail} ELSE OpenRequests(c) :
                        joins' = [joins EXCEPT ![w] = r]
              /\ Goto(w, "commit")
              /\ UNCHANGED <<cur, known>>
  /\ UNCHANGED <<eventVars, mailVars, sweepVars, faults, acts>>

\* An automatic reply, or mail to another address, is stored and not answered.
Answerable(e) == e \notin AutoMail /\ e \notin ForeignMail

\* Message, request and request.interpret are written and committed together.
CommitIngest(w) ==
  /\ pc[w] = "commit"
  /\ LET e == MailOf(w) IN
       /\ contacts' = contacts \cup {Sender[e]}
       /\ conv' = [conv EXCEPT ![e] = thread[w]]
       /\ IF Answerable(e)
            THEN /\ request' = IF joins[w] = NoEmail THEN [request EXCEPT ![e] = "open"] ELSE request
                 /\ interpret' = interpret \cup {e}
            ELSE UNCHANGED <<request, interpret>>
  /\ Goto(w, "ingested")
  /\ UNCHANGED <<eventVars, reopened, cur, known, thread, joins, sweepVars, faults, acts>>

\* Also for a duplicate: the event is done.
MarkProcessed(w) ==
  /\ pc[w] = "ingested"
  /\ event' = [event EXCEPT ![cur[w]] = "processed"]
  /\ Goto(w, "returned")
  /\ UNCHANGED <<job, lease, tries, alert, mailVars, cur, known, thread, joins, sweepVars,
                 faults, acts>>

\* What interprets a request's mail, and staff, set its state whatever it is and without
\* the contact's lock (transition): closed ...
RequestCloses(e) ==
  /\ Act
  /\ request[e] = "open"
  /\ request' = [request EXCEPT ![e] = "closed"]
  /\ UNCHANGED <<eventVars, contacts, conv, reopened, interpret, workerVars, sweepVars, faults>>

\* ... or, by a row or an answer that comes late, open again.
RequestReopens(e) ==
  /\ Act
  /\ request[e] = "closed"
  /\ request' = [request EXCEPT ![e] = "open"]
  /\ reopened' = reopened \cup {e}
  /\ UNCHANGED <<eventVars, contacts, conv, interpret, workerVars, sweepVars, faults>>

-----------------------------------------------------------------------------
Step(w) ==
  \/ Retrieve(w) \/ CheckDuplicate(w) \/ LockContact(w) \/ CommitIngest(w) \/ MarkProcessed(w)
  \/ MarkDispatched(w) \/ MarkFailed(w) \/ HandOffFailedWork(w)

Next ==
  \/ \E e \in Email : WebhookDelivers(e) \/ SweepWrites(e) \/ RequestCloses(e) \/ RequestReopens(e)
  \/ SweepReads \/ SweepQueues \/ SweepStops
  \/ \E k \in Key : ReplayDead(k) \/ AlertStaffUnreadEmail(k) \/ AlertGoesUnsent(k)
  \/ \E w \in Worker, k \in Key : TakeJob(w, k) \/ TakeOver(w, k)
  \/ \E w \in Worker : Step(w) \/ StepFails(w) \/ Crash(w)

Spec == Init /\ [][Next]_vars

\* The per-minute dispatcher takes due rows and a handler goes on until it ends or
\* its process dies; the sweep's script queues what it wrote.  Nothing obliges the
\* provider or staff, nor anyone to run the sweep.
Fairness ==
  /\ \A w \in Worker : WF_vars(Step(w))
  /\ WF_vars(\E w \in Worker, k \in Key : TakeJob(w, k))
  /\ WF_vars(\E k \in Key : AlertStaffUnreadEmail(k))
  /\ WF_vars(SweepQueues)

FairSpec == Spec /\ Fairness

-----------------------------------------------------------------------------
(* What the intake of mail promises *)

\* Two emails of one conversation, ingested side by side or again after a crash, never
\* give it two requests at a time: the second waits for the contact's row and reads
\* what the first committed.  A closed request that is set open again asks nobody, and
\* may stand beside a newer one: it is not counted.  (ingestInbound.)
OneOpenRequest == \A e \in Email : Cardinality(OpenRequests(e) \ reopened) <= 1

\* An event is done only once its email is stored, by whichever of its two events,
\* and an email set aside unread has nothing of it stored through the webhook.
\* (ingestFromProvider.)
ProcessedIsStored ==
  \A k \in Key : event[k] = "processed" => conv[k[2]] # NoEmail

\* The types, and mail that is done with being in its conversation.
MailInv == TypeOK /\ ProcessedIsStored

\* Whatever is delivered, swept, repeated or cut short: an email is filed once, with
\* its own sender's, and read exactly when a person wrote it to the service.
Mail == INSTANCE Mailbox WITH Readable <- Email \ (AutoMail \cup ForeignMail), Filed <- Stored
ImplementsMailbox == Mail!Spec

\* Whatever has come in, the time comes when each event is read, set aside, or has had
\* staff alerted to its email (or the alert not to be sent) - whatever fails, dies or is
\* replayed on the way, but for a hand-off that itself fails and an event the sweep left
\* without a row: those tell no one.  (ingestFromProvider, handOffFailedWork.)
DeliveredIsReadOrRaised ==
  []<>(\A k \in Key : event[k] = "pending" => alert[k] \in {"sent", "skipped"} \/ k \in untold)
=============================================================================
