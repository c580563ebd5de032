----------------------------- MODULE Conversation -----------------------------
(***************************************************************************)
(* The replies of interpret: what a customer hears about each message of   *)
(* one request.                                                            *)
(*                                                                         *)
(* interpret is one long cascade.  A message over the limits, about a      *)
(* pending deletion, or unreadable is dealt with first; after that the     *)
(* first of some thirty routes that fits answers it.  A route may write a  *)
(* version, move the request and queue mail under a key of its own; in     *)
(* what order, and under which key, differs from route to route and        *)
(* decides what a second attempt does after a crash.  Which route fits is  *)
(* a choice here, but for the words that are read the same every time.     *)
(*                                                                         *)
(* One worker: what two interpretations do to each other's revisions, and  *)
(* what a new revision withdraws, is module Requests'.                     *)
(***************************************************************************)
EXTENDS Naturals, FiniteSets

CONSTANTS
  Message, NoMessage,
  Word,         \* bound: what messages say, a subset of Words
  Fit,          \* bound: the families of mail whose routes are tried; one of each shape will do
  Free,         \* stops a day that the inbound limits let through (3 in the code)
  Budget,       \* attempts before a row is dead-lettered
  MaxFaults,    \* bound: crashes and failed model calls
  MaxActs       \* bound: messages after the first, replies by staff, days

\* What classifyOptOutText, asksToCancelWatch, CONFIRM and the deletion words read;
\* "plain" is all else.
Words == {"plain", "stop", "cancel", "delete", "confirm"}

ASSUME ConversationAssumption ==
  /\ NoMessage \notin Message /\ Message \cap Nat = {}  \* ids are no revision numbers
  /\ Word \subseteq Words /\ Word # {}
  /\ Free \in Nat /\ Budget \in Nat \ {0} /\ MaxFaults \in Nat /\ MaxActs \in Nat

-----------------------------------------------------------------------------
(* The routes *)

\* when: on a request without a version ("first"), with one ("later"), or both.
\* row: it writes a version.  fam, per: its mail's dedupe key, one for each message,
\* revision or request, or no mail.  to: the state it moves to; "" moves nothing.
\* mailFirst: the mail comes before the transition.
Route(when, row, fam, per, to, mailFirst) ==
  [when |-> when, row |-> row, fam |-> fam, per |-> per, to |-> to, mailFirst |-> mailFirst]

Either == {"first", "later"}

\* A version, mail, then the state; or the state, then mail; keyed to the message.
Answers(when, fam, to) == Route(when, TRUE, fam, "message", to, TRUE)
Settles(when, fam, per, to) == Route(when, TRUE, fam, per, to, FALSE)

\* A question beside tickets: the request it interrupts keeps its brief and state.
Beside(fam) ==
  {Answers({"first"}, fam, "closed"), Route({"later"}, FALSE, fam, "message", "", TRUE)}

OffTopic == {Route({"first"}, FALSE, "off_topic", "request", "closed", TRUE)}
OptOut == {Route(Either, FALSE, "opt_out", "message", "closed", TRUE)}
DeleteData == {Route(Either, FALSE, "verification", "revision", "manual_attention", TRUE)}
CancelWatch == {Answers(Either, "cancel", "closed")}
EntryHelp == {Answers(Either, "entry_help", "closed")}
Capability == Beside("capability")
OutsideTickets == Beside("outside")
ServiceCost == Beside("service_cost")
OutcomeReply == {Route({"later"}, FALSE, "outcome_ack", "message", "closed", TRUE)}
GamesCompared == {Route({"later"}, FALSE, "games_compared", "message", "", TRUE)}
SideQuestion == {Route({"later"}, FALSE, "aside", "message", "", TRUE)}
NonUsResident == {Settles(Either, "default", "revision", "unsupported")}
OutsideProduct == {Answers({"first"}, "outside_product", "closed")}
EvidenceFacts == {Answers(Either, "evidence", "recommendation_sent")}
QuantityConflict == {Settles(Either, "quantity_conflict", "message", "needs_clarification")}
SuppliedOffers == {Settles(Either, "offers", "message", "recommendation_sent")}
Decision == {Answers(Either, "decision", "recommendation_sent")}
SuppliedEvidence == {Answers(Either, "evidence", "recommendation_sent")}
ConcertQuestion == {Answers(Either, "concert", "recommendation_sent")}
GuideFood == {Answers({"first"}, "guide_food", "referred")}
BudgetGames == {Settles({"later"}, "budget_games", "revision", "needs_clarification")}
Browse ==
  {Settles(Either, "default", "revision", to) : to \in {"unsupported", "needs_clarification"}}
Abroad == {Settles(Either, "default", "revision", "unsupported")}
CompareGames == {Settles(Either, "games_ranked", "revision", "needs_clarification")}
NonUsEvent == {Settles(Either, "default", "revision", "unsupported")}
WebEvent == {Route(Either, TRUE, "web", "revision", "referred", TRUE)}
EventAlertSet == {Settles(Either, "event_alert_set", "revision", "monitoring")}
EvidenceUnmatched == {Answers(Either, "evidence", "recommendation_sent")}
LateEntry == {Route(Either, TRUE, "entry", "revision", "referred", TRUE)}
GuideOfficial == {Route(Either, TRUE, "guide", "revision", "referred", TRUE)}

Clarify == {Settles(Either, "default", "revision", "needs_clarification")}
ProductChoice == {Route(Either, TRUE, "product", "revision", "recommendation_sent", TRUE)}

\* Faulty variant of OfficialSale: one reply for the request, whatever its revision.
FaultyOfficialSale == {Settles(Either, "official_sale", "request", "referred")}

OfficialSale == {Settles(Either, "official_sale", "revision", "referred")}

\* An acknowledgment goes before the research job, or the answer follows by itself.
Research == {Settles(Either, "default", per, "researching") : per \in {"revision", "none"}}

\* More than three questions in a row: the version is kept, a person takes it.
ClarifyLimit == {Settles({"later"}, "limit", "none", "")}

PlainRoutes ==
  UNION {OffTopic, EntryHelp, Capability, OutsideTickets, ServiceCost, OutcomeReply,
         GamesCompared, SideQuestion, NonUsResident, OutsideProduct, EvidenceFacts,
         QuantityConflict, SuppliedOffers, Decision, SuppliedEvidence, ConcertQuestion,
         GuideFood, BudgetGames, Browse, Abroad, CompareGames, NonUsEvent, WebEvent,
         EventAlertSet, EvidenceUnmatched, LateEntry, GuideOfficial, Clarify,
         ProductChoice, OfficialSale, Research, ClarifyLimit}

\* The status of a deletion that was asked for (pendingDeletionReply).
DeletionStatus == Route(Either, FALSE, "deletion", "message", "", TRUE)
NoRoute == Route({}, FALSE, "", "none", "", FALSE)

\* Their words decide, whatever the extractor reads.
RoutesFor(word) ==
  CASE word = "stop" -> OptOut [] word = "delete" -> DeleteData
    [] word = "cancel" -> CancelWatch [] OTHER -> {r \in PlainRoutes : r.fam \in Fit}

AllRoutes == PlainRoutes \cup OptOut \cup DeleteData \cup CancelWatch \cup {DeletionStatus, NoRoute}

-----------------------------------------------------------------------------
VARIABLES
  says,       \* what each message says
  row, tries, \* the outbox row of each message's interpretation
  late,       \* messages that came in after the first hand-off reply was written
  state,      \* requests.state
  reason,     \* why it last went to manual_attention: a held reply, or another reason
  rev, versions,  \* requests.current_revision; revisions with a request_versions row
  mail,       \* send intents: by dedupe key, the message whose work wrote it
  draft,      \* held replies: by the message they answer, "made" or "blocked"
  alert,      \* staff.alert rows: by key, the message whose work wrote it
  research,   \* research.requested rows: by revision, likewise
  suppressed, ledger, \* suppressions of the address; deletion_ledger
  told, skips,        \* audit of the last 24 hours: limit told, limit skipped for a stop
  refused, acked,     \* ... and off-topic replied; follow-ups acknowledged today
  pc, cur, prior, at, route, cause, then, \* the worker: where, its message, what it read, ...
  hush,       \* history: messages the code leaves unanswered on purpose
  waits,      \* history: the message whose reply was held and waits for a person
  faults, acts

inVars == <<says, row, tries, late>>
requestVars == <<state, reason, rev, versions>>
outVars == <<mail, draft, alert, research>>
contactVars == <<suppressed, ledger, told, skips, refused, acked>>
workVars == <<pc, cur, prior, at, route, cause, then>>
pastVars == <<hush, waits, faults, acts>>
vars == <<inVars, requestVars, outVars, contactVars, workVars, pastVars>>

OpenState ==
  {"received", "needs_clarification", "researching", "recommendation_sent", "monitoring",
   "manual_attention", "referred"}
State == OpenState \cup {"closed", "unsupported"}

\* A dedupe key: its family and what it is one for.
Family == {r.fam : r \in AllRoutes} \cup {"holding", "staff_alert", "limited"}
IsKey(k) == k[1] \in Family /\ (k[2] \in Message \/ k[2] \in Nat)

TypeOK ==
  /\ says \in [Message -> Words] /\ late \subseteq Message
  /\ row \in [Message -> {"absent", "pending", "done", "dead"}]
  /\ tries \in [Message -> 0 .. Budget]
  /\ state \in State /\ reason \in {"none", "reply", "other"}
  /\ rev \in Nat \ {0} /\ versions \subseteq 1 .. rev + 1
  /\ \A k \in DOMAIN mail \cup DOMAIN alert : IsKey(k)
  /\ mail \in [DOMAIN mail -> Message] /\ alert \in [DOMAIN alert -> Message]
  /\ draft \in [DOMAIN draft -> {"made", "blocked"}] /\ DOMAIN draft \subseteq Message
  /\ research \in [DOMAIN research -> Message] /\ DOMAIN research \subseteq versions
  /\ suppressed \in BOOLEAN /\ ledger \in {"none", "pending", "verified"}
  /\ told \in BOOLEAN /\ skips \in 0 .. Free /\ refused \in BOOLEAN /\ acked \in BOOLEAN
  /\ pc \in {"idle", "limit", "limited", "limitMail", "limitAlert", "read", "choose", "effect",
             "stopAll", "deletionPark", "deletionAlert", "row", "revise", "settle", "send", "note",
             "block", "park", "parkMail", "parkAlert", "order", "returned", "threw", "handoff"}
  /\ cur \in Message \cup {NoMessage} /\ prior \in BOOLEAN /\ at \in Nat
  /\ route \in AllRoutes /\ cause \in {"reply", "other"}
  /\ then \in {"settle", "order", "note", "returned", "idle"}
  /\ hush \subseteq Message /\ waits \in Message \cup {NoMessage}
  /\ faults \in 0 .. MaxFaults /\ acts \in 0 .. MaxActs

Empty == [x \in {} |-> NoMessage]
Put(f, k, v) == [x \in DOMAIN f \cup {k} |-> IF x \in DOMAIN f THEN f[x] ELSE v]

\* A new request, and the row of the message that made it.
NewRequest == state = "received" /\ reason = "none" /\ rev = 1 /\ versions = {}
FirstMessage ==
  /\ says \in [Message -> Word]
  /\ \E m \in Message : row = [x \in Message |-> IF x = m THEN "pending" ELSE "absent"]
  /\ tries = [m \in Message |-> 0] /\ late = {}

Init ==
  /\ FirstMessage /\ NewRequest
  /\ mail = Empty /\ draft = Empty /\ alert = Empty /\ research = Empty
  /\ suppressed = FALSE /\ ledger = "none"
  /\ told = FALSE /\ skips = 0 /\ refused = FALSE /\ acked = FALSE
  /\ pc = "idle" /\ cur = NoMessage /\ prior = FALSE /\ at = 0
  /\ route = NoRoute /\ cause = "other" /\ then = "idle"
  /\ hush = {} /\ waits = NoMessage /\ faults = 0 /\ acts = 0

Act == acts < MaxActs /\ acts' = acts + 1
Fault == faults < MaxFaults /\ faults' = faults + 1

\* The worker has nothing in its hands any more and goes to label.
LetGo(label) ==
  /\ pc' = label
  /\ cur' = NoMessage /\ prior' = FALSE /\ at' = 0
  /\ route' = NoRoute /\ cause' = "other" /\ then' = "idle"

\* One statement, or the reads up to the next.
Goto(label) == pc' = label /\ UNCHANGED <<cur, prior, at, route, cause, then>>

-----------------------------------------------------------------------------
(* transition, queueSend, parkForStaff *)

AfterSend == {"recommendation_sent", "referred", "closed"}

\* Faulty variant of Transition: what was sent counts, even when it was held.
FaultyTransition(to) ==
  /\ state' = to
  /\ reason' = IF to = "manual_attention" THEN "other" ELSE reason

\* What would follow a reply is left undone when the reply is held for a person.
Transition(to) ==
  IF state = "manual_attention" /\ reason = "reply" /\ to \in AfterSend
    THEN UNCHANGED <<state, reason>>
    ELSE state' = to /\ reason' = IF to = "manual_attention" THEN "other" ELSE reason

\* The dedupe key of the route's mail.
KeyOf(m) ==
  <<route.fam, CASE route.per = "message" -> m [] route.per = "revision" -> at [] OTHER -> 0>>

\* Once per key.
Queue(k, m) == mail' = Put(mail, k, m)
Raise(k, m) == alert' = Put(alert, k, m)

FirstHolding == <<"holding", 0>>
Holding(m) == <<"holding", m>>
IsFollowUp(m) == FirstHolding \in DOMAIN mail /\ m \in late

Park(why, next) ==
  /\ pc' = "park" /\ cause' = why /\ then' = next
  /\ UNCHANGED <<cur, prior, at, route>>

ParkState ==
  /\ pc = "park"
  /\ state' = "manual_attention" /\ reason' = cause
  /\ Goto("parkMail")
  /\ UNCHANGED <<inVars, rev, versions, outVars, contactVars, pastVars>>

\* A person has it; a message after that gets a line of its own, one a day.
ParkMail ==
  /\ pc = "parkMail"
  /\ IF IsFollowUp(cur)
       THEN IF acked THEN UNCHANGED <<mail, acked>> ELSE Queue(Holding(cur), cur) /\ acked' = TRUE
       ELSE Queue(FirstHolding, cur) /\ UNCHANGED acked
  /\ Goto("parkAlert")
  /\ UNCHANGED <<inVars, requestVars, draft, alert, research, suppressed, ledger, told, skips,
                 refused, pastVars>>

ParkAlert ==
  /\ pc = "parkAlert"
  /\ Raise(<<"staff_alert", IF IsFollowUp(cur) THEN cur ELSE rev>>, cur)
  /\ IF then = "idle" THEN LetGo("idle") ELSE Goto(then)
  /\ UNCHANGED <<inVars, requestVars, mail, draft, research, contactVars, pastVars>>

\* After the mail: the transition if it comes second, research ordered last.
AfterMail ==
  IF route.fam = "off_topic" THEN "note"
  ELSE IF route.mailFirst /\ route.to # "" THEN "settle"
  ELSE IF route.to = "researching" THEN "order" ELSE "returned"

\* queueSend: the intent and its job in one transaction; or the answer gate holds it,
\* or it repeats the last reply.
Send ==
  /\ pc = "send"
  /\ \/ /\ Queue(KeyOf(cur), cur) /\ Goto(AfterMail)
        /\ UNCHANGED <<draft, waits>>
     \/ /\ draft' = Put(draft, cur, "made") /\ waits' = cur
        /\ pc' = "block" /\ then' = AfterMail /\ UNCHANGED <<cur, prior, at, route, cause, mail>>
     \/ /\ route.fam \in {"default", "off_topic"}
        /\ Park("reply", AfterMail) /\ waits' = cur /\ UNCHANGED <<mail, draft>>
  /\ UNCHANGED <<inVars, requestVars, alert, research, contactVars, hush, faults, acts>>

\* holdReply: the draft's row exists; now it is kept from going out.
BlockDraft ==
  /\ pc = "block"
  /\ draft' = [draft EXCEPT ![cur] = "blocked"]
  /\ Park("reply", then)
  /\ UNCHANGED <<inVars, requestVars, mail, alert, research, contactVars, pastVars>>

-----------------------------------------------------------------------------
(* interpret, up to the choice of a route *)

\* A due row (one whose worker died, too), and the reads.
Lease(m) ==
  /\ pc = "idle" /\ row[m] = "pending"
  /\ tries' = [tries EXCEPT ![m] = IF @ < Budget THEN @ + 1 ELSE @]
  /\ pc' = "limit" /\ cur' = m
  /\ prior' = (versions # {}) /\ at' = rev
  /\ waits' = NoMessage
  /\ UNCHANGED <<says, row, late, requestVars, outVars, contactVars, route, cause, then,
                 hush, faults, acts>>

\* The limits let a cancellation or an opt-out through, so many a day.
Exempt == says[cur] \in {"stop", "cancel"} /\ skips < Free

WithinLimits ==
  /\ pc = "limit"
  /\ skips' = IF Exempt THEN skips + 1 ELSE skips
  /\ Goto("read")
  /\ UNCHANGED <<inVars, requestVars, outVars, suppressed, ledger, told, refused, acked, pastVars>>

\* Over a limit: said once a day, silence otherwise.  The day is noted first.
OverLimit ==
  /\ pc = "limit" /\ ~Exempt
  /\ told' = TRUE
  /\ hush' = hush \cup {cur}
  /\ Goto(IF told THEN "returned" ELSE "limited")
  /\ UNCHANGED <<inVars, requestVars, outVars, suppressed, ledger, skips, refused, acked,
                 waits, faults, acts>>

TellLimit ==
  \/ /\ pc = "limited" /\ Transition("manual_attention") /\ Goto("limitMail")
     /\ UNCHANGED <<mail, alert>>
  \/ /\ pc = "limitMail" /\ Queue(FirstHolding, cur) /\ Goto("limitAlert")
     /\ UNCHANGED <<state, reason, alert>>
  \/ /\ pc = "limitAlert" /\ Raise(<<"limited", at>>, cur) /\ Goto("returned")
     /\ UNCHANGED <<state, reason, mail>>

LimitIsTold ==
  /\ TellLimit
  /\ UNCHANGED <<inVars, rev, versions, draft, research, contactVars, pastVars>>

\* pendingDeletionReply, or the extractor: a transport failure is thrown, a refusal
\* is a person's.
Read ==
  /\ pc = "read"
  /\ IF ledger # "none" /\ says[cur] \in {"confirm", "delete"}
       THEN /\ route' = DeletionStatus /\ UNCHANGED <<cur, prior, at, cause, then>>
            /\ IF says[cur] = "confirm" /\ ledger = "pending"
                 THEN ledger' = "verified" /\ pc' = "stopAll"
                 ELSE UNCHANGED ledger /\ pc' = "send"
            /\ UNCHANGED faults
       ELSE /\ UNCHANGED ledger
            /\ \/ Goto("choose") /\ UNCHANGED faults
               \/ Goto("threw") /\ Fault
               \/ Park("other", "returned") /\ Fault
  /\ UNCHANGED <<inVars, requestVars, outVars, suppressed, told, skips, refused, acked,
                 hush, waits, acts>>

ConfirmDeletion ==
  /\ \/ /\ pc = "stopAll" /\ suppressed' = TRUE /\ Goto("deletionPark")
        /\ UNCHANGED <<state, reason, alert>>
     \/ /\ pc = "deletionPark" /\ Transition("manual_attention") /\ Goto("deletionAlert")
        /\ UNCHANGED <<suppressed, alert>>
     \/ /\ pc = "deletionAlert" /\ Raise(<<"deletion", 0>>, cur) /\ Goto("send")
        /\ UNCHANGED <<suppressed, state, reason>>
  /\ UNCHANGED <<inVars, rev, versions, mail, draft, research, ledger, told, skips, refused,
                 acked, pastVars>>

\* The first route that fits.
Choose ==
  /\ pc = "choose"
  /\ \E r \in RoutesFor(says[cur]) :
       /\ (IF prior THEN "later" ELSE "first") \in r.when
       /\ route' = r
  /\ pc' = "effect"
  /\ UNCHANGED <<cur, prior, at, cause, then, inVars, requestVars, outVars, contactVars, pastVars>>

\* Where a route begins: its version, its transition or its mail.
Begins ==
  IF route.row THEN "row" ELSE IF route.fam = "off_topic" /\ refused THEN "settle" ELSE "send"

\* stopAll or the marketing opt-out; the ledger's row; off-topic mail is answered once
\* for a request and once a day.
Effect ==
  /\ pc = "effect"
  /\ suppressed' \in IF route \in OptOut THEN {suppressed, TRUE} ELSE {suppressed}
  /\ ledger' = IF route \in DeleteData THEN "pending" ELSE ledger
  /\ hush' = IF route \in OffTopic /\ (refused \/ KeyOf(cur) \in DOMAIN mail)
               THEN hush \cup {cur} ELSE hush
  /\ Goto(Begins)
  /\ UNCHANGED <<inVars, requestVars, outVars, told, skips, refused, acked, waits, faults, acts>>

-----------------------------------------------------------------------------
(* ... and from there on *)

\* The number was read with the request; saveEvidenceRevision counts from the row's 1.
WriteVersion ==
  /\ pc = "row"
  /\ LET n == IF prior \/ route \in EvidenceFacts THEN at + 1 ELSE 1 IN
       IF n \in versions
         THEN Goto("threw") /\ UNCHANGED versions
         ELSE /\ versions' = versions \cup {n}
              /\ pc' = "revise" /\ at' = n /\ UNCHANGED <<cur, prior, route, cause, then>>
  /\ UNCHANGED <<inVars, state, reason, rev, outVars, contactVars, pastVars>>

SetRevision ==
  /\ pc = "revise"
  /\ rev' = at
  /\ IF route \in ClarifyLimit THEN Park("other", "returned")
     ELSE Goto(IF route.mailFirst THEN "send" ELSE "settle")
  /\ UNCHANGED <<inVars, state, reason, versions, outVars, contactVars, pastVars>>

Settle ==
  /\ pc = "settle"
  /\ Transition(route.to)
  /\ Goto(IF route.mailFirst THEN "returned" ELSE IF route.per = "none" THEN "order" ELSE "send")
  /\ UNCHANGED <<inVars, rev, versions, outVars, contactVars, pastVars>>

\* The off-topic reply of the day is noted after it is queued.
NoteRefusal ==
  /\ pc = "note"
  /\ refused' = TRUE
  /\ Goto("settle")
  /\ UNCHANGED <<inVars, requestVars, outVars, suppressed, ledger, told, skips, acked, pastVars>>

OrderResearch ==
  /\ pc = "order"
  /\ research' = Put(research, at, cur)
  /\ Goto("returned")
  /\ UNCHANGED <<inVars, requestVars, mail, draft, alert, contactVars, pastVars>>

-----------------------------------------------------------------------------
(* The row's end; faults; customers, staff and the clock *)

MarkDispatched ==
  /\ pc = "returned"
  /\ row' = [row EXCEPT ![cur] = "done"]
  /\ LetGo("idle")
  /\ UNCHANGED <<says, tries, late, requestVars, outVars, contactVars, pastVars>>

MarkFailed ==
  /\ pc = "threw"
  /\ IF tries[cur] < Budget
       THEN UNCHANGED row /\ LetGo("idle")
       ELSE row' = [row EXCEPT ![cur] = "dead"] /\ Goto("handoff")
  /\ UNCHANGED <<says, tries, late, requestVars, outVars, contactVars, pastVars>>

\* unacknowledgedFollowUp: no hand-off reply has answered the message.
Unacknowledged(m) ==
  /\ Holding(m) \notin DOMAIN mail
  /\ FirstHolding \in DOMAIN mail => m \in late

\* handOffFailedWork: not for a request that counts as answered.
HandOff ==
  /\ pc = "handoff"
  /\ IF \/ state \in {"closed", "recommendation_sent", "unsupported"}
        \/ state = "manual_attention" /\ ~Unacknowledged(cur)
       THEN LetGo("idle")
       ELSE Park("other", "idle")
  /\ UNCHANGED <<inVars, requestVars, outVars, contactVars, pastVars>>

Crash ==
  /\ pc # "idle"
  /\ Fault
  /\ LetGo("idle")
  /\ UNCHANGED <<inVars, requestVars, outVars, contactVars, hush, waits, acts>>

\* A reply in the thread joins the request while it is open.
MessageArrives(m) ==
  /\ Act
  /\ row[m] = "absent" /\ state \in OpenState
  /\ row' = [row EXCEPT ![m] = "pending"]
  /\ late' = IF FirstHolding \in DOMAIN mail THEN late \cup {m} ELSE late
  /\ UNCHANGED <<says, tries, requestVars, outVars, contactVars, workVars, hush, waits, faults>>

\* sendStaffReply: the customer is answered, and the request counts as answered.
StaffReplies ==
  /\ Act
  /\ state = "manual_attention"
  /\ state' = "recommendation_sent" /\ waits' = NoMessage
  /\ UNCHANGED <<inVars, reason, rev, versions, outVars, contactVars, workVars, hush, faults>>

\* replayDead.
ReplayDead(m) ==
  /\ row[m] = "dead" /\ cur # m
  /\ row' = [row EXCEPT ![m] = "pending"] /\ tries' = [tries EXCEPT ![m] = 0]
  /\ UNCHANGED <<says, late, requestVars, outVars, contactVars, workVars, hush, waits, acts, faults>>

NextDay ==
  /\ Act
  /\ told' = FALSE /\ skips' = 0 /\ refused' = FALSE /\ acked' = FALSE
  /\ UNCHANGED <<inVars, requestVars, outVars, suppressed, ledger, workVars, hush, waits, faults>>

Next ==
  \/ \E m \in Message : Lease(m) \/ MessageArrives(m) \/ ReplayDead(m)
  \/ WithinLimits \/ OverLimit \/ LimitIsTold \/ Read \/ ConfirmDeletion \/ Choose \/ Effect
  \/ WriteVersion \/ SetRevision \/ Settle \/ Send \/ BlockDraft \/ NoteRefusal \/ OrderResearch
  \/ ParkState \/ ParkMail \/ ParkAlert
  \/ MarkDispatched \/ MarkFailed \/ HandOff \/ Crash
  \/ StaffReplies \/ NextDay

Spec == Init /\ [][Next]_vars

-----------------------------------------------------------------------------
(* Properties *)

\* A reply, an alert or research of the message's own, or the first hand-off reply,
\* written after it came in.
Heard(m) ==
  \/ \E k \in DOMAIN mail : mail[k] = m
  \/ \E k \in DOMAIN alert : alert[k] = m
  \/ \E r \in DOMAIN research : research[r] = m
  \/ FirstHolding \in DOMAIN mail /\ m \notin late

\* Whatever crashed in between, and whichever keys were taken, a message that was
\* interpreted got something of its own: no follow-up is deduplicated into silence.
\* The code means to be silent only over the limits and to repeated off-topic mail.
\* (Every route's dedupe key, parkForStaff; the comment at pipeline.ts:1666.)
NoSilentEnd == \A m \in Message : row[m] = "done" => Heard(m) \/ m \in hush

\* A message whose reply was held leaves the request with a person, whatever its
\* route does after queueSend, until staff reply or a message is read again.  Ordered
\* research goes on by itself.  (holdReply, parkForStaff, transition.)
HeldWaitsForAPerson ==
  waits # NoMessage /\ row[waits] = "done" => state = "manual_attention"

\* The types, and a reply that is held waiting for a person.
HeldInv == TypeOK /\ HeldWaitsForAPerson

\* RUNBOOK.md:48: "downstream handlers remain idempotent (interpret keys on message
\* id ...)": a message has one answer, however often its interpretation is run.  The
\* code does not keep this: a second attempt may write a revision of its own.
Answer(m) == {k \in DOMAIN mail : mail[k] = m /\ k[1] # "holding"}
OneAnswerPerMessage == \A m \in Message : Cardinality(Answer(m)) <= 1

=============================================================================
