# Ticket Guy: TLA+ models and proofs

Ticket Guy is an email-first ticket concierge (Next.js, TypeScript, Postgres
through Drizzle, Inngest for scheduled work, Resend for email). A customer
writes; the system reads the email into a request, finds the event, researches
offers, has staff approve a draft and sends it; it also watches prices.
Everything durable is a row in Postgres, and nearly everything that can go wrong
is a matter of which statements of which workers come between which others.

This directory holds TLA+ modules of it, the TLC instances that check them, and
TLAPS proofs. Source paths below are relative to the repository.

## 1. The system

| Part | State it keeps | Operations | Who calls it |
|---|---|---|---|
| Outbox (`src/lib/intake/outbox.ts`) | `outbox_events`: state, lease token, lease and retry times, attempts | `enqueueOutbox`, `leaseDueOutbox`, `markDispatched`, `markFailed`, `replayDead` | every transaction that causes work; the dispatcher; staff |
| Dispatcher (`src/inngest/functions.ts`) | none of its own; a batch of leased events in memory | `runOutboxBatch` | Inngest cron each minute (one at a time) and its kick; beside it the recover-outbox endpoint and the admin simulators |
| Send intents (`src/lib/email/send-intents.ts`) | `send_intents`: state, claim token, claimed/submitted times, provider id, attempts | `createSendIntent`, `claimSendIntent`, `releaseClaim`, `recordProviderAccepted`, `applyProviderStatus`, `uncertainRetryDecision` | `queueSend`, `dispatchSend`, the provider's webhook |
| `dispatchSend` (`src/lib/intake/pipeline.ts`) | a claim in memory | read, requeue, claim, gate, submit, record | dispatcher |
| Send gate (`src/lib/email/send-gate.ts`), suppression (`src/lib/domain/suppression.ts`) | kill switches, `suppressions` | `evaluateGate`, `addSuppression`, `stopAll`, deletion of a contact | customers' emails, staff, webhooks |
| Provider webhooks (`src/app/api/webhooks/resend/route.ts`) | `inbound_events` | received mail (event row and outbox row in one transaction), delivery status | Resend, at least once, in any order |
| Inbound mail (`ingestInbound`, `src/lib/email/reconcile.ts`) | `messages`, `conversations` | ingest, threading, reconciliation sweep | dispatcher, cron |
| Requests (`interpret`, `research`, `approveRecommendation`, ...) | `requests`, `request_versions`, `research_runs`, `recommendations` | interpret a message into a revision; research a revision; approve, expire, invalidate a draft | dispatcher, staff |
| Hand-off to staff (`handOffFailedWork`, `parkForStaff`, `alertStaff`) | `requests.state = manual_attention`, alerts | park, acknowledge, alert | dispatcher, research, gates |
| Watches, event alerts, follow-ups | `watches` (generation), `watch_alerts`, `event_alerts` | evaluate, approve an alert, pause, cancel | cron, staff, customers |
| AI budget (`src/lib/ai/budget.ts`) | `usage_ledger` | reserve, settle, release | every model call |
| Market tracker, catalog, sources | price series, catalog rows | poll, sync, look up | cron, research |
| Comparison, freshness, money, threading, extraction post-processing | none | pure functions | research, interpret |
| Templates, brand, admin UI, media, auth, links | content | render, edit, store | everyone |

The path of one email: webhook -> inbound event and outbox row (one
transaction) -> dispatcher -> ingest -> interpret -> revision -> research ->
recommendation -> approval -> `queueSend` writes a send intent and an outbox row
(one transaction) -> dispatcher -> `dispatchSend` -> provider -> status webhook.

What makes it hard:

- the dispatcher is not alone: the cron run is limited to one at a time, but
  three other entry points run the same batch beside it, a lease lasts 60
  seconds and a batch of 50 model calls much longer, so leases are lost by
  workers that are alive;
- only a few operations are transactions: `dispatchSend`, `research`,
  `approveRecommendation` and the webhook's status update read, then decide,
  then write, and other actors write in between;
- the provider answers late, twice, out of order, or not at all;
- a process can stop between any two statements;
- what an answer rests on (a price, the rights to a dataset, the depth an event
  is worth, the event itself) may change between the read and the mail;
- a thread is read message by message, and each message is read with what the
  earlier ones left.

The `hazards` of `PROJECT.json` name the lines where each of these bites.

## 2. Layout

Each component has a module; `MC<module>.tla` and `MC<module>.cfg` instantiate
it for TLC; `<module>_proofs.tla` holds its theorems (`OutboxJourney_proofs` those of
`Outbox` and of `Journey`). Small modules without variables ("pure") hold the operators
of the algorithms.

| Component | Modules | Abstract specification | Proofs |
|---|---|---|---|
| Outbox and dispatcher | `Outbox` | `WorkQueue` | `OutboxJourney_proofs` |
| Outbound email | `SendIntents` | `Letter` | `SendIntents_proofs` |
| Inbound mail | `Inbound` | `Mailbox` | `Inbound_proofs` |
| One request | `Requests` | | `Requests_proofs` |
| Replies of `interpret` | `Conversation` | | `Conversation_proofs` |
| Price watches | `Watches` | | `Watches_proofs` |
| Market tracker | `Market` | | `Market_proofs` |
| Model spend | `Budget` | | `Budget_proofs` |
| Which event | `EventRules`, `Catalog`, `Resolve`, `Replies` (pure), `Resolution` | | |
| Offers, history, decision | `Order`, `Offers`, `PriceHistory`, `Policy`, `ServiceDepth`, `MarketSeries`, `Packet` (pure), `Advice` | | |
| Offers of the customer's own | `OwnOffers`, `Listings` (pure), `Comparing` | | |
| The three together | `Journey` (`MCAdvice`, `MCTalks`) | | `OutboxJourney_proofs` |

## 3. Modules

**`WorkQueue`** is what the outbox promises: a job is written once, is done only
after its handler returned at least once, is never reopened when done, and comes
back from the dead only by replay.

**`Outbox`** is one `outbox_events` row per key and any number of concurrent
`runOutboxBatch` runs. `LeaseDueOutbox` is the one SQL statement that takes a
batch; `StartEvent`, `HandlerReturns`/`HandlerThrows`, `MarkDispatched`,
`MarkFailed` and `HandOffFailedWork` are the loop body, one action per statement,
because another run can act between any two. Time is kept as the two comparisons
the code makes (`expired`, `ready`). The worker's name stands for its batch's
random lease token: a run leases a new batch only when the last is finished, and
compares tokens only for its own rows.

**`Letter`** is what outbound email promises: a letter is written once, mailed or
captured only while open, and filed as sent or stopped for good.

**`SendIntents`** has the intent row, its outbox job (Outbox's rules with one
lease per job), every statement of `dispatchSend`, the provider with its
idempotency window, and webhook requests whose read and write are separate steps.
Stops (revision change, cancelled watch, deletion, opt-out) can come at any
moment. What it leaves open or abstracts:

- the gate's reasons other than suppression (switches, approval, revision,
  freshness, policy) are one nondeterministic "blocked", and the gate's writes to
  recommendations and alerts are left to `Requests` and `Watches`;
- time is a number of hour ticks, and a dispatch lasts less than a tick;
- the provider remembers a key for exactly `Window` ticks from acceptance;
- `attempts` stops at 3, as no property tells larger counts apart;
- one recipient and one kind of mail, so `suppressed` is one flag;
- `upsertProviderMapping` is called only by tests and is left out.

**`Requests`** is one request: its row, its revisions, its drafts
(`recommendations`), the draft's mail, and the outbox jobs of interpretation,
research and dispatch. Workers run the handlers; the same workers stand for calls
by staff. Every write of `interpret`, `research`, `approveRecommendation`,
`reresearchExpired`, `queueSend` and of the approval side of `dispatchSend` is an
action, so any two handlers overtake each other anywhere.

| Code | Actions |
|---|---|
| `ingestInbound` | `MessageArrives` |
| `interpret`, `saveEvidenceRevision`, `recordVersion` | `InterpretReads`, `InterpretAside`, `WriteVersion`, `SetRevision`, `Settle`, `OrderResearch` |
| `invalidateForRevision` | `InvalidateDrafts`, `BlockQueued` |
| `research` | `StartResearch`, `InsertDraft`, `MarkAutoSent`, `QueueAutoSend`, `FinishResearch` |
| `approveRecommendation` | `StaffOpens`, `ApproveChecks`, `Approve`, `QueueApproved` |
| `reresearchExpired` | `ExpireDraft`, `ReresearchChecks`, `GiveUp`, `ResearchAgain`, `OrderAgain` |
| `dispatchSend` | `ClaimMail`, `GateAllows`, `GateRefuses`, `RefuseMail`, `SubmitMail`, `FileSent`, `FileRequest`, `KeepPromise` |
| `transition`, `parkForStaff`, `queueSend`, `holdReply` | `Transition`, `Park`, `QueueSend`, `ReplyIsHeld` |
| `handOffFailedWork`, `markDispatched`, `markFailed`, leases | `HandOffFailedWork`, `MarkDispatched`, `MarkFailed`, `TakeJob`, `TakeOver` |
| staff: research again, reply, remove | `StaffOrdersResearch`, `StaffReplies`, `RemoveRequest` |

What it abstracts:

- what the model reads in a message is a choice among the states an
  interpretation can settle in (`Outcome`);
- reads of a handler that follow each other are one step. So the gate sees the
  revision, the draft and the event of one moment, and a withdrawal that commits
  among its reads counts as after them;
- a handler's state transition and its reason are one step (`held`);
- a change of the event is for good: an event taken back to "scheduled" at its
  old time would give a withdrawn draft its occurrence back;
- the retry of an uncertain mail is `SendIntents`', so here `uncertain` is final;
- replies that need no approval only matter by the state they leave.

**`Mailbox`** is what the intake promises of the mail the provider received: an
email is filed at most once, into a conversation of its own sender, is read
exactly when a person wrote it, and is never moved.

**`Inbound`** has the webhook (event and outbox row in one transaction), the
sweep (two statements), and workers that lease a row, retrieve the email and
ingest it in one transaction. The update of the sender's contact row is a lock
until that transaction commits, and what is read before and after it differs:
that is where the module has separate steps. An email may have two events, one
of the webhook and one of the sweep. A request's state is set by others, behind no
lock: closed, and open again. Attachments, names and texts are left out.

**`Watches`** has the creation of watches by a message, the scheduled look at
those that are due (claim, read of the alerts so far, alert), approval by staff,
dispatch, and everything that stops a watch: the customer, staff, deletion, a new
revision. `generation` counts what happened to a row; `stoppedAt` is history, the
generation at which a stop was confirmed to the customer.

**`Conversation`** is `interpret` as a cascade of some thirty routes, told apart
by what they write, in what order and under which key: a version, a change of the
request's state, mail, a park with its acknowledgment and alert. One worker runs
it, and may crash or fail at any statement; what two interpretations do to each
other is `Requests`'. Which route fits is a choice, except for the words that are
read the same every time.

**`Market`** is one followed game: its row, its snapshots, past games, and the
day's allowance of paid calls, used by the hourly pass, by price watches in the
pass's lane and by research. Each operation has the read of its allowance, the
calls and the count as separate steps. An answer to the statistics call may be cut
at its last page. The calls of a client that dies before it counts them are kept as
history (`lost`), as nothing else knows of them.

**`Budget`** is reservation, call, settlement and release of model calls. A
reservation holds a lock on its request and reads the request's and the day's
totals; the day has no lock. The callers (reading an email, reading images, drafts,
the search, the answer gate) differ in what they do when refused or failed. An event
thrown at its last attempt is dead before it is handed off; a request that is over by
then (`over`) is told to nobody. A crash leaves the event leased: it runs again, even
past its last attempt.

**`Journey`** composes three machines that share the state of one request:

- **`Resolution`**: each message of a thread is merged into the brief, may pick an
  event offered before, or is searched for in the catalog and at the provider,
  and ends in research, a question or nothing. Another customer's search runs
  between any two steps and shares the catalog, the record of searches and the
  day's calls. `EventRules` reads phrases as days and says what a customer
  rules out, `Catalog` what the provider's answer writes, `Resolve` the choice among the
  rows, `Replies` what a further message does to what was offered or settled.
- **`Advice`**: research asks sources in the order and number `ServiceDepth` allows,
  compares offers (`Offers`), reads past events and trends (`PriceHistory`) and the
  resale market (`MarketSeries`), decides (`Policy`) and writes a draft whose claims
  name their evidence (`Packet`); staff add, reread and approve; the dispatcher
  checks rights, depth, freshness and the event again.
- **`Comparing`**: offers the customer lays out or shows are read turn by turn with
  those before, held to what the party needs and compared (`OwnOffers`); a listing
  shown by text, screenshot or link is read, corrected and judged (`Listings`).

The machine of `Advice` names its parts `AdviceInit`, `AdviceNext`, `AdviceTypeOK`, `advising`
apart from the modules it is composed with. A list is sorted by *rank* (`Order`): an element's
place is the number of those before it. That is a list when the order is strict and total
on what is sorted, which the proofs show of `Before` and `Ranks` on reads of different offers
or times.

Their instances are given as *cases* (a request and its world), *scenes* (a thread,
a catalog and what the provider lists) and *talks* (a thread about offers), families
of small variations around a base: a few thousand markets, some dozens of threads.
Wording is never modelled: a message is what it says, and how the words are found in
it is left out. Leap days and the clock changes of a zone are left out of `EventRules`.

Definitions named `Faulty...` are variants of the definition they precede with one
plausible bug each; nothing uses them in a specification. They exist to show that
each property notices that bug.

## 4. Runs

| Run | Instance | Checks | Result |
|---|---|---|---|
| `Outbox` | 2 rows (budgets 2 and 1), 2 runs, batches of up to 2, 2 faults | `TypeOK`, `LeaseAccounting`, `PendingWithinBudget`, `ImplementsWorkQueue`, `EveryRowResolves` | holds, 240 220 states |
| `Send` | 1 intent, 2 dispatchers, 2 webhooks, window 2, horizon 2, 2 faults | `TypeOK`, `OneSubmitter`, `SuppressedGetsNoMore`, `OnlyRacesEraseABounce`, `FirstRetryInWindow`, `ImplementsLetter` | holds, 3 028 036 states |
| `SendLive` | 2 intents, 1 dispatcher, no webhook, 2 faults | `EveryEmailLeavesQueue` | holds, 473 143 states |
| `Requests` | 2 messages, 1 draft, 2 workers, 2 revisions, 1 fault, 2 acts, drafts approved by the system, from a stored first revision | `TypeOK`, `RevisionsInOrder`, `WithdrawnIsNeverSent` | holds, 3 210 940 states |
| `RequestsLive` | 1 message, 3 drafts, 2 workers, 3 acts, no fault, drafts approved by staff | `ResearchEnds`, `ApprovedIsSettled` | holds, 213 029 states |
| `Inbound` | 4 emails (2 stored before, 1 whose webhooks name no email), 2 workers, pages of 1, 1 fault, 3 acts | `MailInv`, `OneOpenRequest`, `ImplementsMailbox`, `DeliveredIsReadOrRaised` | holds, 896 396 states |
| `Watches` | 1 watch, 2 processes, two totals around the target, 1 alert a day, 5 acts | `WatchInv`, `StoppedStaysSilent` | holds, 6 277 061 states |
| `Conversation` | 2 messages, plain words, a deletion and its confirmation, 6 routes, 1 fault, 1 act | `HeldInv`, `NoSilentEnd` | holds, 878 697 states |
| `ConversationTwice` | 2 plain messages, 1 route, 1 fault | `OneAnswerPerMessage` | violated |
| `Market` | the pass, a price watch and a request, 1 past game, 2 snapshots, allowance 2 with a share of 1, 1 act (a crash, or a change) | `AllowanceInv`, `NothingIsPassedOver` | holds, 4 322 196 states |
| `Budget` | 2 dispatchers, 2 requests, 1 revision each, estimate 2, calls that use 1 or 3, limits of 4, 2 days, 2 emails, 1 fault (a crash, or a request that is over) | `LedgerInv`, `SpendLimits`, `EveryEmailIsAnswered` | holds, 1 651 482 states |
| `Advice` | all cases, scenes and talks | `PickInv`, `WaitIsSound`, `RangeIsOfPastEvents`, `DepthIsSpentInOrder`, `ChoiceInv`, `SearchIsHonest`, `ComparedInv`, `MailedStillHolds`, `SettledKeepsTheRules`, `EnquiryAnswers` | holds, 278 402 states |

What the properties of the later modules say:

- `SuppressedGetsNoMore`: after an opt-out, a complaint or a deletion an intent makes
  no mail but the one that had passed the gate by then. `OnlyRacesEraseABounce`: a
  bounce or complaint leaves the record only by a "failed" event or in the write of a
  webhook that read the row before the bounce came. The second case happens in the
  run, and contradicts the comment at `send-intents.ts:81`; the property says that
  nothing else erases one.
- `MailInv`: a processed event's mail is stored in a conversation (an event that never
  gets that far is `DeliveredIsReadOrRaised`'s matter). `OneOpenRequest`: side by side
  or again after a crash, two emails never open two requests in a conversation; a
  closed request that is set open again is not counted, as it may stand beside a newer one.
  `DeliveredIsReadOrRaised`: each event the webhook or the sweep wrote comes to be read
  or set aside, or its alert is handled; the events it excepts are recorded in `untold`
  at the two steps that lose them: a hand-off that fails, and a sweep cut off between
  event and row.
- `WatchInv`: no look at a watch overlaps another, and no generation finds more
  alerts in a day than the cap. `StoppedStaysSilent`: an alert found before a
  confirmed stop never passes the gate after it, even if a look that had begun
  overwrites the stop and staff resume the watch.
- `NoSilentEnd`: a message whose row ended done got something of its own unless the
  code means to be silent; no reply is deduplicated away. It does not speak of a row
  that dead-letters after its reply, nor of a deletion that was verified but stopped
  nothing. `HeldInv`: a held reply leaves
  the request with a person whatever its route does afterwards.
- `AllowanceInv`: every paid call is counted once whatever fails, unless its client died
  before it counted it (`lost`), and each worker of the background lane keeps to the
  share but for such calls; the pass and a watch may pass it together.
  `NothingIsPassedOver`: the row never remembers a snapshot later than one that is
  missing, unless a cut answer left it out (`cutOff`), and a search that counts as read
  left no game unread because the allowance ended; those of a back-fill that died stay
  unread (`orphaned`).
- `LedgerInv`: every call is on the books once, whatever settlements, releases and
  crashes interleave. `SpendLimits`: a revision keeps to its hard limit and a day to
  its own, the day by one estimate for each other request reserving at once, both up
  to what calls used beyond their estimates.
  `EveryEmailIsAnswered`: by the model, without it or by a person, but for a dead event
  of a request that is over and for a hand-off that fails or dies.
- `PickInv`, `WaitIsSound`, `RangeIsOfPastEvents`, `DepthIsSpentInOrder`: reference
  definitions of what the algorithms are for. The pick suits the customer and nothing
  seen suits better; a wait rests on prices that fell and leaves time; a range is of
  other events, each once, with a quarter at either end; the calls made are the first
  ones allowed, no more than the depth pays for. `MailedStillHolds`: what was true when
  an answer was written still is when staff approve it and when it first leaves; an
  answer sent without approval, and a retry of its mail, which asks for the expiry no
  more (`pipeline.ts:4883`), are outside it.
- `ChoiceInv`: a bare position or name picks what the latest list showed there, as long
  as nothing up to it was called off since: then positions shift (see below).
  `SearchIsHonest`: a customer told that nothing is on was told so by a search like
  theirs; a forced search that fails after a complete one, and a full page of their own
  search, are excepted. `SettledKeepsTheRules`: the event settled breaks none of their
  rules, but for an event they picked by name and rules they were told conflict.
  `ComparedInv`: a comparison uses the last price they gave of each offer with fees given
  with it, names an offer that meets what they last asked, and judges a shown listing as
  sent and as last corrected, against what else there is. Of concert tickets it asks only
  that a fee was given of that offer, and of a correction that it counts in the message
  that makes it: the code promises no more (see below).
  `EnquiryAnswers`: whatever they write, an answer, a question or a person follows.

**Bounds.** Two rows let a batch hold a row while another run has the other and make
batches both full and short; a budget of 1 and one of 2 give a last attempt and one
before it; two workers and two faults let a lease be lost, taken over, and lost
again, which is every way in which two holders of a row can overlap. A window of 2
and a horizon of 2 let a retry fall inside and at the end of the window, and an
intent be mailed twice. Two webhooks let one judge by a state the other replaced;
workers and webhooks are symmetric. Faults
(crashes, leases lost by live workers, failed statements) are bounded because
nothing in the code bounds them; the proofs have no such bound.

For requests, two messages and two revisions give a newer revision that overtakes
the work of an older one, two workers give every pair of handlers, and two *acts*
(a message, an expiry, a change of the event, anything staff do) give a withdrawal
and the approval that races it. `ExpiryLimit` is 1 or 2 where the code has 3, so
that one or two expiries reach it. `RequestsLive` trades the second message for
three drafts, so that a draft can expire, be researched again and expire again.
The run `Requests` starts where the first revision is stored (`LaterSpec`), because
until then the numbering can be overtaken: the row says revision 1 before any version
exists, two interpretations may number theirs 1 and 2, and the slower one sets the
request back to 1. `RequestsLive` starts from nothing, with one message.

For inbound mail, two answers to stored mail of one sender race for the same
conversation, each by webhook, sweep or both, and three acts are a request closed, a
second opened, the first set open again, and a replay. For watches, two processes give a
look and the stop, the message or the approval that races it, and five acts are enough
for a stop overwritten by a look, a resume and an approval of the old alert. For the
conversation, two messages and a crash give a second attempt that finds the keys of the
first taken; six of the thirty routes are enough, one for each way a route keys and
orders its writes; one act is a second arrival, a replay or a reply by staff. For the
market, an allowance of 2 with a share of 1 is spent in every division between the pass,
the watch and the request; one act is a crash, a snapshot published after the start, a
change of the request, the licence or the game, a poll fallen due or a new day. For the
budget, limits of two estimates let two reservations meet at each limit, and calls that
use 1 or 3 settle below and above their estimate; two days put a settlement after
midnight. In `MCAdvice`, `Tolerance` is one hour for the code's one and a half, as hours
are whole; `DailyLimit` and `PageSize` are 2 so that the day's limit and a full page are
reached; talks are two to four messages long.

`CHECK_DEADLOCK FALSE` is set everywhere because the system may stop: when every
row is dispatched and nobody writes, nothing is left to do.

**Fairness.** `Outbox!FairSpec`: the cron starts a batch every minute, a run goes on
until it ends or its process dies, leases run out and backoffs elapse. No
fairness on enqueueing, replays or faults. `SendIntents!FairSpec`: a due job is
leased and a dispatch goes on; nothing obliges customers, staff, webhooks or the
clock. `SendLive` has one dispatcher because Inngest allows the cron one at a
time and it is the only one that runs by itself; with a second one that loses its
lease, requeues an uncertain intent and dies, an intent can stay queued with its
job done. `Requests!FairSpec`: a due job is taken by some worker and a handler that
is running goes on. `RequestsLive` has no crash: a call by staff that dies between
`transition` and `enqueueOutbox`, or between the approval and `queueSend`, is
retried by nobody and its request waits forever. That is what the code does.
`ResearchEnds` lets a draft of the current revision count as the end of research,
because staff and a dispatch that both find a draft expired can leave the state
`researching` behind after the new draft is there. `Inbound!FairSpec`: due rows are
taken, handlers go on, the alert of a dead row is sent or given up, and a sweep that
wrote an event writes its row unless it dies; nothing obliges the provider or staff, nor
anyone to run the sweep. `Budget!FairSpec`: a dispatcher that has an
email works on, as the provider's client times out. `FairJourney`: jobs are retried
until they are done; customers need not answer, the provider need not, and other
customers' searches are under no fairness.

**What the violated run shows.** `ConversationTwice`: `docs/RUNBOOK.md:48` says a
replayed row is harmless because interpretation is keyed on the message's id.
`interpret` writes a version of its own each time it runs, and the replies keyed to a
revision take the new one, so an attempt that dies after queueing its reply is
followed by a second reply.

### Known behaviours

Modelling showed these. They are what the code does, and the modules have them; the
properties above are stated so that they allow for them.

*Statements without a transaction.*

- Dead-lettering and the hand-off to staff are two statements: a crash between them, or
  a hand-off that fails (`functions.ts:75` logs it), leaves dead customer work nobody is
  told of, which the comment at `functions.ts:74` excludes.
- A sweep cut off between event and row leaves an email that no later sweep looks at.
- `transition` and a reply by staff set a closed request open again without the
  contact's lock: it may then stand beside a newer open request of its conversation,
  and `ingestInbound` goes on with the newer.
- An uncertain send is not retried by itself: `dispatchSend` returns normally and its
  row is dispatched (`RUNBOOK.md` section 5 promises the retry). A worker lost between
  requeue and claim leaves a queued intent of unknown age that is later sent past the
  provider's window. Nothing takes an intent out of `claimed` when its worker died.
- Two webhooks at once can erase a bounce or a complaint, because the rank is compared
  on a stale read: a "delivered" that read the row before the bounce was written
  replaces it. The comment at `send-intents.ts:81` and the acceptance matrix (A19)
  exclude this. The suppression that came with the bounce stays.
- `removeRequests` drops jobs that are pending, not those in progress, and the gate
  asks for the revision but not for the request's state: a research that is running
  when a request is removed still sends its automatic answer.
- A crash between a version and the revision it makes current lets every retry and
  replay of that message fail on `request_versions_uq`; a person gets the request.
- The day's limit of searches and of model spend is read without a lock.
- The hourly pass and a price watch read the background's share of the day separately and
  may pass it together. Calls of a market client that dies before it counts them are in no
  row, so that day's allowance is larger by them.
- `poll` does not ask whether the client stopped at its fifth page (`tracker.ts:483`,
  `seatdata.ts:131`): what a cut answer left out before its newest snapshot is not asked
  for again.
- A back-fill that dies among its games had its search written as a success: the rest
  waits for a month.

*Threads.*

- A correction typed in one message is forgotten at the next: only the words of the
  message being answered (`pipeline.ts:4155`) reach `correctListing` (`4270`). The comment
  at `4229` ("wins over the read") and `ComparedInv` hold of that message alone.
  A new version of an offer keeps the old whole-party total, and words that nothing else
  is charged, said of an earlier price, close the total of a later one
  (`text-offers.ts:379`). A newer link after an older screenshot is not looked up.
- After a turn that only gives a price, a concert offer loses its access, pairs and
  tier and keeps the fees and fee basis given with its earlier price.
- The days of earlier messages are read as of the day of the last one.
- `offeredRows` drops rows that were called off before it counts positions, so "the
  second" may be the third that was shown.
- "Home only" on a later message can drop a settled home game when another customer's
  search rewrote the row's primary act.
- A run of a show whose head date changes can be shown again under "more".

*Judgements.*

- A linked listing has no total for the party and is never over budget. Catches are cut
  to five before they are ranked. "Only X fits" is said when two of three fit. "Keep
  yours" is said when the cheapest faulted pick is worse although another shares their
  own fault. An all-in price slightly above one before fees is advised against.
- The suggestion after a conflict relaxes the window and the time together, and picks
  offered elsewhere ignore the rules. A forced search that fails still answers that
  nothing was found. A full page of the provider hides events.

## 5. Proofs

The eight `_proofs` modules are checked by TLAPS for every value of the constants,
under the assumption each component's module names (`OutboxAssumption`,
`SendAssumption`, ...), which TLC evaluates on every run. These say that null values
differ from real ones, that bounds are naturals and that sets whose sizes are compared
are finite. Three say more: `AdviceAssumption` that an offer's id is one offer's, a
snapshot's id one snapshot's, and that only staff's are marked as staff's (ids are the
database's, and observations by staff have a source of their own),
`ConversationAssumption` that message ids are no revision numbers (keys hold both),
`InboundAssumption` that the mail stored at the start is the service's own.

Each proof finds an invariant that is inductive (checked with TLC first), and has one
step per action.

**Outbox.** `LeaseAccounting` and `PendingWithinBudget` are not inductive alone: a
row returns to `pending` because its holder judged the attempts it leased, so the
invariant `IInv` also says that a worker's view of a row it still holds equals the
row's count, that a worker past its handler has run it, and that a worker is busy
exactly with a row of its own. From `IInv` follow the two invariants and the
refinement of `WorkQueue`: `MarkDispatched` by a worker that still holds the token
is `Finish`, `MarkFailed` on the last attempt is `GiveUp`, and whatever a worker
does that lost its token is a stutter.

**SendIntents.** The invariant `SInv` has four parts besides types. *Claims*: a
worker between claim and answer holds the intent's token and the intent is
`claimed`; after an error it holds it or the intent is already filed. This gives
`OneSubmitter`. *Answers*: an intent has a provider id exactly when it is filed as
sent, and then a copy was mailed or captured; this gives the refinement of
`Letter`. *Ages*: while there has been one attempt, `claimedAt` is the time the
provider took the mail, and a worker about to requeue has compared it with the
window; this gives `FirstRetryInWindow`. *Silence*: once the address is
suppressed, an intent's mails, and one more while it is being submitted, are no more
than the mails it had at the opt-out and the one then under way; this gives
`SuppressedGetsNoMore`, because `GateAllows` is the one way into submission and, by
*Claims*, one worker at a time takes it. `OnlyRacesEraseABounceHolds` is for any number
of webhooks at once.

**Requests.** From a stored first revision on. `IInv` has four parts. *TypeOK*
needs *InHand*: a handler past its reads has a draft in its hands, a research job
or a send job where it uses one. *Numbering*: `RevisionsInOrder`, and a handler
that has read the request is at most one revision ahead, one that withdraws older
drafts not at all; with `request_versions_uq` only one handler can then be about to
make a revision current, which gives `RevisionMovesForward` too. *WithdrawnForGood*:
a withdrawn draft has a newer revision after it, or is past its expiry, or is about
an event that changed. Its status is no such reason, because `Approve` goes by the
draft's id alone and may turn `invalidated` into `approved`. `GatePasses` excludes
each of the three, and `OnlyTheGate` shows that nothing else leads to a submission,
which gives `WithdrawnIsNeverSent`.

**Inbound.** `OneOpenRequest` rests on the contact's row: `OneWriter` (one transaction
at a time is past its update) and `ReadsStand` (what that transaction read since is
still so when it commits: the email is not stored, the conversation is the sender's, it
has no open request but one set open again). What was read before the lock has no such guarantee, which is why
the code reads again. With `Rooted` and `RequestsAreFiled` (a conversation is named by
its first email and is one sender's; only stored mail has a request) each commit is
`Mailbox`'s filing, and every other step a stutter.

**Watches.** `LookInv`: a watch that is looked at is stored and not due, so that no
second look can claim it. `Telling`: the cap, and that a look about to write an alert
has the room it found. `StopsArePast`: a confirmed stop is of an earlier generation
than the row, whatever a look wrote over it. These give `WatchInv`; `StopsArePast` with
the gate's own comparison gives `StoppedStaysSilent`.

**Conversation.** The invariant says what the worker holds at each of its steps, that a
key names the message or revision it was built from (`Message \cap Nat = {}`), that the
keys a revision's route will use are free until it uses them, and that a message whose
mail is behind it has its answer. The last but one is the heart of `NoSilentEnd`: a
second attempt writes a new revision, and its keys are free; routes that do not write
one key their mail by the message. `HeldInv` needs that every route that goes on after a
held reply parks the request or leaves it parked.

**Market.** `Accounts`: what a lane called and no row counts is what its clients are in
the middle of or died with, and a reservation is a row. `RoomInShare`, for each worker of
the background lane: what it called and may still call fit the share and the calls lost
there, as the rows it read hold all of its own that it counted; what another one does
meanwhile only adds to them. `SnapshotsAreKept` compares
what each worker is about to write with what is stored; `GamesAreListed` follows a past
game from the search to the history.

**Budget.** `OneReserver`: the request's lock. `Held`: the rows workers hold are open
rows of the books, the calls under way are among those made. `Booked`: every call counts
once, and the books of a day begin with the day. `Limits`: under the request's lock there is room for the estimate
about to be written, so the hard limit holds; in a day, those that found room hold locks
of different requests, so there are at most as many as requests, and the day passes its
limit by one estimate for each of the others. Sums are written as cardinalities of
unions of disjoint sets, so no induction over them is needed.

**Journey.** Of a request from its first message to the mail, for every set of cases: any
offers listed and entered, any wishes, sources, rights and depth. `JourneyInv` has six parts
besides the case's own types (`AdviceTypeCorrect`).

- *Origins*: what is stored, and what a research saw, are reads of the case's offers, one
  per offer and time; what was seen stays stored in some read, through rereads and what
  staff enter. While sources are asked, a source's offers are as it lists them.
- *BestIsBest*: from the comparison until the draft is written the pick is the best of what
  was seen, whatever changes meanwhile in rights, event or clock, and the range found is
  the one past events give.
- *DraftHolds*: a draft is of a research with such a pick; the claims it may show are those
  the packet makes of that research (a price of the pick only when it has one,
  a trend with the trend's own reads as evidence, a range only of enough past events);
  what it chose is still stored.
- *Flow* and *Enquiry*: research goes on only while no draft is open and before the last
  expiry; mail is queued only of a draft that is approved; nothing is researched before the
  event is settled, and once it is no question of `Resolution` is under way.

`PickInv` follows from *DraftHolds* by `BestIsTheirs`, a lemma about the operators alone: the
head of the ranked list of eligible offers suits the group (`SuitsIsEligible`, which relates
the six exclusions and the review flags of the code to the reference definition) and no other
that suits comes before it. It rests on lists by rank: `ByRankIsSorted` (under a strict total
order on a finite set every element has its own rank, by counting), `RanksInIsOrder`,
`BeforeInIsOrder` (the tuples compared are such an order) and `LeastIsFirst`.
`RangeIsOfPastEvents` follows from *DraftHolds* by `BenchmarkIs`, where the same lists are by
price and id: `QuartileParts` counts, for each quartile of n prices in order, those at or
below it and those at or above, from the ranks of the two prices it falls between
(`RankCount`, `PriceGrows`). Equal prices and interpolation are why it is a count of prices
and not a rank.

`MailedStillHolds` is of steps: an approval rechecks the rights of every claim that
*DraftHolds* says is of the trend's reads, and a mail leaves only from `Sendable`, which reads
depth, expiry, event and prices anew; *Flow* says that nothing else reaches "sent".

**Only model-checked.**

- Liveness under fairness: `EveryRowResolves`, `EveryEmailLeavesQueue`, `ResearchEnds`,
  `ApprovedIsSettled`, `DeliveredIsReadOrRaised`, `EveryEmailIsAnswered`,
  `EnquiryAnswers`. The prover has no rule for it.
- Of `Advice`: `DepthIsSpentInOrder` and `WaitIsSound`. They compare filters of a sequence and
  series of prices with a reference definition.
- Of the rest of `Journey`: `ChoiceInv`, `SearchIsHonest`, `SettledKeepsTheRules`,
  `ComparedInv`. They follow folds over a thread and over the pages of a search; what a fold
  computes for every input needs induction over data, which is out of the prover's reach.

## 6. Not modelled

`components` of `PROJECT.json` lists every part with its status. Left out entirely:
event alerts and follow-ups (scheduled scans that queue mail), media storage,
templates and brand, sign-in and the admin API around the handlers, tracked links.
They are data, I/O or library code, or another scheduled scan like that of watches.
Of the modelled parts: rereads and edits by staff, the research runs' own status (no
handler reads it), `upsertProviderMapping`, scopes of suppression per message class,
the second provider's price sync, late entry, currencies and rounding, the reading of
words (`lexicon`, `ai/extraction`), the renderer and all wording.

Five hazards have no property, each with its reason in `PROJECT.json`: a worker that
lost its lease may report as failed what another is doing; a status webhook that comes
before the provider's id is stored is dropped; a back-fill that dies among its games
leaves the rest for a month; a follow-up's outcome row may be missing after a crash; a
model call that timed out is released although it may be billed.

## 7. Next

- Theorems about `Resolution`: that the search of a message is the one its brief asks for.
- The marketplace ids of an event (`event-links.ts`), the other games that fit
  (`pipeline.ts:2221`), browsing (`pipeline.ts:2541`, `domain/browse.ts`), a customer's
  link followed to its listing (`link-resolution.ts`).
- Event alerts and follow-ups, as a module beside `Watches`.
