-------------------------- MODULE Conversation_proofs --------------------------
(***************************************************************************)
(* Proofs about module Conversation, for every set of messages and words,  *)
(* every choice of routes and every value of the limits.                   *)
(***************************************************************************)
EXTENDS Conversation, TLAPS

USE DEF inVars, requestVars, outVars, contactVars, workVars, pastVars

-----------------------------------------------------------------------------
(* The inductive invariant. *)

\* Before anything is written for the message; between a reply that is not sent and
\* where its route goes on.
Reading == {"limit", "limited", "limitMail", "limitAlert", "read", "choose", "effect", "row"}
Parking == {"park", "parkMail", "parkAlert"}

\* Where the route goes on.
Heading == IF pc \in Parking \cup {"block"} THEN then ELSE pc

InHand ==
  /\ pc # "idle" => cur \in Message /\ row[cur] \in {"pending", "dead"}
  /\ pc \in Reading => at = rev /\ (prior <=> versions # {})
  /\ versions = {} => rev = 1
  /\ pc = "revise" => versions \subseteq 1 .. at

\* What the route that was taken allows at each of its steps.
OnRoute ==
  /\ pc \in {"effect", "row", "revise", "send"} => route # NoRoute
  /\ pc \in {"stopAll", "deletionPark", "deletionAlert"} => route = DeletionStatus
  /\ pc \in {"row", "revise"} => route.row
  /\ pc = "send" => route.per # "none"
  /\ Heading = "settle" => route # NoRoute /\ route.to \in State /\ (route.row => at \in versions)
  /\ pc \in {"revise", "send", "block"} /\ route.row => at \in versions
  /\ Heading = "note" => route \in OffTopic
  /\ Heading = "order" => at \in versions
  /\ pc \in Parking \cup {"block"} /\ then = "settle" => route.mailFirst
  /\ pc \in Parking \cup {"block"} /\ then = "order" => route.per # "none"
  /\ pc = "block" => then # "idle"

\* A reply that is held: the request is with a person from the moment it is parked.
HeldStays ==
  waits # NoMessage =>
    /\ pc # "idle" => waits = cur
    /\ pc \in Parking \cup {"block", "note", "settle", "order", "returned", "idle"}
    /\ pc = "park" => cause = "reply"
    /\ Heading = "settle" => route.mailFirst
    /\ pc \in {"parkMail", "parkAlert", "note", "settle"} =>
         state = "manual_attention" /\ reason = "reply"
    /\ pc \in {"order", "returned"} => state = "manual_attention"

\* Whose key a key is.
KeysOfMessages ==
  /\ \A k \in DOMAIN mail : k[2] \in Message => mail[k] = k[2]
  /\ \A k \in DOMAIN alert : k[2] \in Message => alert[k] = k[2]
KeysOfRevisions ==
  \A k \in DOMAIN mail : k[1] = "verification" \/ k[2] \in versions \cup {0} \cup Message

\* The keys of a revision are free when it is written, and until its route uses them.
Fresh ==
  /\ pc \in {"revise", "send", "settle"} /\ (pc = "settle" => ~route.mailFirst) /\ route.row =>
       \A k \in DOMAIN mail : k[2] = at => k[1] = "verification"
  /\ pc \in {"revise", "settle", "order"} /\ route.per = "none" => at \notin DOMAIN research

\* Deletion is asked for once: from then on its status answers.
AskedOnce ==
  /\ (\E k \in DOMAIN mail : k[1] = "verification") => ledger # "none"
  /\ pc \in {"choose", "effect"} /\ says[cur] = "delete" => ledger = "none"
  /\ pc = "effect" /\ route.fam = "verification" => says[cur] = "delete"
  /\ pc = "send" /\ route.fam = "verification" =>
       ledger # "none" /\ \A k \in DOMAIN mail : k[1] # "verification"

OffTopicOnce ==
  pc = "send" /\ route.fam = "off_topic" => cur \in hush \/ <<"off_topic", 0>> \notin DOMAIN mail

\* The message has its answer once its mail is behind it.
Answered(m) == Heard(m) \/ m \in hush
AnswerGiven ==
  /\ pc \in {"limited", "limitMail", "limitAlert"} => cur \in hush
  /\ pc \in {"note", "returned"} => Answered(cur)
  /\ pc = "settle" /\ route.mailFirst => Answered(cur)
  /\ pc = "order" /\ route.per # "none" => Answered(cur)
  /\ pc = "parkAlert" => Answered(cur) \/ IsFollowUp(cur)

Typed == TypeOK /\ InHand /\ OnRoute
Keys == KeysOfMessages /\ KeysOfRevisions /\ Fresh /\ AskedOnce /\ OffTopicOnce
IInv == Typed /\ HeldStays /\ HeldWaitsForAPerson /\ Keys /\ AnswerGiven /\ NoSilentEnd

-----------------------------------------------------------------------------
(* The routes: what holds of every one of them. *)

Sound(r) ==
  /\ r.row \in BOOLEAN /\ r.mailFirst \in BOOLEAN
  /\ r.per \in {"message", "revision", "request", "none"} /\ r.to \in State \cup {""}
  /\ r.mailFirst /\ r.to # "" => r.to \in AfterSend \cup {"manual_attention"}
  /\ ~r.mailFirst => r.row
  /\ r.per = "none" => ~r.mailFirst
  /\ r.to = "researching" => ~r.mailFirst
  /\ r.per = "request" => r.fam = "off_topic"
  /\ r.per = "revision" => r.row \/ r.fam = "verification"

\* The routes that are one of a kind.
Singular(r) ==
  /\ r.fam = "off_topic" <=> r \in OffTopic
  /\ r.fam = "verification" <=> r \in DeleteData
  /\ r.to = "" /\ ~r.mailFirst => r \in ClarifyLimit
  /\ r \in ClarifyLimit => ~r.mailFirst
  /\ r.per = "none" => r \in ClarifyLimit \/ r.to = "researching"

\* A route of its own kind that none of the facts about single families is about.
Ordinary(r) ==
  /\ Sound(r)
  /\ r.fam \notin {"off_topic", "verification", "limit"}
  /\ r.to = "" => r.mailFirst
  /\ r.per = "none" => r.to = "researching"

LEMMA AnswersOrdinary ==
  ASSUME NEW when, NEW fam, NEW to \in AfterSend,
         fam \notin {"off_topic", "verification", "limit"}
  PROVE  Ordinary(Answers(when, fam, to))
  BY DEF Route, Answers, Ordinary, Sound, AfterSend, State, OpenState

LEMMA SettlesOrdinary ==
  ASSUME NEW when, NEW fam, NEW per \in {"message", "revision"}, NEW to \in State,
         fam \notin {"off_topic", "verification", "limit"}
  PROVE  Ordinary(Settles(when, fam, per, to))
  BY DEF Route, Settles, Ordinary, Sound, AfterSend, State, OpenState

LEMMA MailFirstOrdinary ==
  ASSUME NEW when, NEW written \in BOOLEAN, NEW fam, NEW per \in {"message", "revision"},
         NEW to \in AfterSend \cup {""}, per = "revision" => written,
         fam \notin {"off_topic", "verification", "limit"}
  PROVE  Ordinary(Route(when, written, fam, per, to, TRUE))
  BY DEF Route, Ordinary, Sound, AfterSend, State, OpenState

LEMMA OrdinaryRoutes ==
  \A r \in UNION {EntryHelp, Capability, OutsideTickets, ServiceCost, OutcomeReply,
         GamesCompared, SideQuestion, NonUsResident, OutsideProduct, EvidenceFacts,
         QuantityConflict, SuppliedOffers, Decision, SuppliedEvidence, ConcertQuestion,
         GuideFood, BudgetGames, Browse, Abroad, CompareGames, NonUsEvent, WebEvent,
         EventAlertSet, EvidenceUnmatched, LateEntry, GuideOfficial, Clarify,
         ProductChoice, OfficialSale, Research, CancelWatch, OptOut, {DeletionStatus}} : Ordinary(r)
<1> USE AnswersOrdinary, SettlesOrdinary
<1> USE DEF AfterSend, State, OpenState
<1>1. \A r \in EntryHelp \cup OutsideProduct \cup EvidenceFacts \cup Decision : Ordinary(r)
  BY DEF EntryHelp, OutsideProduct, EvidenceFacts, Decision
<1>2. \A r \in SuppliedEvidence \cup ConcertQuestion \cup GuideFood \cup EvidenceUnmatched \cup CancelWatch :
        Ordinary(r)
  BY DEF SuppliedEvidence, ConcertQuestion, GuideFood, EvidenceUnmatched, CancelWatch
<1>3. \A r \in NonUsResident \cup QuantityConflict \cup SuppliedOffers \cup BudgetGames \cup Abroad :
        Ordinary(r)
  BY DEF NonUsResident, QuantityConflict, SuppliedOffers, BudgetGames, Abroad
<1>4. \A r \in CompareGames \cup NonUsEvent \cup EventAlertSet \cup Clarify \cup OfficialSale :
        Ordinary(r)
  BY DEF CompareGames, NonUsEvent, EventAlertSet, Clarify, OfficialSale
<1>5. \A r \in Browse \cup Research : Ordinary(r)
  <2>1. \A r \in Browse : Ordinary(r)
    BY DEF Browse
  <2>2. \A per \in {"revision", "none"} :
          Ordinary(Settles(Either, "default", per, "researching"))
    BY DEF Route, Settles, Ordinary, Sound
  <2>3. \A r \in Research : Ordinary(r)
    BY <2>2 DEF Research
  <2> QED
    BY <2>1, <2>3
<1>6. \A r \in Capability \cup OutsideTickets \cup ServiceCost : Ordinary(r)
  BY MailFirstOrdinary DEF Capability, OutsideTickets, ServiceCost, Beside
<1>7. \A r \in OutcomeReply \cup GamesCompared \cup SideQuestion \cup OptOut \cup {DeletionStatus} :
        Ordinary(r)
  BY MailFirstOrdinary DEF OutcomeReply, GamesCompared, SideQuestion, OptOut, DeletionStatus
<1>8. \A r \in WebEvent \cup LateEntry \cup GuideOfficial \cup ProductChoice : Ordinary(r)
  BY MailFirstOrdinary DEF WebEvent, LateEntry, GuideOfficial, ProductChoice
<1> QED
  BY ONLY <1>1, <1>2, <1>3, <1>4, <1>5, <1>6, <1>7, <1>8

LEMMA Kinds ==
  /\ \A r \in PlainRoutes : r \in OffTopic \/ r \in ClarifyLimit \/ Ordinary(r)
  /\ \A r \in OptOut \cup CancelWatch \cup {DeletionStatus} : Ordinary(r)
<1>1. ASSUME NEW r \in PlainRoutes PROVE r \in OffTopic \/ r \in ClarifyLimit \/ Ordinary(r)
  BY OrdinaryRoutes DEF PlainRoutes
<1>2. ASSUME NEW r \in OptOut \cup CancelWatch \cup {DeletionStatus} PROVE Ordinary(r)
  BY OrdinaryRoutes
<1> QED
  BY <1>1, <1>2

\* Every route that can be taken.
Routes == PlainRoutes \cup OptOut \cup DeleteData \cup CancelWatch \cup {DeletionStatus}

LEMMA RouteFacts ==
  ASSUME NEW r \in Routes
  PROVE  Sound(r) /\ Singular(r)
<1> DEFINE One(x, fam, to, per, first) ==
             Sound(x) /\ x.fam = fam /\ x.to = to /\ x.per = per /\ (x.mailFirst <=> first)
<1>1. \A x \in OffTopic : One(x, "off_topic", "closed", "request", TRUE)
  <2>1. One(Route({"first"}, FALSE, "off_topic", "request", "closed", TRUE),
            "off_topic", "closed", "request", TRUE)
    BY DEF Route, Sound, State, OpenState, AfterSend
  <2> QED
    BY <2>1 DEF OffTopic
<1>2. \A x \in DeleteData : One(x, "verification", "manual_attention", "revision", TRUE)
  <2>1. One(Route(Either, FALSE, "verification", "revision", "manual_attention", TRUE),
            "verification", "manual_attention", "revision", TRUE)
    BY DEF Route, Sound, State, OpenState, AfterSend
  <2> QED
    BY <2>1 DEF DeleteData
<1>3. \A x \in ClarifyLimit : One(x, "limit", "", "none", FALSE)
  <2>1. One(Settles({"later"}, "limit", "none", ""), "limit", "", "none", FALSE)
    BY DEF Settles, Route, Sound, State, OpenState, AfterSend
  <2> QED
    BY <2>1 DEF ClarifyLimit
<1>4. r \in OffTopic \/ r \in DeleteData \/ r \in ClarifyLimit \/ Ordinary(r)
  BY Kinds DEF Routes
<1> QED
  BY <1>1, <1>2, <1>3, <1>4 DEF Ordinary, Singular

LEMMA NoRouteFields ==
  /\ NoRoute.row = FALSE /\ NoRoute.mailFirst = FALSE /\ NoRoute.to = ""
  /\ NoRoute.per = "none" /\ NoRoute.fam = "" /\ NoRoute.when = {}
  BY DEF NoRoute, Route

LEMMA DeletionStatusFields ==
  /\ DeletionStatus \in Routes /\ DeletionStatus # NoRoute
  /\ DeletionStatus.fam = "deletion" /\ DeletionStatus.per = "message"
  /\ DeletionStatus.row = FALSE /\ DeletionStatus.mailFirst = TRUE /\ DeletionStatus.to = ""
<1>1. /\ DeletionStatus.fam = "deletion" /\ DeletionStatus.per = "message"
      /\ DeletionStatus.row = FALSE /\ DeletionStatus.mailFirst = TRUE /\ DeletionStatus.to = ""
  BY DEF DeletionStatus, Route
<1> QED
  BY <1>1, NoRouteFields DEF Routes

LEMMA OffTopicFields ==
  \A r \in OffTopic : /\ r.fam = "off_topic" /\ r.per = "request" /\ r.row = FALSE /\ r.mailFirst = TRUE
                       /\ r.to = "closed" /\ r.to \in State
<1> DEFINE closing == Route({"first"}, FALSE, "off_topic", "request", "closed", TRUE)
<1>1. /\ closing.fam = "off_topic" /\ closing.per = "request" /\ closing.row = FALSE
      /\ closing.mailFirst = TRUE /\ closing.to = "closed"
  BY DEF Route
<1> QED
  BY <1>1 DEF OffTopic, State

LEMMA AllOrNone == AllRoutes = Routes \cup {NoRoute}
  BY DEF AllRoutes, Routes

\* What a message can be answered with: a route that is taken, and deletion only when asked.
LEMMA RoutesForWord ==
  ASSUME NEW word \in Words, NEW r \in RoutesFor(word)
  PROVE  r \in Routes /\ (r.fam = "verification" => word = "delete")
<1>1. \A x \in PlainRoutes \cup OptOut \cup CancelWatch : x.fam # "verification"
  <2>1. \A x \in OffTopic \cup ClarifyLimit : x.fam # "verification"
    <3>1. Route({"first"}, FALSE, "off_topic", "request", "closed", TRUE).fam # "verification"
      BY DEF Route
    <3>2. Settles({"later"}, "limit", "none", "").fam # "verification"
      BY DEF Route, Settles
    <3> QED
      BY <3>1, <3>2 DEF OffTopic, ClarifyLimit
  <2> QED
    BY <2>1, Kinds DEF Ordinary
<1> QED
  BY <1>1 DEF RoutesFor, Routes, Words

-----------------------------------------------------------------------------
(* The types. *)

Label == {"idle", "limit", "limited", "limitMail", "limitAlert", "read", "choose", "effect",
          "stopAll", "deletionPark", "deletionAlert", "row", "revise", "settle", "send", "note",
          "block", "park", "parkMail", "parkAlert", "order", "returned", "threw", "handoff"}

LEMMA FamiliesOfOurs ==
  /\ {"holding", "staff_alert", "limited", "deletion"} \subseteq Family
  /\ \A r \in AllRoutes : r.fam \in Family
<1>1. DeletionStatus \in AllRoutes /\ DeletionStatus.fam = "deletion"
  BY DEF AllRoutes, DeletionStatus, Route
<1> QED
  BY <1>1 DEF Family

LEMMA KeyOfIsKey ==
  ASSUME Typed, NEW m \in Message
  PROVE  /\ IsKey(KeyOf(m)) /\ KeyOf(m)[1] = route.fam
         /\ KeyOf(m)[2] = CASE route.per = "message" -> m [] route.per = "revision" -> at [] OTHER -> 0
  BY FamiliesOfOurs DEF Typed, TypeOK, IsKey, KeyOf

LEMMA TypeInit == ConversationAssumption /\ Init => Typed
<1> SUFFICES ASSUME ConversationAssumption, Init PROVE Typed
  OBVIOUS
<1>1. DOMAIN Empty = {}
  BY DEF Empty
<1>2. /\ mail \in [DOMAIN mail -> Message] /\ alert \in [DOMAIN alert -> Message]
      /\ draft \in [DOMAIN draft -> {"made", "blocked"}] /\ research \in [DOMAIN research -> Message]
  BY <1>1 DEF Init, Empty
<1>3. /\ says \in [Message -> Words] /\ late \subseteq Message
      /\ row \in [Message -> {"absent", "pending", "done", "dead"}]
      /\ tries \in [Message -> 0 .. Budget]
  BY DEF Init, FirstMessage, ConversationAssumption
<1>4. /\ DOMAIN mail = {} /\ DOMAIN alert = {} /\ DOMAIN draft = {} /\ DOMAIN research = {}
  BY <1>1 DEF Init
<1>5. /\ skips \in 0 .. Free /\ faults \in 0 .. MaxFaults /\ acts \in 0 .. MaxActs
      /\ waits \in Message \cup {NoMessage} /\ cur \in Message \cup {NoMessage} /\ hush \subseteq Message
      /\ route \in AllRoutes /\ at \in Nat
  BY DEF Init, ConversationAssumption, AllRoutes
<1>6. state \in State /\ reason = "none" /\ rev = 1 /\ versions = {} /\ pc = "idle" /\ then = "idle"
  BY DEF Init, NewRequest, State, OpenState
<1>7. /\ suppressed \in BOOLEAN /\ ledger \in {"none", "pending", "verified"} /\ told \in BOOLEAN
      /\ refused \in BOOLEAN /\ acked \in BOOLEAN /\ prior \in BOOLEAN /\ cause \in {"reply", "other"}
  BY DEF Init
<1>8. TypeOK
  BY <1>2, <1>3, <1>4, <1>5, <1>6, <1>7 DEF TypeOK
<1> QED
  BY <1>6, <1>8 DEF Typed, InHand, OnRoute, Heading, Reading, Parking

\* What Typed asks of the worker and its message.
Worker ==
  /\ pc \in Label /\ cur \in Message \cup {NoMessage} /\ prior \in BOOLEAN /\ at \in Nat
  /\ route \in AllRoutes /\ cause \in {"reply", "other"}
  /\ then \in {"settle", "order", "note", "returned", "idle"}

LEMMA WorkerTyped == Typed => Worker
  BY DEF Typed, TypeOK, Worker, Label

LEMMA LetGoEffect ==
  ASSUME LetGo("idle")
  PROVE  /\ Worker' /\ pc' = "idle" /\ (InHand' <=> (versions' = {} => rev' = 1)) /\ OnRoute'
<1>1. route' \in AllRoutes
  BY AllOrNone DEF LetGo
<1>2. Worker' /\ pc' = "idle"
  BY <1>1 DEF LetGo, Worker, Label
<1> QED
  BY <1>2 DEF InHand, OnRoute, Heading, Reading, Parking

LEMMA ParkEffect ==
  ASSUME Worker, NEW why \in {"reply", "other"}, NEW next \in {"settle", "order", "note", "returned", "idle"},
         Park(why, next)
  PROVE  Worker' /\ pc' = "park" /\ then' = next /\ Heading' = next /\ UNCHANGED <<cur, prior, at, route>>
  BY DEF Park, Worker, Label, Heading, Parking

LEMMA TypeWaits ==
  ASSUME ConversationAssumption, Typed,
         \/ \E m \in Message : Lease(m) \/ MessageArrives(m) \/ ReplayDead(m)
         \/ StaffReplies \/ NextDay \/ Crash \/ HandOff \/ MarkFailed \/ MarkDispatched
  PROVE  Typed'
<1> USE DEF Typed, Act, Fault, Goto
<1>1. ASSUME NEW m \in Message, Lease(m) PROVE Typed'
  <2>1. prior' \in BOOLEAN /\ (prior' <=> versions # {})
    BY <1>1, Zenon DEF Lease
  <2>2. TypeOK'
    BY <1>1, <2>1 DEF Lease, TypeOK
  <2> QED
    BY <1>1, <2>1, <2>2 DEF Lease, InHand, OnRoute, Heading, Reading, Parking
<1>2. ASSUME NEW m \in Message, MessageArrives(m) PROVE Typed'
  BY <1>2 DEF MessageArrives, TypeOK, InHand, OnRoute, Heading
<1>3. ASSUME NEW m \in Message, ReplayDead(m) PROVE Typed'
  BY <1>3 DEF ReplayDead, TypeOK, InHand, OnRoute, Heading
<1>4. CASE StaffReplies
  BY <1>4 DEF StaffReplies, TypeOK, InHand, OnRoute, Heading, State, OpenState
<1>5. CASE NextDay
  <2>1. skips' \in 0 .. Free /\ acts' \in 0 .. MaxActs
    BY <1>5 DEF NextDay, TypeOK, ConversationAssumption
  <2>2. TypeOK'
    <3>1. told' \in BOOLEAN /\ refused' \in BOOLEAN /\ acked' \in BOOLEAN
      BY <1>5 DEF NextDay
    <3>2. UNCHANGED <<inVars, requestVars, outVars, suppressed, ledger, workVars, hush, waits, faults>>
      BY <1>5 DEF NextDay
    <3> QED
      BY <2>1, <3>1, <3>2 DEF TypeOK
  <2> QED
    BY <1>5, <2>2 DEF NextDay, InHand, OnRoute, Heading
<1>6. CASE Crash
  <2>1. faults' \in 0 .. MaxFaults
    BY <1>6 DEF Crash, TypeOK, ConversationAssumption
  <2>2. TypeOK'
    BY <1>6, <2>1, LetGoEffect DEF Crash, Worker, TypeOK, Label
  <2> QED
    BY <1>6, <2>2, LetGoEffect DEF Crash, InHand
<1>7. CASE HandOff
  <2>1. CASE LetGo("idle")
    BY <1>7, <2>1, LetGoEffect DEF HandOff, Worker, TypeOK, InHand, Label
  <2>2. CASE Park("other", "idle")
    <3>1. TypeOK'
      BY <1>7, <2>2, WorkerTyped, ParkEffect DEF HandOff, Worker, TypeOK, Label
    <3>2. InHand'
      BY <1>7, <2>2, WorkerTyped, ParkEffect DEF HandOff, InHand, Reading
    <3> QED
      BY <2>2, <3>1, <3>2, WorkerTyped, ParkEffect DEF OnRoute
  <2> QED
    BY <1>7, <2>1, <2>2 DEF HandOff
<1>8. CASE MarkFailed
  <2>1. CASE LetGo("idle")
    BY <1>8, <2>1, LetGoEffect DEF MarkFailed, Worker, TypeOK, InHand, Label
  <2>2. CASE Goto("handoff")
    <3>1. TypeOK'
      BY <1>8, <2>2, WorkerTyped DEF MarkFailed, Worker, TypeOK, Label
    <3> QED
      BY <1>8, <2>2, <3>1 DEF MarkFailed, InHand, OnRoute, Heading, Reading, Parking, TypeOK
  <2> QED
    BY <1>8, <2>1, <2>2 DEF MarkFailed
<1>9. CASE MarkDispatched
  <2>1. row' \in [Message -> {"absent", "pending", "done", "dead"}]
    BY <1>9 DEF MarkDispatched, TypeOK
  <2> QED
    BY <1>9, <2>1, LetGoEffect DEF MarkDispatched, Worker, TypeOK, InHand, Label
<1> QED
  BY <1>1, <1>2, <1>3, <1>4, <1>5, <1>6, <1>7, <1>8, <1>9

\* A key that is written; when it was taken, nothing happens.
Written(f, g, k, m) ==
  /\ DOMAIN g = DOMAIN f \cup {k}
  /\ \A x \in DOMAIN f : g[x] = f[x]
  /\ k \notin DOMAIN f => g[k] = m

LEMMA QueueType ==
  ASSUME TypeOK, NEW k, IsKey(k), NEW m \in Message, Queue(k, m)
  PROVE  /\ mail' \in [DOMAIN mail' -> Message] /\ \A x \in DOMAIN mail' : IsKey(x)
         /\ Written(mail, mail', k, m)
<1>1. mail \in [DOMAIN mail -> Message] /\ \A x \in DOMAIN mail : IsKey(x)
  BY DEF TypeOK
<1>2. mail' = Put(mail, k, m)
  BY DEF Queue
<1>3. Written(mail, mail', k, m) /\ mail' \in [DOMAIN mail' -> Message]
  BY <1>1, <1>2 DEF Put, Written
<1> QED
  BY <1>1, <1>3 DEF Written

LEMMA RaiseType ==
  ASSUME TypeOK, NEW k, IsKey(k), NEW m \in Message, Raise(k, m)
  PROVE  /\ alert' \in [DOMAIN alert' -> Message] /\ \A x \in DOMAIN alert' : IsKey(x)
         /\ Written(alert, alert', k, m)
<1>1. alert \in [DOMAIN alert -> Message] /\ \A x \in DOMAIN alert : IsKey(x)
  BY DEF TypeOK
<1>2. alert' = Put(alert, k, m)
  BY DEF Raise
<1>3. Written(alert, alert', k, m) /\ alert' \in [DOMAIN alert' -> Message]
  BY <1>1, <1>2 DEF Put, Written
<1> QED
  BY <1>1, <1>3 DEF Written

\* The keys that are written outside the routes.
LEMMA OurKeys ==
  /\ IsKey(FirstHolding) /\ IsKey(<<"deletion", 0>>)
  /\ \A m \in Message : IsKey(Holding(m)) /\ IsKey(<<"staff_alert", m>>)
  /\ \A n \in Nat : IsKey(<<"staff_alert", n>>) /\ IsKey(<<"limited", n>>)
  BY FamiliesOfOurs DEF IsKey, FirstHolding, Holding

LEMMA TransitionType ==
  ASSUME TypeOK, NEW to \in State, Transition(to)
  PROVE  state' \in State /\ reason' \in {"none", "reply", "other"}
  BY DEF Transition, TypeOK

LEMMA TypeReads ==
  ASSUME ConversationAssumption, Typed,
         WithinLimits \/ OverLimit \/ LimitIsTold \/ Read \/ ConfirmDeletion \/ Choose \/ Effect
  PROVE  Typed'
<1> USE WorkerTyped
<1> USE DEF Typed, Fault, Goto
<1>1. CASE WithinLimits
  <2>1. skips' \in 0 .. Free
    BY <1>1 DEF WithinLimits, Exempt, TypeOK, ConversationAssumption
  <2>2. TypeOK'
    BY <1>1, <2>1 DEF WithinLimits, TypeOK
  <2> QED
    BY <1>1, <2>2 DEF WithinLimits, InHand, OnRoute, Heading, Reading, Parking
<1>2. CASE OverLimit
  <2>1. told' \in BOOLEAN /\ hush' \subseteq Message
    BY <1>2 DEF OverLimit, TypeOK, InHand
  <2>2. pc' \in {"returned", "limited"} /\ UNCHANGED <<cur, prior, at, route, cause, then>>
    BY <1>2 DEF OverLimit
  <2>3. TypeOK'
    BY <1>2, <2>1, <2>2 DEF OverLimit, TypeOK
  <2> QED
    BY <1>2, <2>2, <2>3 DEF OverLimit, InHand, OnRoute, Heading, Reading, Parking
<1>3. CASE LimitIsTold
  <2>1. state' \in State /\ reason' \in {"none", "reply", "other"}
    BY <1>3, TransitionType DEF LimitIsTold, TellLimit, TypeOK, State, OpenState
  <2>2. cur \in Message /\ pc' \in {"limitMail", "limitAlert", "returned"}
    BY <1>3 DEF LimitIsTold, TellLimit, InHand
  <2>3. /\ mail' \in [DOMAIN mail' -> Message] /\ alert' \in [DOMAIN alert' -> Message]
        /\ \A k \in DOMAIN mail' \cup DOMAIN alert' : IsKey(k)
    <3>1. CASE Queue(FirstHolding, cur) /\ UNCHANGED alert
      BY <2>2, <3>1, QueueType, OurKeys DEF TypeOK
    <3>2. CASE Raise(<<"limited", at>>, cur) /\ UNCHANGED mail
      BY <2>2, <3>2, RaiseType, OurKeys DEF TypeOK
    <3> QED
      BY <1>3, <3>1, <3>2 DEF LimitIsTold, TellLimit, TypeOK
  <2>4. TypeOK'
    BY <1>3, <2>1, <2>2, <2>3 DEF LimitIsTold, TellLimit, TypeOK
  <2> QED
    BY <1>3, <2>2, <2>4 DEF LimitIsTold, TellLimit, InHand, OnRoute, Heading, Reading, Parking
<1>4. CASE Read
  <2>1. CASE ledger # "none" /\ says[cur] \in {"confirm", "delete"}
    <3>1. /\ route' = DeletionStatus /\ DeletionStatus \in Routes /\ DeletionStatus # NoRoute
          /\ DeletionStatus.per = "message" /\ ~DeletionStatus.row
      BY <1>4, <2>1, DeletionStatusFields DEF Read
    <3>2. /\ pc' \in {"stopAll", "send"} /\ UNCHANGED <<cur, prior, at, cause, then, faults>>
          /\ ledger' \in {"none", "pending", "verified"}
      BY <1>4, <2>1 DEF Read, TypeOK
    <3>3. TypeOK'
      BY <1>4, <3>1, <3>2, AllOrNone DEF Read, TypeOK
    <3> QED
      BY <1>4, <3>1, <3>2, <3>3 DEF Read, InHand, OnRoute, Heading, Reading, Parking
  <2>2. CASE ~(ledger # "none" /\ says[cur] \in {"confirm", "delete"})
    <3>1. faults' \in 0 .. MaxFaults /\ UNCHANGED ledger
      BY <1>4, <2>2 DEF Read, TypeOK, ConversationAssumption
    <3>2. CASE Park("other", "returned")
      <4>1. TypeOK'
        BY <1>4, <3>1, <3>2, ParkEffect DEF Read, TypeOK, Worker, Label
      <4> QED
        BY <1>4, <3>2, <4>1, ParkEffect DEF Read, InHand, OnRoute, Reading, Parking
    <3>3. CASE pc' \in {"choose", "threw"} /\ UNCHANGED <<cur, prior, at, route, cause, then>>
      <4>1. TypeOK'
        BY <1>4, <3>1, <3>3 DEF Read, TypeOK
      <4> QED
        BY <1>4, <3>3, <4>1 DEF Read, InHand, OnRoute, Heading, Reading, Parking
    <3> QED
      BY <1>4, <2>2, <3>2, <3>3 DEF Read
  <2> QED
    BY <2>1, <2>2
<1>5. CASE ConfirmDeletion
  <2>1. state' \in State /\ reason' \in {"none", "reply", "other"} /\ suppressed' \in BOOLEAN
    BY <1>5, TransitionType DEF ConfirmDeletion, TypeOK, State, OpenState
  <2>2. cur \in Message /\ pc' \in {"deletionPark", "deletionAlert", "send"} /\ route = DeletionStatus
    BY <1>5 DEF ConfirmDeletion, InHand, OnRoute
  <2>3. alert' \in [DOMAIN alert' -> Message] /\ \A k \in DOMAIN alert' : IsKey(k)
    <3>1. CASE Raise(<<"deletion", 0>>, cur)
      BY <2>2, <3>1, RaiseType, OurKeys
    <3> QED
      BY <1>5, <3>1 DEF ConfirmDeletion, TypeOK
  <2>4. TypeOK'
    BY <1>5, <2>1, <2>2, <2>3 DEF ConfirmDeletion, TypeOK
  <2> QED
    BY <1>5, <2>2, <2>4, DeletionStatusFields DEF ConfirmDeletion, InHand, OnRoute, Heading, Reading, Parking
<1>6. CASE Choose
  <2>1. route' \in Routes /\ route' # NoRoute
    <3>1. says[cur] \in Words
      BY <1>6 DEF Choose, TypeOK, InHand
    <3>2. PICK r \in RoutesFor(says[cur]) : r.when # {} /\ route' = r
      BY <1>6 DEF Choose
    <3> QED
      BY <3>1, <3>2, RoutesForWord, NoRouteFields
  <2>2. TypeOK'
    BY <1>6, <2>1, AllOrNone DEF Choose, TypeOK
  <2>3. InHand'
    BY <1>6 DEF Choose, InHand, Reading
  <2>4. OnRoute'
    BY <1>6, <2>1 DEF Choose, OnRoute, Heading, Parking
  <2> QED
    BY <2>2, <2>3, <2>4
<1>7. CASE Effect
  <2>1. /\ suppressed' \in BOOLEAN /\ ledger' \in {"none", "pending", "verified"}
        /\ hush' \subseteq Message
    BY <1>7 DEF Effect, TypeOK, InHand
  <2>2. route \in Routes /\ Sound(route) /\ Singular(route)
    BY <1>7, AllOrNone, RouteFacts DEF Effect, TypeOK, OnRoute
  <2>3. /\ pc' \in {"row", "settle", "send"} /\ UNCHANGED <<cur, prior, at, route, cause, then>>
        /\ pc' = "row" <=> route.row
        /\ pc' = "settle" => route.fam = "off_topic"
    BY <1>7, <2>2 DEF Effect, Begins, Sound
  <2>4. TypeOK'
    BY <1>7, <2>1, <2>3 DEF Effect, TypeOK
  <2>5. InHand'
    BY <1>7, <2>3 DEF Effect, InHand, Reading
  <2>6. /\ pc' = "send" => route.per # "none"
        /\ pc' = "settle" => route.to \in State /\ ~route.row
    BY <2>2, <2>3, OffTopicFields DEF Sound, Singular
  <2>7. Heading' = pc' /\ route # NoRoute
    BY <1>7, <2>3 DEF Effect, OnRoute, Heading, Parking
  <2> QED
    BY <2>3, <2>4, <2>5, <2>6, <2>7 DEF OnRoute, Parking
<1> QED
  BY <1>1, <1>2, <1>3, <1>4, <1>5, <1>6, <1>7

\* After its mail, a route that is taken goes on to one of these.
LEMMA AfterMailEffect ==
  ASSUME Typed, pc \in {"send", "block"}
  PROVE  /\ AfterMail \in {"note", "settle", "order", "returned"}
         /\ AfterMail = "settle" => route.mailFirst /\ route # NoRoute /\ route.to \in State
         /\ AfterMail = "order" => route.row /\ route # NoRoute
         /\ AfterMail = "note" => route \in OffTopic
<1>1. ASSUME route # NoRoute PROVE Sound(route) /\ Singular(route)
  BY <1>1, AllOrNone, RouteFacts DEF Typed, TypeOK
<1> QED
  BY <1>1, NoRouteFields DEF AfterMail, Sound, Singular

LEMMA TypeRow ==
  ASSUME ConversationAssumption, Typed, WriteVersion \/ SetRevision \/ Settle
  PROVE  Typed'
<1> USE WorkerTyped
<1> USE DEF Typed, Goto
<1>1. CASE WriteVersion
  <2>1. CASE pc' = "threw" /\ UNCHANGED <<versions, cur, prior, at, route, cause, then>>
    <3>1. TypeOK'
      BY <1>1, <2>1 DEF WriteVersion, TypeOK
    <3> QED
      BY <1>1, <2>1, <3>1 DEF WriteVersion, InHand, OnRoute, Heading, Reading, Parking
  <2>2. CASE \E n \in {1, at + 1} :
               /\ versions' = versions \cup {n} /\ pc' = "revise" /\ at' = n
               /\ n = 1 => rev = 1 /\ versions = {}
               /\ UNCHANGED <<cur, prior, route, cause, then>>
    <3>1. PICK n \in {1, at + 1} :
               /\ versions' = versions \cup {n} /\ pc' = "revise" /\ at' = n
               /\ n = 1 => rev = 1 /\ versions = {}
               /\ UNCHANGED <<cur, prior, route, cause, then>>
      BY <2>2
    <3>2. at = rev /\ rev \in Nat \ {0} /\ versions \subseteq 1 .. rev + 1
      BY <1>1 DEF WriteVersion, InHand, Reading, TypeOK
    <3>3. versions' \subseteq 1 .. rev + 1 /\ versions' \subseteq 1 .. at' /\ at' \in versions' /\ at' \in Nat
      BY <3>1, <3>2
    <3>4. TypeOK'
      BY <1>1, <3>1, <3>3 DEF WriteVersion, TypeOK
    <3> QED
      BY <1>1, <3>1, <3>3, <3>4 DEF WriteVersion, InHand, OnRoute, Heading, Reading, Parking
  <2>3. at = rev /\ (prior <=> versions # {}) /\ (versions = {} => rev = 1) /\ at \in Nat
    BY <1>1 DEF WriteVersion, InHand, Reading, TypeOK
  <2>4. /\ prior \/ route \in EvidenceFacts => at + 1 # 1
        /\ ~prior => rev = 1 /\ versions = {}
    <3>1. at \in Nat \ {0}
      BY <2>3 DEF TypeOK
    <3> QED
      BY <2>3, <3>1
  <2> QED
    BY <1>1, <2>1, <2>2, <2>4 DEF WriteVersion
<1>2. CASE SetRevision
  <2>1. rev' = at /\ at \in versions /\ versions \subseteq 1 .. at /\ at \in Nat \ {0} /\ route.row
        /\ route # NoRoute
    BY <1>2 DEF SetRevision, InHand, OnRoute, TypeOK
  <2>2. Sound(route) /\ Singular(route)
    BY <2>1, AllOrNone, RouteFacts DEF TypeOK
  <2>3. CASE Park("other", "returned")
    <3>1. TypeOK'
      BY <1>2, <2>1, <2>3, ParkEffect DEF SetRevision, TypeOK, Worker, Label
    <3> QED
      BY <1>2, <2>1, <2>3, <3>1, ParkEffect DEF SetRevision, InHand, OnRoute, Reading, Parking
  <2>4. CASE /\ pc' = IF route.mailFirst THEN "send" ELSE "settle"
             /\ route \notin ClarifyLimit /\ UNCHANGED <<cur, prior, at, route, cause, then>>
    <3>1. TypeOK'
      BY <1>2, <2>1, <2>4 DEF SetRevision, TypeOK
    <3>2. /\ pc' = "send" => route.per # "none"
          /\ pc' = "settle" => route.to \in State
      BY <2>2, <2>4 DEF Sound, Singular
    <3> QED
      BY <1>2, <2>1, <2>4, <3>1, <3>2 DEF SetRevision, InHand, OnRoute, Heading, Reading, Parking
  <2> QED
    BY <1>2, <2>3, <2>4 DEF SetRevision
<1>3. CASE Settle
  <2>1. route # NoRoute /\ route.to \in State /\ (route.row => at \in versions)
    BY <1>3 DEF Settle, OnRoute, Heading, Parking
  <2>2. Sound(route)
    BY <2>1, AllOrNone, RouteFacts DEF TypeOK
  <2>3. TypeOK'
    BY <1>3, <2>1, TransitionType DEF Settle, TypeOK
  <2> QED
    BY <1>3, <2>1, <2>2, <2>3 DEF Settle, InHand, OnRoute, Heading, Reading, Parking, Sound
<1> QED
  BY <1>1, <1>2, <1>3

LEMMA TypeWrites ==
  ASSUME ConversationAssumption, Typed,
         Send \/ BlockDraft \/ NoteRefusal \/ OrderResearch \/ ParkState \/ ParkMail \/ ParkAlert
  PROVE  Typed'
<1> USE WorkerTyped
<1> USE DEF Typed, Goto
<1>1. CASE Send
  <2>1. /\ cur \in Message /\ AfterMail \in {"note", "settle", "order", "returned"} /\ route # NoRoute
        /\ AfterMail = "settle" => route.mailFirst /\ route.to \in State
        /\ AfterMail = "order" => at \in versions
        /\ AfterMail = "note" => route \in OffTopic
        /\ route.row => at \in versions
    BY <1>1, AfterMailEffect DEF Send, InHand, OnRoute
  <2>2. CASE Queue(KeyOf(cur), cur) /\ Goto(AfterMail) /\ UNCHANGED <<draft, waits>>
    <3>1. mail' \in [DOMAIN mail' -> Message] /\ \A k \in DOMAIN mail' : IsKey(k)
      BY <2>1, <2>2, KeyOfIsKey, QueueType
    <3>2. TypeOK'
      BY <1>1, <2>1, <2>2, <3>1 DEF Send, TypeOK
    <3> QED
      BY <1>1, <2>1, <2>2, <3>2 DEF Send, InHand, OnRoute, Heading, Reading, Parking
  <2>3. CASE /\ draft' = Put(draft, cur, "made") /\ waits' = cur
             /\ pc' = "block" /\ then' = AfterMail /\ UNCHANGED <<cur, prior, at, route, cause, mail>>
    <3>1. draft' \in [DOMAIN draft' -> {"made", "blocked"}] /\ DOMAIN draft' \subseteq Message
      BY <2>1, <2>3 DEF Put, TypeOK
    <3>2. TypeOK'
      BY <1>1, <2>1, <2>3, <3>1 DEF Send, TypeOK
    <3> QED
      BY <1>1, <2>1, <2>3, <3>2 DEF Send, InHand, OnRoute, Heading, Reading, Parking
  <2>4. CASE Park("reply", AfterMail) /\ waits' = cur /\ UNCHANGED <<mail, draft>>
    <3>1. TypeOK'
      BY <1>1, <2>1, <2>4, ParkEffect DEF Send, TypeOK, Worker, Label
    <3> QED
      BY <1>1, <2>1, <2>4, <3>1, ParkEffect DEF Send, InHand, OnRoute, Reading, Parking
  <2> QED
    BY <1>1, <2>2, <2>3, <2>4 DEF Send
<1>2. CASE BlockDraft
  <2>1. draft' \in [DOMAIN draft' -> {"made", "blocked"}] /\ DOMAIN draft' = DOMAIN draft
    BY <1>2 DEF BlockDraft, TypeOK
  <2>2. TypeOK'
    BY <1>2, <2>1, ParkEffect DEF BlockDraft, TypeOK, Worker, Label
  <2>3. InHand' /\ Heading = then /\ then # "idle"
    BY <1>2, ParkEffect, <2>2 DEF BlockDraft, InHand, OnRoute, Heading, Reading, TypeOK
  <2> QED
    BY <1>2, <2>2, <2>3, ParkEffect DEF BlockDraft, OnRoute, Parking, TypeOK
<1>3. CASE NoteRefusal
  <2>1. route # NoRoute /\ route.to \in State /\ ~route.row /\ refused' \in BOOLEAN
    BY <1>3, OffTopicFields, NoRouteFields DEF NoteRefusal, OnRoute, Heading, Parking
  <2>2. TypeOK'
    BY <1>3, <2>1 DEF NoteRefusal, TypeOK
  <2> QED
    BY <1>3, <2>1, <2>2 DEF NoteRefusal, InHand, OnRoute, Heading, Reading, Parking
<1>4. CASE OrderResearch
  <2>1. at \in versions /\ cur \in Message
    BY <1>4 DEF OrderResearch, InHand, OnRoute, Heading, Parking
  <2>2. research' \in [DOMAIN research' -> Message] /\ DOMAIN research' \subseteq versions
    BY <1>4, <2>1 DEF OrderResearch, Put, TypeOK
  <2>3. TypeOK'
    BY <1>4, <2>2 DEF OrderResearch, TypeOK
  <2> QED
    BY <1>4, <2>3 DEF OrderResearch, InHand, OnRoute, Heading, Reading, Parking
<1>5. CASE ParkState
  <2>1. TypeOK'
    BY <1>5 DEF ParkState, TypeOK, State, OpenState
  <2> QED
    BY <1>5, <2>1 DEF ParkState, InHand, OnRoute, Heading, Reading, Parking
<1>6. CASE ParkMail
  <2>1. cur \in Message
    BY <1>6 DEF ParkMail, InHand
  <2>2. mail' \in [DOMAIN mail' -> Message] /\ \A k \in DOMAIN mail' : IsKey(k)
    <3>1. CASE Queue(Holding(cur), cur) \/ Queue(FirstHolding, cur)
      BY <2>1, <3>1, QueueType, OurKeys
    <3> QED
      BY <1>6, <3>1 DEF ParkMail, TypeOK
  <2>3. acked' \in BOOLEAN
    BY <1>6 DEF ParkMail, TypeOK
  <2>4. TypeOK'
    BY <1>6, <2>2, <2>3 DEF ParkMail, TypeOK
  <2> QED
    BY <1>6, <2>4 DEF ParkMail, InHand, OnRoute, Heading, Reading, Parking
<1>7. CASE ParkAlert
  <2>1. cur \in Message
    BY <1>7 DEF ParkAlert, InHand
  <2>2. alert' \in [DOMAIN alert' -> Message] /\ \A k \in DOMAIN alert' : IsKey(k)
    BY <1>7, <2>1, RaiseType, OurKeys DEF ParkAlert, TypeOK
  <2>3. CASE LetGo("idle")
    BY <1>7, <2>2, <2>3, LetGoEffect DEF ParkAlert, TypeOK, Worker, InHand, Label
  <2>4. CASE Goto(then) /\ then # "idle"
    <3>1. TypeOK'
      BY <1>7, <2>2, <2>4 DEF ParkAlert, TypeOK
    <3> QED
      BY <1>7, <2>4, <3>1 DEF ParkAlert, TypeOK, InHand, OnRoute, Heading, Reading, Parking
  <2> QED
    BY <1>7, <2>3, <2>4 DEF ParkAlert
<1> QED
  BY <1>1, <1>2, <1>3, <1>4, <1>5, <1>6, <1>7

LEMMA TypeStep ==
  ASSUME ConversationAssumption, Typed, [Next]_vars
  PROVE  Typed'
<1>1. CASE UNCHANGED vars
  BY <1>1 DEF vars, Typed, TypeOK, InHand, OnRoute, Heading, IsKey
<1> QED
  BY <1>1, TypeWaits, TypeReads, TypeRow, TypeWrites DEF Next

-----------------------------------------------------------------------------
(* A held reply. *)

\* Steps of a message for which nothing was held so far.
LEMMA NothingHeld ==
  ASSUME HeldStays, UNCHANGED waits,
         pc \notin Parking \cup {"block", "note", "settle", "order", "returned", "idle"}
  PROVE  HeldStays' /\ HeldWaitsForAPerson'
  BY DEF HeldStays, HeldWaitsForAPerson

LEMMA HeldReads ==
  ASSUME Typed, HeldStays, HeldWaitsForAPerson,
         \/ WithinLimits \/ OverLimit \/ LimitIsTold \/ Read \/ ConfirmDeletion \/ Choose \/ Effect
         \/ WriteVersion \/ SetRevision \/ MarkFailed \/ HandOff
  PROVE  HeldStays' /\ HeldWaitsForAPerson'
<1>1. UNCHANGED waits
  BY DEF WithinLimits, OverLimit, LimitIsTold, Read, ConfirmDeletion, Choose, Effect,
         WriteVersion, SetRevision, MarkFailed, HandOff
<1>2. pc \in Reading \cup {"stopAll", "deletionPark", "deletionAlert", "revise", "threw", "handoff"}
  BY DEF WithinLimits, OverLimit, LimitIsTold, TellLimit, Read, ConfirmDeletion, Choose, Effect,
         WriteVersion, SetRevision, MarkFailed, HandOff, Reading
<1> QED
  BY <1>1, <1>2, NothingHeld DEF Reading, Parking

\* A message in the worker's hands is not done.
LEMMA NotDone ==
  ASSUME Typed, HeldStays, pc # "idle", waits # NoMessage
  PROVE  waits = cur /\ cur \in Message /\ row[waits] # "done"
  BY DEF Typed, InHand, HeldStays

LEMMA HeldWrites ==
  ASSUME ConversationAssumption, Typed, HeldStays, HeldWaitsForAPerson,
         Send \/ BlockDraft \/ ParkState \/ ParkMail \/ ParkAlert \/ Settle \/ NoteRefusal \/ OrderResearch
  PROVE  HeldStays' /\ HeldWaitsForAPerson'
<1> USE DEF Typed, Goto
<1>1. /\ cur \in Message /\ row[cur] # "done" /\ UNCHANGED row /\ pc # "idle"
      /\ \A k \in Message : row[k] # "done" => row'[k] # "done"
  BY DEF Send, BlockDraft, ParkState, ParkMail, ParkAlert, Settle, NoteRefusal, OrderResearch, InHand
<1>2. CASE Send
  <2>1. waits' \in {NoMessage, cur}
    BY <1>2 DEF Send, HeldStays, Parking
  <2>2. HeldWaitsForAPerson'
    BY <1>1, <2>1 DEF HeldWaitsForAPerson
  <2>3. waits' = cur => /\ pc' \in {"block", "park"} /\ cur' = cur /\ Heading' = AfterMail
                        /\ pc' = "park" => cause' = "reply"
                        /\ route' = route
    BY <1>2, <2>1, WorkerTyped, ParkEffect, AfterMailEffect, <1>1
    DEF Send, Park, Heading, Parking, HeldStays, ConversationAssumption
  <2>4. HeldStays'
    BY <1>2, <2>1, <2>3, AfterMailEffect DEF Send, HeldStays, Parking
  <2> QED
    BY <2>2, <2>4
<1>3. CASE BlockDraft
  <2>1. UNCHANGED <<waits, state, reason>> /\ pc' = "park" /\ cause' = "reply" /\ Heading' = Heading
        /\ UNCHANGED <<cur, route>> /\ waits \in {NoMessage, cur}
    BY <1>3 DEF BlockDraft, Park, Heading, Parking, HeldStays
  <2> QED
    BY <1>1, <1>3, <2>1 DEF BlockDraft, HeldStays, HeldWaitsForAPerson, Parking
<1>4. CASE ParkState
  BY <1>1, <1>4 DEF ParkState, HeldStays, HeldWaitsForAPerson, Heading, Parking
<1>5. CASE ParkMail
  BY <1>1, <1>5 DEF ParkMail, HeldStays, HeldWaitsForAPerson, Heading, Parking
<1>6. CASE ParkAlert
  <2>1. UNCHANGED <<waits, state, reason>>
    BY <1>6 DEF ParkAlert
  <2>2. CASE LetGo("idle")
    BY <1>1, <1>6, <2>1, <2>2, LetGoEffect DEF HeldStays, HeldWaitsForAPerson, Heading, Parking
  <2>3. CASE then # "idle"
    <3>1. then \in {"settle", "order", "note", "returned"} /\ pc' = then /\ UNCHANGED <<cur, route>>
      BY <1>6, <2>3 DEF ParkAlert, TypeOK
    <3> QED
      BY <1>1, <1>6, <2>1, <3>1 DEF ParkAlert, HeldStays, HeldWaitsForAPerson, Heading, Parking
  <2> QED
    BY <1>6, <2>2, <2>3 DEF ParkAlert
<1>7. CASE Settle
  <2>1. CASE waits = NoMessage
    BY <1>7, <2>1 DEF Settle, HeldStays, HeldWaitsForAPerson
  <2>2. CASE waits # NoMessage
    <3>1. /\ route.mailFirst /\ state = "manual_attention" /\ reason = "reply" /\ waits = cur
          /\ route # NoRoute /\ route.to \in State
      BY <1>7, <2>2 DEF Settle, HeldStays, Heading, Parking, OnRoute
    <3>2. route.to \in AfterSend \cup {"manual_attention"}
      BY <3>1, AllOrNone, RouteFacts DEF TypeOK, Sound, State, OpenState
    <3>3. state' = "manual_attention" /\ pc' = "returned" /\ UNCHANGED <<waits, cur>>
      BY <1>7, <3>1, <3>2 DEF Settle, Transition
    <3> QED
      BY <1>1, <3>1, <3>3 DEF HeldStays, HeldWaitsForAPerson, Heading, Parking
  <2> QED
    BY <2>1, <2>2
<1>8. CASE NoteRefusal
  <2>1. route.mailFirst
    BY <1>8, OffTopicFields DEF NoteRefusal, OnRoute, Heading, Parking
  <2> QED
    BY <1>1, <1>8, <2>1 DEF NoteRefusal, HeldStays, HeldWaitsForAPerson, Heading, Parking
<1>9. CASE OrderResearch
  BY <1>1, <1>9 DEF OrderResearch, HeldStays, HeldWaitsForAPerson, Heading, Parking
<1> QED
  BY <1>2, <1>3, <1>4, <1>5, <1>6, <1>7, <1>8, <1>9

LEMMA HeldWaits ==
  ASSUME ConversationAssumption, Typed, HeldStays, HeldWaitsForAPerson,
         \/ \E m \in Message : Lease(m) \/ MessageArrives(m) \/ ReplayDead(m)
         \/ StaffReplies \/ NextDay \/ Crash \/ MarkDispatched \/ UNCHANGED vars
  PROVE  HeldStays' /\ HeldWaitsForAPerson'
<1> USE DEF Typed, Goto
<1>1. CASE \E m \in Message : Lease(m)
  BY <1>1 DEF Lease, HeldStays, HeldWaitsForAPerson
<1>2. ASSUME NEW m \in Message, MessageArrives(m) PROVE HeldStays' /\ HeldWaitsForAPerson'
  BY <1>2 DEF MessageArrives, HeldStays, HeldWaitsForAPerson, Heading, TypeOK
<1>3. ASSUME NEW m \in Message, ReplayDead(m) PROVE HeldStays' /\ HeldWaitsForAPerson'
  BY <1>3 DEF ReplayDead, HeldStays, HeldWaitsForAPerson, Heading, TypeOK
<1>4. CASE StaffReplies
  BY <1>4 DEF StaffReplies, HeldStays, HeldWaitsForAPerson
<1>5. CASE NextDay
  BY <1>5 DEF NextDay, HeldStays, HeldWaitsForAPerson, Heading
<1>6. CASE Crash
  BY <1>6, LetGoEffect, NotDone DEF Crash, HeldStays, HeldWaitsForAPerson, Heading, Parking
<1>7. CASE MarkDispatched
  <2>1. /\ waits = NoMessage \/ (waits = cur /\ state = "manual_attention")
        /\ UNCHANGED <<waits, state, reason>> /\ pc' = "idle"
    BY <1>7, LetGoEffect DEF MarkDispatched, HeldStays
  <2> QED
    BY <2>1 DEF HeldStays, HeldWaitsForAPerson, Heading, Parking
<1>8. CASE UNCHANGED vars
  BY <1>8 DEF vars, HeldStays, HeldWaitsForAPerson, Heading
<1> QED
  BY <1>1, <1>2, <1>3, <1>4, <1>5, <1>6, <1>7, <1>8

LEMMA HeldStep ==
  ASSUME ConversationAssumption, Typed, HeldStays, HeldWaitsForAPerson, [Next]_vars
  PROVE  HeldStays' /\ HeldWaitsForAPerson'
  BY HeldReads, HeldWrites, HeldWaits DEF Next

-----------------------------------------------------------------------------
(* The keys. *)

\* What is written stays as it was written, and a message that came in before the first
\* hand-off reply did so for ever.
Kept ==
  /\ \A k \in DOMAIN mail : k \in DOMAIN mail' /\ mail'[k] = mail[k]
  /\ \A k \in DOMAIN alert : k \in DOMAIN alert' /\ alert'[k] = alert[k]
  /\ \A r \in DOMAIN research : r \in DOMAIN research' /\ research'[r] = research[r]
  /\ hush \subseteq hush'
  /\ \A m \in Message : row[m] # "absent" /\ m \notin late => m \notin late'

\* Steps that queue no mail and raise no alert.
NothingWritten == UNCHANGED <<mail, alert>> /\ versions \subseteq versions'

LEMMA WrittenOnlyThen ==
  ASSUME Typed, [Next]_vars
  PROVE  \/ NothingWritten
         \/ /\ pc = "limitMail" /\ Queue(FirstHolding, cur) /\ UNCHANGED <<alert, versions>>
            /\ pc' = "limitAlert"
         \/ /\ pc = "limitAlert" /\ Raise(<<"limited", at>>, cur) /\ UNCHANGED <<mail, versions>>
            /\ pc' = "returned"
         \/ /\ pc = "deletionAlert" /\ Raise(<<"deletion", 0>>, cur) /\ UNCHANGED <<mail, versions>>
            /\ pc' = "send" /\ UNCHANGED route
         \/ /\ pc = "send" /\ Queue(KeyOf(cur), cur) /\ Goto(AfterMail) /\ UNCHANGED <<alert, versions>>
         \/ ParkMail
         \/ ParkAlert
<1> USE DEF NothingWritten
<1>1. ASSUME \E m \in Message : Lease(m) \/ MessageArrives(m) \/ ReplayDead(m) PROVE NothingWritten
  BY <1>1 DEF Lease, MessageArrives, ReplayDead
<1>2. ASSUME WithinLimits \/ OverLimit \/ Read \/ Choose \/ Effect PROVE NothingWritten
  BY <1>2 DEF WithinLimits, OverLimit, Read, Choose, Effect
<1>3. ASSUME WriteVersion \/ SetRevision \/ Settle \/ BlockDraft \/ NoteRefusal \/ OrderResearch
      PROVE  NothingWritten
  BY <1>3 DEF WriteVersion, SetRevision, Settle, BlockDraft, NoteRefusal, OrderResearch
<1>4. ASSUME ParkState \/ MarkDispatched \/ MarkFailed \/ HandOff \/ Crash \/ StaffReplies \/ NextDay
             \/ UNCHANGED vars
      PROVE  NothingWritten
  BY <1>4 DEF ParkState, MarkDispatched, MarkFailed, HandOff, Crash, StaffReplies, NextDay, vars
<1>5. CASE LimitIsTold
  BY <1>5 DEF LimitIsTold, TellLimit, Goto
<1>6. CASE ConfirmDeletion
  BY <1>6 DEF ConfirmDeletion, Goto
<1>7. CASE Send
  BY <1>7 DEF Send
<1> QED
  BY <1>1, <1>2, <1>3, <1>4, <1>5, <1>6, <1>7 DEF Next

\* A key written for message m: if it is a message's, it is m's.
Own(k, m) == IsKey(k) /\ (k[2] \in Message => k[2] = m)

LEMMA OwnKeys ==
  ASSUME ConversationAssumption, NEW m \in Message
  PROVE  /\ Own(FirstHolding, m) /\ Own(Holding(m), m) /\ Own(<<"staff_alert", m>>, m)
         /\ Own(<<"deletion", 0>>, m)
         /\ \A n \in Nat : Own(<<"staff_alert", n>>, m) /\ Own(<<"limited", n>>, m)
  BY OurKeys DEF Own, FirstHolding, Holding, ConversationAssumption

LEMMA OwnKeyOf ==
  ASSUME ConversationAssumption, Typed, NEW m \in Message
  PROVE  Own(KeyOf(m), m)
  BY KeyOfIsKey DEF Own, Typed, TypeOK, ConversationAssumption

\* Of what the key of a revision, or none, is.
Registered(k) == k[1] = "verification" \/ k[2] \in versions \cup {0} \cup Message

LEMMA QueueKeeps ==
  ASSUME Typed, KeysOfMessages, KeysOfRevisions, NEW m \in Message, NEW k, Own(k, m), Registered(k),
         Queue(k, m), UNCHANGED <<alert, versions>>
  PROVE  KeysOfMessages' /\ KeysOfRevisions'
<1>1. Written(mail, mail', k, m)
  BY QueueType DEF Typed, Own
<1> QED
  BY <1>1 DEF Written, KeysOfMessages, KeysOfRevisions, Own, Registered

LEMMA RaiseKeeps ==
  ASSUME Typed, KeysOfMessages, KeysOfRevisions, NEW m \in Message, NEW k, Own(k, m),
         Raise(k, m), UNCHANGED <<mail, versions>>
  PROVE  KeysOfMessages' /\ KeysOfRevisions'
<1>1. Written(alert, alert', k, m)
  BY RaiseType DEF Typed, Own
<1> QED
  BY <1>1 DEF Written, KeysOfMessages, KeysOfRevisions, Own

LEMMA KeysStep ==
  ASSUME ConversationAssumption, Typed, KeysOfMessages, KeysOfRevisions, [Next]_vars
  PROVE  KeysOfMessages' /\ KeysOfRevisions'
<1>1. pc # "idle" => cur \in Message
  BY DEF Typed, InHand
<1>2. CASE NothingWritten
  BY <1>2 DEF NothingWritten, KeysOfMessages, KeysOfRevisions
<1>3. CASE pc = "limitMail" /\ Queue(FirstHolding, cur) /\ UNCHANGED <<alert, versions>>
  BY <1>1, <1>3, OwnKeys, QueueKeeps DEF Registered, FirstHolding
<1>4. CASE pc = "limitAlert" /\ Raise(<<"limited", at>>, cur) /\ UNCHANGED <<mail, versions>>
  BY <1>1, <1>4, OwnKeys, RaiseKeeps DEF Typed, TypeOK
<1>5. CASE pc = "deletionAlert" /\ Raise(<<"deletion", 0>>, cur) /\ UNCHANGED <<mail, versions>>
  BY <1>1, <1>5, OwnKeys, RaiseKeeps
<1>6. CASE pc = "send" /\ Queue(KeyOf(cur), cur) /\ UNCHANGED <<alert, versions>>
  <2>1. route # NoRoute /\ (route.row => at \in versions)
    BY <1>6 DEF Typed, OnRoute
  <2>2. Sound(route)
    BY <2>1, AllOrNone, RouteFacts DEF Typed, TypeOK
  <2>3. Registered(KeyOf(cur))
    BY <1>1, <1>6, <2>1, <2>2, KeyOfIsKey DEF Registered, Sound
  <2> QED
    BY <1>1, <1>6, <2>3, OwnKeyOf, QueueKeeps
<1>7. CASE ParkMail
  <2>1. \/ UNCHANGED mail
        \/ Queue(Holding(cur), cur)
        \/ Queue(FirstHolding, cur)
    BY <1>7 DEF ParkMail
  <2>2. UNCHANGED <<alert, versions>> /\ cur \in Message
    BY <1>1, <1>7 DEF ParkMail
  <2> QED
    BY <2>1, <2>2, OwnKeys, QueueKeeps DEF Registered, FirstHolding, Holding, KeysOfMessages, KeysOfRevisions
<1>8. CASE ParkAlert
  <2>1. /\ cur \in Message /\ UNCHANGED <<mail, versions>>
        /\ Raise(<<"staff_alert", cur>>, cur) \/ Raise(<<"staff_alert", rev>>, cur)
    BY <1>1, <1>8 DEF ParkAlert
  <2> QED
    BY <2>1, OwnKeys, RaiseKeeps DEF Typed, TypeOK
<1> QED
  BY <1>2, <1>3, <1>4, <1>5, <1>6, <1>7, <1>8, WrittenOnlyThen

\* Customers, staff and the clock: the worker goes on as it was.
Outside ==
  \/ \E m \in Message : MessageArrives(m) \/ ReplayDead(m)
  \/ StaffReplies \/ NextDay \/ UNCHANGED vars

LEMMA OutsideEffect ==
  ASSUME Outside
  PROVE  UNCHANGED <<outVars, workVars, says, versions, ledger, hush>>
  BY DEF Outside, MessageArrives, ReplayDead, StaffReplies, NextDay, vars

\* The steps after which no key has to be free: the worker is where no route has begun,
\* or the mail is behind it.
Elsewhere == pc' \notin {"revise", "send", "settle", "order"}

LEMMA ElsewhereSteps ==
  ASSUME \/ \E m \in Message : Lease(m)
         \/ WithinLimits \/ OverLimit \/ LimitIsTold \/ Choose \/ BlockDraft \/ OrderResearch
         \/ ParkState \/ ParkMail \/ MarkDispatched \/ MarkFailed \/ HandOff \/ Crash
  PROVE  Elsewhere
<1> USE DEF Elsewhere, Goto, LetGo, Park
<1>1. ASSUME \E m \in Message : Lease(m) PROVE Elsewhere
  BY <1>1 DEF Lease
<1>2. ASSUME WithinLimits \/ OverLimit \/ LimitIsTold \/ Choose PROVE Elsewhere
  BY <1>2 DEF WithinLimits, OverLimit, LimitIsTold, TellLimit, Choose
<1>3. ASSUME BlockDraft \/ OrderResearch \/ ParkState \/ ParkMail PROVE Elsewhere
  BY <1>3 DEF BlockDraft, OrderResearch, ParkState, ParkMail
<1>4. ASSUME MarkDispatched \/ MarkFailed \/ HandOff \/ Crash PROVE Elsewhere
  BY <1>4 DEF MarkDispatched, MarkFailed, HandOff, Crash
<1> QED
  BY <1>1, <1>2, <1>3, <1>4

\* What is known of the route that is taken.
LEMMA Taken ==
  ASSUME Typed, route # NoRoute
  PROVE  Sound(route) /\ Singular(route)
  BY AllOrNone, RouteFacts DEF Typed, TypeOK

LEMMA DeleteDataFields ==
  \A r \in DeleteData : r.row = FALSE /\ r.mailFirst = TRUE /\ r.fam = "verification"
<1> DEFINE verifying == Route(Either, FALSE, "verification", "revision", "manual_attention", TRUE)
<1>1. verifying.row = FALSE /\ verifying.mailFirst = TRUE /\ verifying.fam = "verification"
  BY DEF Route
<1> QED
  BY <1>1 DEF DeleteData

\* A step that goes on with the same route leaves a free key free.
LEMMA StaysFresh ==
  ASSUME Fresh, UNCHANGED <<mail, research, at, route>>,
         \/ pc = "revise" /\ pc' = "send"
         \/ pc = "revise" /\ pc' = "settle"
         \/ pc = "settle" /\ ~route.mailFirst /\ pc' \in {"send", "order"}
  PROVE  Fresh'
  BY DEF Fresh

LEMMA FreshStep ==
  ASSUME ConversationAssumption, Typed, KeysOfRevisions, Fresh, [Next]_vars
  PROVE  Fresh'
<1>1. CASE Elsewhere
  BY <1>1 DEF Elsewhere, Fresh
<1>2. CASE Outside
  BY <1>2, OutsideEffect DEF Fresh
<1>3. CASE Read
  <2>1. CASE pc' = "send"
    <3>1. route' = DeletionStatus
      BY <1>3, <2>1 DEF Read, Goto, Park
    <3> QED
      BY <2>1, <3>1, DeletionStatusFields DEF Fresh
  <2>2. CASE pc' # "send"
    BY <1>3, <2>2 DEF Read, Goto, Park, Fresh
  <2> QED
    BY <2>1, <2>2
<1>4. CASE ConfirmDeletion
  <2>1. route' = DeletionStatus /\ pc' \in {"deletionPark", "deletionAlert", "send"}
    BY <1>4 DEF ConfirmDeletion, Typed, OnRoute, Goto
  <2> QED
    BY <2>1, DeletionStatusFields DEF Fresh
<1>5. CASE Effect
  <2>1. UNCHANGED route /\ route # NoRoute /\ Sound(route) /\ pc' \in {"row", "send", "settle"}
    BY <1>5, Taken DEF Effect, Typed, OnRoute, Goto, Begins
  <2>2. pc' # "row" => ~route.row
    BY <1>5 DEF Effect, Begins, Goto
  <2> QED
    BY <2>1, <2>2 DEF Fresh, Sound
<1>6. CASE WriteVersion
  <2>1. CASE pc' = "threw"
    BY <2>1 DEF Fresh
  <2>2. CASE pc' = "revise" /\ at' \notin versions /\ UNCHANGED <<route, mail, research>>
             /\ at' \in Nat \ {0}
    <3>1. at' \notin DOMAIN research'
      BY <2>2 DEF Typed, TypeOK
    <3>2. \A k \in DOMAIN mail' : k[2] = at' => k[1] = "verification"
      BY <2>2 DEF KeysOfRevisions, ConversationAssumption
    <3> QED
      BY <2>2, <3>1, <3>2 DEF Fresh
  <2>3. at \in Nat
    BY DEF Typed, TypeOK
  <2> QED
    BY <1>6, <2>1, <2>2, <2>3 DEF WriteVersion, Goto
<1>7. CASE SetRevision
  <2>1. UNCHANGED <<mail, research, at, route>> /\ pc = "revise" /\ pc' \in {"park", "send", "settle"}
    BY <1>7 DEF SetRevision, Goto, Park
  <2> QED
    BY <2>1, StaysFresh DEF Fresh
<1>8. CASE Settle
  <2>1. UNCHANGED <<mail, research, at, route>> /\ pc = "settle" /\ pc' \in {"returned", "send", "order"}
        /\ (pc' # "returned" => ~route.mailFirst)
    BY <1>8 DEF Settle, Goto
  <2> QED
    BY <2>1, StaysFresh DEF Fresh
<1>9. CASE Send
  <2>1. /\ pc' = "block" \/ pc' = "park" \/ (pc' = AfterMail /\ UNCHANGED route)
        /\ route.per # "none" /\ route # NoRoute
    BY <1>9 DEF Send, Goto, Park, Typed, OnRoute
  <2> QED
    BY <1>9, <2>1, AfterMailEffect DEF Send, Fresh
<1>10. CASE NoteRefusal
  <2>1. pc' = "settle" /\ route' \in OffTopic
    BY <1>10 DEF NoteRefusal, Typed, OnRoute, Heading, Parking, Goto
  <2> QED
    BY <2>1, OffTopicFields DEF Fresh
<1>11. CASE ParkAlert
  <2>1. CASE then = "settle"
    <3>1. UNCHANGED route /\ pc' = "settle" /\ route.mailFirst /\ route # NoRoute
      BY <1>11, <2>1 DEF ParkAlert, Goto, Typed, OnRoute, Heading, Parking
    <3> QED
      BY <3>1, Taken DEF Fresh, Sound
  <2>2. CASE then = "order"
    BY <1>11, <2>2 DEF ParkAlert, Goto, Typed, OnRoute, Heading, Parking, Fresh
  <2>3. CASE then \notin {"settle", "order"}
    <3>1. Elsewhere
      BY <1>11, <2>3 DEF ParkAlert, Elsewhere, Goto, LetGo, Typed, TypeOK
    <3> QED
      BY <1>1, <3>1
  <2> QED
    BY <2>1, <2>2, <2>3
<1> QED
  BY <1>1, <1>2, <1>3, <1>4, <1>5, <1>6, <1>7, <1>8, <1>9, <1>10, <1>11, ElsewhereSteps DEF Next, Outside

\* Where a deletion's first request can still be read, or its mail be queued.
LEMMA SendsFrom ==
  ASSUME Typed, [Next]_vars, pc' = "send"
  PROVE  \/ Outside /\ pc = "send"
         \/ route' = DeletionStatus
         \/ Effect
         \/ UNCHANGED route /\ route.row /\ route # NoRoute
<1>1. CASE Outside
  BY <1>1, OutsideEffect
<1>2. CASE Read
  BY <1>2 DEF Read, Goto, Park
<1>3. CASE ConfirmDeletion
  BY <1>3 DEF ConfirmDeletion, Typed, OnRoute, Goto
<1>4. CASE SetRevision
  BY <1>4 DEF SetRevision, Goto, Park, Typed, OnRoute
<1>5. CASE Settle
  <2>1. UNCHANGED route /\ ~route.mailFirst /\ route # NoRoute
    BY <1>5 DEF Settle, Goto, Typed, OnRoute, Heading, Parking
  <2> QED
    BY <2>1, Taken DEF Sound
<1>6. CASE Send
  BY <1>6, AfterMailEffect DEF Send, Goto, Park
<1>7. CASE WriteVersion \/ NoteRefusal \/ ParkAlert
  BY <1>7 DEF WriteVersion, NoteRefusal, ParkAlert, Goto, LetGo, Typed, TypeOK
<1> QED
  BY <1>1, <1>2, <1>3, <1>4, <1>5, <1>6, <1>7, ElsewhereSteps DEF Next, Outside, Elsewhere

LEMMA LedgerGrows ==
  ASSUME [Next]_vars, Typed
  PROVE  /\ ledger # "none" => ledger' # "none"
         /\ UNCHANGED says
<1>1. ASSUME \E m \in Message : Lease(m) \/ MessageArrives(m) \/ ReplayDead(m)
      PROVE  UNCHANGED <<ledger, says>>
  BY <1>1 DEF Lease, MessageArrives, ReplayDead
<1>2. ASSUME WithinLimits \/ OverLimit \/ LimitIsTold \/ ConfirmDeletion \/ Choose
      PROVE  UNCHANGED <<ledger, says>>
  BY <1>2 DEF WithinLimits, OverLimit, LimitIsTold, ConfirmDeletion, Choose
<1>3. ASSUME WriteVersion \/ SetRevision \/ Settle \/ Send \/ BlockDraft \/ NoteRefusal \/ OrderResearch
      PROVE  UNCHANGED <<ledger, says>>
  BY <1>3 DEF WriteVersion, SetRevision, Settle, Send, BlockDraft, NoteRefusal, OrderResearch
<1>4. ASSUME ParkState \/ ParkMail \/ ParkAlert \/ MarkDispatched \/ MarkFailed \/ HandOff \/ Crash
             \/ StaffReplies \/ NextDay \/ UNCHANGED vars
      PROVE  UNCHANGED <<ledger, says>>
  BY <1>4 DEF ParkState, ParkMail, ParkAlert, MarkDispatched, MarkFailed, HandOff, Crash,
              StaffReplies, NextDay, vars
<1>5. CASE Read
  BY <1>5 DEF Read
<1>6. CASE Effect
  BY <1>6 DEF Effect
<1> QED
  BY <1>1, <1>2, <1>3, <1>4, <1>5, <1>6 DEF Next

\* Of the keys written outside the routes none is a verification's.
LEMMA VerifiesOnlyThen ==
  ASSUME Typed, [Next]_vars, NEW k \in DOMAIN mail', k \notin DOMAIN mail, k[1] = "verification"
  PROVE  pc = "send" /\ route.fam = "verification"
<1>1. pc # "idle" => cur \in Message
  BY DEF Typed, InHand
<1>2. \/ pc = "limitMail" /\ Queue(FirstHolding, cur)
      \/ pc = "send" /\ Queue(KeyOf(cur), cur)
      \/ ParkMail
  BY WrittenOnlyThen DEF NothingWritten, ParkAlert
<1>3. CASE pc = "send" /\ Queue(KeyOf(cur), cur)
  BY <1>1, <1>3, KeyOfIsKey DEF Queue, Put
<1>4. \/ Queue(FirstHolding, cur) \/ Queue(Holding(cur), cur) \/ UNCHANGED mail
      \/ pc = "send" /\ Queue(KeyOf(cur), cur)
  BY <1>2 DEF ParkMail
<1> QED
  BY <1>3, <1>4 DEF Queue, Put, FirstHolding, Holding

\* Where a route is about to be chosen, or was.
LEMMA ChoosesFrom ==
  ASSUME Typed, [Next]_vars, pc' \in {"choose", "effect"}
  PROVE  Outside \/ (Read /\ pc' = "choose") \/ (Choose /\ pc' = "effect")
<1>1. CASE (\E m \in Message : Lease(m)) \/ Read \/ Choose
  BY <1>1 DEF Lease, Read, Choose, Goto, Park
<1>2. CASE WithinLimits \/ OverLimit \/ LimitIsTold \/ ConfirmDeletion \/ Effect
  BY <1>2 DEF WithinLimits, OverLimit, LimitIsTold, TellLimit, ConfirmDeletion, Effect, Begins, Goto
<1>3. CASE WriteVersion \/ SetRevision \/ Settle \/ BlockDraft \/ NoteRefusal \/ OrderResearch
  BY <1>3 DEF WriteVersion, SetRevision, Settle, BlockDraft, NoteRefusal, OrderResearch, Goto, Park
<1>4. CASE ParkState \/ ParkMail \/ MarkDispatched \/ MarkFailed \/ HandOff \/ Crash
  BY <1>4 DEF ParkState, ParkMail, MarkDispatched, MarkFailed, HandOff, Crash, Goto, Park, LetGo
<1>5. CASE Send \/ ParkAlert
  BY <1>5, AfterMailEffect DEF Send, ParkAlert, Goto, Park, LetGo, Typed, TypeOK
<1> QED
  BY <1>1, <1>2, <1>3, <1>4, <1>5 DEF Next, Outside

LEMMA AskedStep ==
  ASSUME ConversationAssumption, Typed, AskedOnce, [Next]_vars
  PROVE  AskedOnce'
<1>1. ASSUME NEW k \in DOMAIN mail', k[1] = "verification" PROVE ledger' # "none"
  BY <1>1, VerifiesOnlyThen, LedgerGrows DEF AskedOnce
<1>2. ASSUME pc' \in {"choose", "effect"}, says'[cur'] = "delete" PROVE ledger' = "none"
  <2>1. CASE Outside
    BY <1>2, <2>1, OutsideEffect DEF AskedOnce
  <2>2. CASE Read /\ pc' = "choose"
    BY <1>2, <2>2 DEF Read, Goto, Park
  <2>3. CASE Choose
    BY <1>2, <2>3 DEF Choose, AskedOnce
  <2> QED
    BY <1>2, <2>1, <2>2, <2>3, ChoosesFrom
<1>3. ASSUME pc' = "effect", route'.fam = "verification" PROVE says'[cur'] = "delete"
  <2>1. CASE Outside
    BY <1>3, <2>1, OutsideEffect DEF AskedOnce
  <2>2. CASE Choose
    <3>1. says[cur] \in Words /\ route' \in RoutesFor(says[cur]) /\ UNCHANGED <<says, cur>>
      BY <2>2 DEF Choose, Typed, TypeOK, InHand
    <3> QED
      BY <1>3, <3>1, RoutesForWord
  <2> QED
    BY <1>3, <2>1, <2>2, ChoosesFrom
<1>4. ASSUME pc' = "send", route'.fam = "verification"
      PROVE  ledger' # "none" /\ \A k \in DOMAIN mail' : k[1] # "verification"
  <2>1. CASE Outside /\ pc = "send"
    BY <1>4, <2>1, OutsideEffect DEF AskedOnce
  <2>2. CASE route' = DeletionStatus
    BY <1>4, <2>2, DeletionStatusFields
  <2>3. CASE Effect
    <3>1. /\ route \in DeleteData /\ UNCHANGED <<mail, route>> /\ pc = "effect"
          /\ says[cur] = "delete" /\ ledger = "none" /\ ledger' = "pending"
      BY <1>4, <2>3, Taken DEF Effect, Goto, Typed, OnRoute, Singular, AskedOnce
    <3> QED
      BY <3>1 DEF AskedOnce
  <2>4. CASE UNCHANGED route /\ route.row /\ route # NoRoute
    BY <1>4, <2>4, Taken, DeleteDataFields DEF Singular
  <2> QED
    BY <1>4, <2>1, <2>2, <2>3, <2>4, SendsFrom
<1> QED
  BY <1>1, <1>2, <1>3, <1>4 DEF AskedOnce

LEMMA OffTopicStep ==
  ASSUME ConversationAssumption, Typed, OffTopicOnce, [Next]_vars
  PROVE  OffTopicOnce'
<1> SUFFICES ASSUME pc' = "send", route'.fam = "off_topic"
             PROVE  cur' \in hush' \/ <<"off_topic", 0>> \notin DOMAIN mail'
  BY DEF OffTopicOnce
<1>1. CASE Outside /\ pc = "send"
  BY <1>1, OutsideEffect DEF OffTopicOnce
<1>2. CASE route' = DeletionStatus
  BY <1>2, DeletionStatusFields
<1>3. CASE Effect
  <2>1. route \in OffTopic /\ UNCHANGED <<mail, route, cur>>
    BY <1>3, Taken DEF Effect, Goto, Typed, OnRoute, Singular
  <2>2. KeyOf(cur) = <<"off_topic", 0>>
    BY <2>1, OffTopicFields DEF KeyOf
  <2> QED
    BY <1>3, <2>1, <2>2 DEF Effect
<1>4. CASE UNCHANGED route /\ route.row /\ route # NoRoute
  BY <1>4, Taken, OffTopicFields DEF Singular
<1> QED
  BY <1>1, <1>2, <1>3, <1>4, SendsFrom

-----------------------------------------------------------------------------
(* Something of one's own. *)

LEMMA KeptStep ==
  ASSUME Typed, [Next]_vars
  PROVE  Kept
<1>1. mail \in [DOMAIN mail -> Message] /\ alert \in [DOMAIN alert -> Message]
  BY DEF Typed, TypeOK
<1>2. \A k, m : Queue(k, m) => \A x \in DOMAIN mail : x \in DOMAIN mail' /\ mail'[x] = mail[x]
  BY DEF Queue, Put
<1>3. \A k, m : Raise(k, m) => \A x \in DOMAIN alert : x \in DOMAIN alert' /\ alert'[x] = alert[x]
  BY DEF Raise, Put
<1>4. /\ \A k \in DOMAIN mail : k \in DOMAIN mail' /\ mail'[k] = mail[k]
      /\ \A k \in DOMAIN alert : k \in DOMAIN alert' /\ alert'[k] = alert[k]
  BY <1>2, <1>3, WrittenOnlyThen DEF NothingWritten, ParkMail, ParkAlert
<1> DEFINE Bystands == UNCHANGED <<research, hush, late>>
<1>5. ASSUME \E m \in Message : Lease(m) \/ ReplayDead(m) PROVE Bystands
  BY <1>5 DEF Lease, ReplayDead
<1>6. ASSUME WithinLimits \/ LimitIsTold \/ Read \/ ConfirmDeletion \/ Choose PROVE Bystands
  BY <1>6 DEF WithinLimits, LimitIsTold, Read, ConfirmDeletion, Choose
<1>7. ASSUME WriteVersion \/ SetRevision \/ Settle \/ Send \/ BlockDraft \/ NoteRefusal PROVE Bystands
  BY <1>7 DEF WriteVersion, SetRevision, Settle, Send, BlockDraft, NoteRefusal
<1>8. ASSUME ParkState \/ ParkMail \/ ParkAlert \/ MarkDispatched \/ MarkFailed \/ HandOff \/ Crash
             \/ StaffReplies \/ NextDay \/ UNCHANGED vars
      PROVE  Bystands
  BY <1>8 DEF ParkState, ParkMail, ParkAlert, MarkDispatched, MarkFailed, HandOff, Crash,
              StaffReplies, NextDay, vars
<1>9. ASSUME NEW n \in Message, MessageArrives(n) PROVE Kept
  BY <1>4, <1>9 DEF MessageArrives, Kept
<1>10. CASE OverLimit \/ Effect
  BY <1>4, <1>10 DEF OverLimit, Effect, Kept
<1>11. CASE OrderResearch
  BY <1>4, <1>11 DEF OrderResearch, Put, Kept
<1>12. CASE Bystands
  BY <1>4, <1>12 DEF Kept
<1> QED
  BY <1>5, <1>6, <1>7, <1>8, <1>9, <1>10, <1>11, <1>12 DEF Next

LEMMA KeptAnswers ==
  ASSUME Typed, Kept, NEW m \in Message, row[m] # "absent", Answered(m)
  PROVE  Answered(m)'
  BY DEF Kept, Answered, Heard

\* What a reply that is queued means to its message, whether its key was free or not.
LEMMA SendAnswers ==
  ASSUME ConversationAssumption, Typed, Keys, Kept, NEW m \in Message, m = cur,
         pc = "send", Queue(KeyOf(m), m)
  PROVE  Answered(m)'
<1> DEFINE k == KeyOf(m)
<1>1. route # NoRoute /\ route.per # "none" /\ row[m] # "absent"
  BY DEF Typed, InHand, OnRoute
<1>2. Sound(route) /\ Singular(route)
  BY <1>1, Taken
<1>3. IsKey(k) /\ k[1] = route.fam
      /\ k[2] = CASE route.per = "message" -> m [] route.per = "revision" -> at [] OTHER -> 0
  BY <1>1, KeyOfIsKey
<1>4. Written(mail, mail', k, m)
  BY <1>1, <1>3, QueueType DEF Typed
<1>5. CASE k \notin DOMAIN mail
  <2>1. k \in DOMAIN mail' /\ mail'[k] = m
    BY <1>4, <1>5 DEF Written
  <2> QED
    BY <2>1 DEF Answered, Heard, Kept
<1>6. CASE k \in DOMAIN mail
  <2>1. CASE route.per = "message"
    <3>1. mail[k] = m
      BY <1>1, <1>3, <1>6, <2>1 DEF Keys, KeysOfMessages
    <3> QED
      BY <1>1, <1>6, <3>1, KeptAnswers DEF Answered, Heard
  <2>2. CASE route.per = "revision" /\ route.row
    <3>1. k[2] = at /\ k[1] # "verification"
      BY <1>2, <1>3, <2>2, DeleteDataFields DEF Singular
    <3> QED
      BY <1>6, <2>2, <3>1 DEF Keys, Fresh
  <2>3. CASE route.fam = "verification"
    BY <1>3, <1>6, <2>3 DEF Keys, AskedOnce
  <2>4. CASE route.per = "request"
    <3>1. route.fam = "off_topic" /\ k = <<"off_topic", 0>>
      BY <1>2, <2>4 DEF Sound, KeyOf
    <3>2. m \in hush
      BY <1>6, <3>1 DEF Keys, OffTopicOnce
    <3> QED
      BY <1>1, <3>2, KeptAnswers DEF Answered
  <2> QED
    BY <1>1, <1>2, <2>1, <2>2, <2>3, <2>4 DEF Sound
<1> QED
  BY <1>5, <1>6

\* A hand-off: the first reply, a line of the message's own, or at least the alert.
LEMMA ParkMailAnswers ==
  ASSUME ConversationAssumption, Typed, Keys, Kept, NEW m \in Message, m = cur, ParkMail
  PROVE  Answered(m)' \/ IsFollowUp(m)'
<1>1. UNCHANGED late /\ row[m] # "absent"
  BY DEF ParkMail, Typed, InHand, Goto
<1>2. CASE IsFollowUp(m)
  BY <1>1, <1>2 DEF IsFollowUp, Kept
<1>3. CASE ~IsFollowUp(m)
  <2>1. Queue(FirstHolding, m)
    BY <1>3 DEF ParkMail
  <2>2. Written(mail, mail', FirstHolding, m)
    BY <1>1, <2>1, OurKeys, QueueType DEF Typed
  <2>3. CASE FirstHolding \in DOMAIN mail
    BY <1>1, <1>3, <2>2, <2>3 DEF IsFollowUp, Written, Answered, Heard
  <2>4. CASE FirstHolding \notin DOMAIN mail
    BY <1>1, <2>2, <2>4 DEF Written, Answered, Heard
  <2> QED
    BY <2>3, <2>4
<1> QED
  BY <1>2, <1>3

LEMMA ParkAlertAnswers ==
  ASSUME ConversationAssumption, Typed, Keys, Kept, NEW m \in Message, m = cur,
         Answered(m) \/ IsFollowUp(m), ParkAlert
  PROVE  Answered(m)'
<1>1. row[m] # "absent"
  BY DEF ParkAlert, Typed, InHand
<1>2. CASE Answered(m)
  BY <1>1, <1>2, KeptAnswers
<1>3. CASE IsFollowUp(m)
  <2> DEFINE k == <<"staff_alert", m>>
  <2>1. Written(alert, alert', k, m)
    BY <1>1, <1>3, OurKeys, RaiseType DEF ParkAlert, Typed
  <2>2. k \in DOMAIN alert => alert[k] = m
    BY <1>1 DEF Keys, KeysOfMessages
  <2> QED
    BY <2>1, <2>2 DEF Written, Answered, Heard
<1> QED
  BY <1>2, <1>3

\* The steps after which a message need not have its answer.
Open ==
  /\ pc' \notin {"limited", "limitMail", "limitAlert", "note", "settle", "order", "returned", "parkAlert"}

LEMMA OpenSteps ==
  ASSUME \/ \E m \in Message : Lease(m)
         \/ WithinLimits \/ Read \/ ConfirmDeletion \/ Choose \/ WriteVersion \/ BlockDraft \/ ParkState
         \/ MarkDispatched \/ MarkFailed \/ HandOff \/ Crash
  PROVE  Open
<1> USE DEF Open, Goto, LetGo, Park
<1>1. ASSUME \E m \in Message : Lease(m) PROVE Open
  BY <1>1 DEF Lease
<1>2. ASSUME WithinLimits \/ Read \/ ConfirmDeletion \/ Choose PROVE Open
  BY <1>2 DEF WithinLimits, Read, ConfirmDeletion, Choose
<1>3. ASSUME WriteVersion \/ BlockDraft \/ ParkState PROVE Open
  BY <1>3 DEF WriteVersion, BlockDraft, ParkState
<1>4. ASSUME MarkDispatched \/ MarkFailed \/ HandOff \/ Crash PROVE Open
  BY <1>4 DEF MarkDispatched, MarkFailed, HandOff, Crash
<1> QED
  BY <1>1, <1>2, <1>3, <1>4

\* A step that leaves the message with an answer leaves AnswerGiven true.
LEMMA AnsweredGives ==
  ASSUME pc' \notin {"limited", "limitMail", "limitAlert"}, Answered(cur)'
  PROVE  AnswerGiven'
  BY DEF AnswerGiven

LEMMA AnswerStep ==
  ASSUME ConversationAssumption, Typed, Keys, AnswerGiven, [Next]_vars
  PROVE  AnswerGiven'
<1>1. Kept
  BY KeptStep
<1>2. pc # "idle" => cur \in Message /\ row[cur] # "absent"
  BY DEF Typed, InHand
<1>3. ASSUME pc # "idle", UNCHANGED cur, Answered(cur) PROVE Answered(cur)'
  BY <1>1, <1>2, <1>3, KeptAnswers
<1>4. CASE Open
  BY <1>4 DEF Open, AnswerGiven
<1>5. CASE Outside
  <2>1. UNCHANGED <<pc, cur, route, mail>> /\ hush \subseteq hush'
    BY <1>1, <1>5, OutsideEffect DEF Kept
  <2>2. pc = "parkAlert" /\ IsFollowUp(cur) => IsFollowUp(cur)'
    <3>1. late \subseteq late'
      BY <1>5 DEF Outside, MessageArrives, ReplayDead, StaffReplies, NextDay, vars
    <3> QED
      BY <2>1, <3>1 DEF IsFollowUp
  <2> QED
    BY <1>3, <2>1, <2>2 DEF AnswerGiven
<1>6. CASE OverLimit
  BY <1>6 DEF OverLimit, Goto, AnswerGiven, Answered
<1>7. CASE LimitIsTold
  <2>1. cur \in hush /\ UNCHANGED <<cur, hush>> /\ pc' \in {"limitMail", "limitAlert", "returned"}
    BY <1>7 DEF LimitIsTold, TellLimit, Goto, AnswerGiven
  <2> QED
    BY <2>1 DEF AnswerGiven, Answered
<1>8. CASE Effect
  <2>1. UNCHANGED <<cur, route>> /\ pc' \in {"row", "settle", "send"} /\ route # NoRoute
    BY <1>8 DEF Effect, Goto, Begins, Typed, OnRoute
  <2>2. pc' = "settle" => cur \in hush'
    BY <1>8, <2>1, Taken DEF Effect, Goto, Begins, Singular
  <2> QED
    BY <2>1, <2>2 DEF AnswerGiven, Answered
<1>9. CASE SetRevision
  <2>1. UNCHANGED route /\ (pc' = "settle" => ~route.mailFirst) /\ pc' \in {"park", "send", "settle"}
    BY <1>9 DEF SetRevision, Goto, Park
  <2> QED
    BY <2>1 DEF AnswerGiven
<1>10. CASE Settle
  <2>1. UNCHANGED <<cur, route>> /\ pc = "settle"
    BY <1>10 DEF Settle, Goto
  <2>2. CASE route.mailFirst
    BY <1>3, <1>10, <2>1, <2>2, AnsweredGives DEF Settle, Goto, AnswerGiven
  <2>3. CASE ~route.mailFirst
    <3>1. pc' = "send" \/ (pc' = "order" /\ route.per = "none")
      BY <1>10, <2>3 DEF Settle, Goto
    <3> QED
      BY <2>1, <3>1 DEF AnswerGiven
  <2> QED
    BY <2>2, <2>3
<1>11. CASE Send
  <2>1. CASE Queue(KeyOf(cur), cur) /\ Goto(AfterMail)
    <3>1. Answered(cur)'
      BY <1>1, <1>2, <1>11, <2>1, SendAnswers DEF Send, Goto
    <3>2. pc' \in {"note", "settle", "order", "returned"}
      BY <1>11, <2>1, AfterMailEffect DEF Send, Goto
    <3> QED
      BY <3>1, <3>2, AnsweredGives
  <2>2. CASE pc' \in {"block", "park"}
    BY <2>2 DEF AnswerGiven
  <2> QED
    BY <1>11, <2>1, <2>2 DEF Send, Park
<1>12. CASE NoteRefusal
  <2>1. Answered(cur)' /\ pc' = "settle"
    BY <1>3, <1>12 DEF NoteRefusal, Goto, AnswerGiven
  <2> QED
    BY <2>1, AnsweredGives
<1>13. CASE OrderResearch
  <2>1. UNCHANGED <<cur, hush>> /\ pc' = "returned" /\ pc = "order"
    BY <1>13 DEF OrderResearch, Goto
  <2>2. CASE route.per = "none"
    <3>1. at \in DOMAIN research' /\ research'[at] = cur
      BY <1>13, <2>1, <2>2 DEF OrderResearch, Put, Keys, Fresh
    <3>2. Answered(cur)'
      BY <2>1, <3>1 DEF Answered, Heard
    <3> QED
      BY <2>1, <3>2, AnsweredGives
  <2>3. CASE route.per # "none"
    BY <1>3, <2>1, <2>3, AnsweredGives DEF AnswerGiven
  <2> QED
    BY <2>2, <2>3
<1>14. CASE ParkMail
  <2>1. UNCHANGED cur /\ pc' = "parkAlert" /\ cur \in Message
    BY <1>2, <1>14 DEF ParkMail, Goto
  <2>2. Answered(cur)' \/ IsFollowUp(cur)'
    BY <1>1, <1>14, <2>1, ParkMailAnswers
  <2> QED
    BY <2>1, <2>2 DEF AnswerGiven
<1>15. CASE ParkAlert
  <2>1. CASE LetGo("idle")
    BY <2>1 DEF LetGo, AnswerGiven
  <2>2. CASE Goto(then) /\ then # "idle"
    <3>1. UNCHANGED cur /\ cur \in Message /\ pc' \in {"settle", "order", "note", "returned"}
      BY <1>2, <1>15, <2>2 DEF ParkAlert, Goto, Typed, TypeOK
    <3>2. Answered(cur) \/ IsFollowUp(cur)
      BY <1>15 DEF ParkAlert, AnswerGiven
    <3>3. Answered(cur)'
      BY <1>1, <1>15, <3>1, <3>2, ParkAlertAnswers
    <3> QED
      BY <3>1, <3>3, AnsweredGives
  <2> QED
    BY <1>15, <2>1, <2>2 DEF ParkAlert
<1> QED
  BY <1>4, <1>5, <1>6, <1>7, <1>8, <1>9, <1>10, <1>11, <1>12, <1>13, <1>14, <1>15, OpenSteps
  DEF Next, Outside

\* Only the end of a message's interpretation makes it done.
LEMMA DoneOnlyThen ==
  ASSUME Typed, [Next]_vars, NEW m \in Message, row[m] # "done", row'[m] = "done"
  PROVE  pc = "returned" /\ m = cur
<1>1. ASSUME NEW n \in Message, Lease(n) \/ MessageArrives(n) \/ ReplayDead(n) PROVE row'[m] # "done"
  BY <1>1 DEF Lease, MessageArrives, ReplayDead, Typed, TypeOK
<1>2. ASSUME WithinLimits \/ OverLimit \/ LimitIsTold \/ Read \/ ConfirmDeletion \/ Choose \/ Effect
      PROVE  UNCHANGED row
  BY <1>2 DEF WithinLimits, OverLimit, LimitIsTold, Read, ConfirmDeletion, Choose, Effect
<1>3. ASSUME WriteVersion \/ SetRevision \/ Settle \/ Send \/ BlockDraft \/ NoteRefusal \/ OrderResearch
      PROVE  UNCHANGED row
  BY <1>3 DEF WriteVersion, SetRevision, Settle, Send, BlockDraft, NoteRefusal, OrderResearch
<1>4. ASSUME ParkState \/ ParkMail \/ ParkAlert \/ HandOff \/ Crash \/ StaffReplies \/ NextDay
             \/ UNCHANGED vars
      PROVE  UNCHANGED row
  BY <1>4 DEF ParkState, ParkMail, ParkAlert, HandOff, Crash, StaffReplies, NextDay, vars
<1>5. ASSUME MarkFailed PROVE row'[m] # "done"
  BY <1>5 DEF MarkFailed, Typed, TypeOK
<1>6. CASE MarkDispatched
  BY <1>6 DEF MarkDispatched, Typed, TypeOK
<1> QED
  BY <1>1, <1>2, <1>3, <1>4, <1>5, <1>6 DEF Next

LEMMA SilenceStep ==
  ASSUME Typed, AnswerGiven, NoSilentEnd, [Next]_vars
  PROVE  NoSilentEnd'
<1> SUFFICES ASSUME NEW m \in Message, row'[m] = "done" PROVE Answered(m)'
  BY DEF NoSilentEnd, Answered
<1>1. Kept
  BY KeptStep
<1>2. CASE row[m] = "done"
  BY <1>1, <1>2, KeptAnswers DEF NoSilentEnd, Answered
<1>3. CASE row[m] # "done"
  <2>1. pc = "returned" /\ m = cur /\ row[m] # "absent"
    BY <1>3, DoneOnlyThen DEF Typed, InHand
  <2>2. Answered(m)
    BY <2>1 DEF AnswerGiven
  <2> QED
    BY <1>1, <2>1, <2>2, KeptAnswers
<1> QED
  BY <1>2, <1>3

-----------------------------------------------------------------------------
(* The theorems. *)

LEMMA InvInit == ConversationAssumption /\ Init => IInv
<1> SUFFICES ASSUME ConversationAssumption, Init PROVE IInv
  OBVIOUS
<1>1. Typed
  BY TypeInit
<1>2. DOMAIN mail = {} /\ DOMAIN alert = {} /\ DOMAIN research = {}
  BY DEF Init, Empty
<1>3. pc = "idle" /\ waits = NoMessage /\ \A m \in Message : row[m] # "done"
  BY DEF Init, FirstMessage
<1> QED
  BY <1>1, <1>2, <1>3 DEF IInv, HeldStays, HeldWaitsForAPerson, Keys, KeysOfMessages, KeysOfRevisions,
     Fresh, AskedOnce, OffTopicOnce, AnswerGiven, NoSilentEnd

LEMMA InvStep == ConversationAssumption /\ IInv /\ [Next]_vars => IInv'
<1> SUFFICES ASSUME ConversationAssumption, IInv, [Next]_vars PROVE IInv'
  OBVIOUS
<1>1. Typed'
  BY TypeStep DEF IInv
<1>2. HeldStays' /\ HeldWaitsForAPerson'
  BY HeldStep DEF IInv
<1>3. Keys'
  BY KeysStep, FreshStep, AskedStep, OffTopicStep DEF IInv, Keys
<1>4. AnswerGiven' /\ NoSilentEnd'
  BY AnswerStep, SilenceStep DEF IInv
<1> QED
  BY <1>1, <1>2, <1>3, <1>4 DEF IInv

\* The inductive invariant holds in every reachable state.
THEOREM ConversationInvariant == Spec => []IInv
<1>1. Init => IInv
  BY InvInit, ConversationAssumption
<1>2. IInv /\ [Next]_vars => IInv'
  BY InvStep, ConversationAssumption
<1> QED
  BY <1>1, <1>2, PTL DEF Spec

\* The types, and a reply that the answer gate or the repeat check holds leaves the request
\* with a person: no transition that follows queueSend takes it away again (holdReply,
\* parkForStaff, transition).
THEOREM HeldRepliesWait == Spec => []HeldInv
<1>1. IInv => HeldInv
  BY DEF IInv, Typed, HeldInv
<1> QED
  BY <1>1, ConversationInvariant, PTL

\* Whatever crashed in between and whichever keys were taken, an interpreted message got
\* something of its own, unless the code meant to be silent (every route's dedupe key,
\* parkForStaff; the comment at pipeline.ts:1666).
THEOREM NoMessageEndsInSilence == Spec => []NoSilentEnd
<1>1. IInv => NoSilentEnd
  BY DEF IInv
<1> QED
  BY <1>1, ConversationInvariant, PTL

=============================================================================
