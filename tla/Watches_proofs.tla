---------------------------- MODULE Watches_proofs ----------------------------
(***************************************************************************)
(* Proofs about module Watches, for every number of watches and processes, *)
(* every set of totals and every value of the caps.                        *)
(***************************************************************************)
EXTENDS Watches, FiniteSetTheorems, TLAPS

USE DEF rowVars, alertVars, outsideVars, procVars

-----------------------------------------------------------------------------
(* The inductive invariant. *)

Label == {"idle", "create", "claim", "judge", "pause", "price", "insert",
          "stopAlerts", "revise", "supersede", "blockOld",
          "watchOf", "reject", "queue", "bind", "gate", "submit"}

\* What a handler has read is a row that exists.
InHand ==
  \A p \in Process :
    /\ pc[p] \in {"create", "claim", "judge", "pause", "price", "insert"} => on[p] \in Watch
    /\ pc[p] = "insert" => key[p] \in Key
    /\ pc[p] \in {"watchOf", "reject", "queue", "bind"} => key[p] \in DOMAIN alert
    /\ pc[p] \in {"bind", "gate", "submit"} => key[p] \in DOMAIN intent

\* A watch that is looked at is stored and not due, so that no second look can claim it.
Looks == {"judge", "price", "insert", "pause"}
ClaimHolds ==
  \A p \in Process : pc[p] \in Looks => state[on[p]] # "absent" /\ on[p] \notin due
OneLook ==
  \A p, q \in Process : pc[p] \in Looks /\ pc[q] \in Looks /\ on[p] = on[q] => p = q

\* The cap, for each generation there may be, with room for the alert about to be written.
Told(w, g) == AlertsOf(w, g) \cap today
Capped == IsFiniteSet(today) /\ \A w \in Watch, g \in Nat : Cardinality(Told(w, g)) <= MaxPerDay
RoomLeft ==
  \A p \in Process : pc[p] = "insert" =>
    /\ WatchOf(key[p]) = on[p]
    /\ Cardinality(Told(on[p], GenerationOf(key[p]))) < MaxPerDay

\* A confirmed stop leaves the watch in a later generation.
StopsArePast == \A w \in Watch : stoppedAt[w] < generation[w]

Typed == TypeOK /\ InHand
LookInv == ClaimHolds /\ OneLook
Telling == Capped /\ RoomLeft
IInv == Typed /\ LookInv /\ Telling /\ StopsArePast

-----------------------------------------------------------------------------
(* What the handlers share. *)

LEMMA GotoEffect ==
  ASSUME TypeOK, NEW p \in Process, NEW label \in Label, Goto(p, label)
  PROVE  /\ pc' \in [Process -> Label] /\ pc'[p] = label
         /\ \A q \in Process : q # p => pc'[q] = pc[q]
  BY DEF Goto, TypeOK, Label

LEMMA ReturnEffect ==
  ASSUME TypeOK, NEW p \in Process, Return(p)
  PROVE  /\ pc' \in [Process -> Label] /\ pc'[p] = "idle"
         /\ on' \in [Process -> Watch \cup {NoWatch}] /\ read' \in [Process -> Nat]
         /\ key' \in [Process -> Key \cup {NoKey}]
         /\ stopping' \in [Process -> SUBSET Watch]
         /\ \A q \in Process : q # p =>
              /\ pc'[q] = pc[q] /\ on'[q] = on[q] /\ read'[q] = read[q]
              /\ key'[q] = key[q] /\ stopping'[q] = stopping[q]
  BY DEF Return, Goto, TypeOK, Label

LEMMA BecomesEffect ==
  ASSUME TypeOK, NEW ws, NEW s \in {"active", "paused", "cancelled", "expired"}, Becomes(ws, s)
  PROVE  /\ state' \in [Watch -> {"absent", "active", "paused", "cancelled", "expired"}]
         /\ \A w \in Watch : state[w] # "absent" => state'[w] # "absent"
  BY DEF Becomes, TypeOK

LEMMA BumpEffect ==
  ASSUME TypeOK, NEW ws, Bump(ws)
  PROVE  /\ generation' \in [Watch -> Nat]
         /\ \A w \in Watch : generation'[w] >= generation[w]
         /\ \A w \in Watch \cap ws : generation'[w] = generation[w] + 1
  BY DEF Bump, TypeOK

LEMMA BlockType ==
  ASSUME TypeOK, NEW ks
  PROVE  /\ DOMAIN Block(intent, ks) = DOMAIN intent
         /\ Block(intent, ks) \in [DOMAIN intent -> {"queued", "claimed", "blocked", "mailed"}]
  BY DEF Block, TypeOK

\* The three ways a step may leave the alerts: as they are, some of them with another state,
\* or with one more.
LEMMA KeyParts ==
  ASSUME NEW w \in Watch, NEW g \in Nat, NEW total \in Total
  PROVE  <<w, g, total>> \in Key
  BY DEF Key

-----------------------------------------------------------------------------
(* The types. *)

LEMMA TypeInit == WatchesAssumption /\ Init => Typed
<1> SUFFICES ASSUME WatchesAssumption, Init PROVE Typed
  OBVIOUS
<1>1. DOMAIN alert = {} /\ DOMAIN intent = {}
  BY DEF Init, NoAlerts
<1>2. /\ alert \in [DOMAIN alert -> {"pending", "approved", "invalidated"}]
      /\ intent \in [DOMAIN intent -> {"queued", "claimed", "blocked", "mailed"}]
  BY <1>1 DEF Init, NoAlerts
<1>3. due = {} /\ over = {} /\ bound = {} /\ today = {} /\ fresh = {}
  BY DEF Init, NoAlerts, NoWatches
<1>4. /\ state \in [Watch -> {"absent", "active", "paused", "cancelled", "expired"}]
      /\ generation \in [Watch -> Nat] /\ revision \in [Watch -> Nat]
  BY DEF Init, NoWatches
<1>5. acts \in 0 .. MaxActs
  BY DEF Init, WatchesAssumption
<1>6. /\ stoppedAt \in [Watch -> Nat] /\ stopping \in [Process -> SUBSET Watch]
      /\ pc \in [Process -> Label] /\ on \in [Process -> Watch \cup {NoWatch}]
      /\ read \in [Process -> Nat] /\ key \in [Process -> Key \cup {NoKey}]
      /\ current = 1 /\ allowed \in BOOLEAN /\ suppressed \in BOOLEAN
  BY DEF Init, Label
<1>7. TypeOK
  <2>1. bound \subseteq DOMAIN intent /\ DOMAIN intent \subseteq DOMAIN alert /\ DOMAIN alert \subseteq Key
    BY <1>1, <1>3
  <2>2. today \cup fresh \subseteq DOMAIN alert /\ due \cup over \subseteq Watch
    BY <1>3
  <2>3. current \in Nat \ {0}
    BY <1>6
  <2> QED
    BY <1>2, <1>4, <1>5, <1>6, <2>1, <2>2, <2>3 DEF TypeOK, Label
<1> QED
  BY <1>7 DEF Init, Typed, InHand

LEMMA TypeMessage ==
  ASSUME WatchesAssumption, Typed, NEW p \in Process, Message(p)
  PROVE  Typed'
<1> USE DEF Typed, Act
<1>1. ASSUME NEW w \in Watch, CountActive(p, w) PROVE Typed'
  BY <1>1, GotoEffect DEF CountActive, TypeOK, InHand, Label
<1>2. CASE Create(p)
  <2>1. state' \in [Watch -> {"absent", "active", "paused", "cancelled", "expired"}]
    BY <1>2, BecomesEffect DEF Create, TypeOK
  <2>2. due' \subseteq Watch /\ revision' \in [Watch -> Nat]
    BY <1>2 DEF Create, TypeOK, InHand
  <2> QED
    BY <1>2, <2>1, <2>2, ReturnEffect DEF Create, TypeOK, InHand, Label
<1>3. ASSUME NEW revises \in BOOLEAN, CustomerStops(p, revises) PROVE Typed'
  <2>1. /\ state' \in [Watch -> {"absent", "active", "paused", "cancelled", "expired"}]
        /\ generation' \in [Watch -> Nat]
    BY <1>3, BecomesEffect, BumpEffect DEF CustomerStops
  <2>2. stoppedAt' \in [Watch -> Nat] /\ stopping' \in [Process -> SUBSET Watch]
    BY <1>3 DEF CustomerStops, TypeOK, Active
  <2> QED
    BY <1>3, <2>1, <2>2, GotoEffect DEF CustomerStops, TypeOK, InHand, Label, WatchesAssumption
<1>4. CASE StopWatchAlerts(p)
  BY <1>4, GotoEffect DEF StopWatchAlerts, TypeOK, InHand, Label
<1>5. CASE BlockStopped(p)
  BY <1>5, ReturnEffect, BlockType DEF BlockStopped, TypeOK, InHand, Label
<1>6. CASE Revise(p)
  BY <1>6, GotoEffect DEF Revise, TypeOK, InHand, Label, WatchesAssumption
<1>7. CASE Supersede(p)
  <2>1. /\ state' \in [Watch -> {"absent", "active", "paused", "cancelled", "expired"}]
        /\ generation' \in [Watch -> Nat]
    BY <1>7, BecomesEffect, BumpEffect DEF Supersede
  <2> QED
    BY <1>7, <2>1, GotoEffect DEF Supersede, TypeOK, InHand, Label
<1>8. CASE BlockOld(p)
  BY <1>8, ReturnEffect, BlockType DEF BlockOld, TypeOK, InHand, Label
<1> QED
  BY <1>1, <1>2, <1>3, <1>4, <1>5, <1>6, <1>7, <1>8 DEF Message

LEMMA TypeLook ==
  ASSUME WatchesAssumption, Typed, NEW p \in Process, Look(p) \/ LookDies(p)
  PROVE  Typed'
<1> USE DEF Typed, Act
<1>1. ASSUME NEW w \in Watch, ReadDue(p, w) PROVE Typed'
  BY <1>1, GotoEffect DEF ReadDue, TypeOK, InHand, Label
<1>2. CASE Claim(p)
  <2>1. CASE on[p] \in Active \cap due
    BY <1>2, <2>1, GotoEffect DEF Claim, TypeOK, InHand, Label
  <2>2. CASE ~(on[p] \in Active \cap due)
    BY <1>2, <2>2, ReturnEffect DEF Claim, TypeOK, InHand, Label
  <2> QED
    BY <2>1, <2>2
<1>3. CASE Judge(p)
  <2>1. CASE on[p] \in over
    <3>1. state' \in [Watch -> {"absent", "active", "paused", "cancelled", "expired"}]
      BY <1>3, <2>1, BecomesEffect DEF Judge
    <3> QED
      BY <1>3, <2>1, <3>1, ReturnEffect DEF Judge, TypeOK, InHand, Label
  <2>2. CASE on[p] \notin over
    BY <1>3, <2>2, GotoEffect DEF Judge, TypeOK, InHand, Label
  <2> QED
    BY <2>1, <2>2
<1>4. CASE PauseWatch(p)
  <2>1. /\ state' \in [Watch -> {"absent", "active", "paused", "cancelled", "expired"}]
        /\ generation' \in [Watch -> Nat]
    BY <1>4, BecomesEffect, BumpEffect DEF PauseWatch
  <2>2. stopping' \in [Process -> SUBSET Watch]
    BY <1>4 DEF PauseWatch, TypeOK, InHand
  <2> QED
    BY <1>4, <2>1, <2>2, GotoEffect DEF PauseWatch, TypeOK, InHand, Label
<1>5. CASE Price(p)
  <2>1. CASE Return(p)
    BY <1>5, <2>1, ReturnEffect DEF Price, TypeOK, InHand, Label
  <2>2. CASE ~Return(p)
    <3>1. PICK total \in Total : /\ key' = [key EXCEPT ![p] = <<on[p], read[p], total>>]
                                 /\ Goto(p, "insert") /\ UNCHANGED <<on, read, stopping>>
      BY <1>5, <2>2 DEF Price
    <3>2. <<on[p], read[p], total>> \in Key
      BY <1>5, KeyParts DEF Price, TypeOK, InHand
    <3> QED
      BY <1>5, <3>1, <3>2, GotoEffect DEF Price, TypeOK, InHand, Label
  <2> QED
    BY <2>1, <2>2
<1>6. CASE InsertAlert(p)
  <2>1. CASE key[p] \in DOMAIN alert
    BY <1>6, <2>1, ReturnEffect DEF InsertAlert, TypeOK, InHand, Label
  <2>2. CASE key[p] \notin DOMAIN alert
    <3>1. /\ DOMAIN alert' = DOMAIN alert \cup {key[p]} /\ key[p] \in Key
          /\ alert' \in [DOMAIN alert' -> {"pending", "approved", "invalidated"}]
      BY <1>6, <2>2 DEF InsertAlert, Put, TypeOK, InHand
    <3>2. today' \cup fresh' \subseteq DOMAIN alert'
      BY <1>6, <2>2, <3>1 DEF InsertAlert, TypeOK
    <3> QED
      BY <1>6, <3>1, <3>2, ReturnEffect DEF InsertAlert, TypeOK, InHand, Label
  <2> QED
    BY <2>1, <2>2
<1>7. CASE LookDies(p)
  BY <1>7, ReturnEffect DEF LookDies, TypeOK, InHand, Label, WatchesAssumption
<1> QED
  BY <1>1, <1>2, <1>3, <1>4, <1>5, <1>6, <1>7 DEF Look

LEMMA TypeApprove ==
  ASSUME WatchesAssumption, Typed, NEW p \in Process, Approve(p) \/ ApprovalDies(p)
  PROVE  Typed'
<1> USE DEF Typed, Act
<1>1. ASSUME NEW k \in DOMAIN alert, ReadAlert(p, k) PROVE Typed'
  BY <1>1, GotoEffect DEF ReadAlert, TypeOK, InHand, Label
<1>2. CASE CheckAlert(p)
  BY <1>2, GotoEffect DEF CheckAlert, TypeOK, InHand, Label
<1>3. CASE RejectAlert(p)
  BY <1>3, ReturnEffect DEF RejectAlert, TypeOK, InHand, Label
<1>4. CASE QueueAlert(p)
  <2>1. /\ DOMAIN intent' = DOMAIN intent \cup {key[p]}
        /\ intent' \in [DOMAIN intent' -> {"queued", "claimed", "blocked", "mailed"}]
    BY <1>4 DEF QueueAlert, Put, TypeOK
  <2> QED
    BY <1>4, <2>1, GotoEffect DEF QueueAlert, TypeOK, InHand, Label
<1>5. CASE BindAlert(p)
  BY <1>5, ReturnEffect DEF BindAlert, TypeOK, InHand, Label
<1>6. CASE ApprovalDies(p)
  BY <1>6, ReturnEffect DEF ApprovalDies, TypeOK, InHand, Label, WatchesAssumption
<1> QED
  BY <1>1, <1>2, <1>3, <1>4, <1>5, <1>6 DEF Approve

LEMMA TypeDispatch ==
  ASSUME WatchesAssumption, Typed, NEW p \in Process, Dispatch(p)
  PROVE  Typed'
<1> USE DEF Typed
<1>1. ASSUME NEW k \in DOMAIN intent, ClaimIntent(p, k) PROVE Typed'
  BY <1>1, GotoEffect DEF ClaimIntent, TypeOK, InHand, Label
<1>2. CASE Gate(p)
  <2>1. CASE Cleared(key[p])
    BY <1>2, <2>1, GotoEffect DEF Gate, TypeOK, InHand, Label
  <2>2. CASE ~Cleared(key[p])
    <3>1. /\ DOMAIN alert' = DOMAIN alert
          /\ alert' \in [DOMAIN alert -> {"pending", "approved", "invalidated"}]
      BY <1>2, <2>2 DEF Gate, Invalid, TypeOK
    <3>2. /\ DOMAIN intent' = DOMAIN intent
          /\ intent' \in [DOMAIN intent -> {"queued", "claimed", "blocked", "mailed"}]
      BY <1>2, <2>2 DEF Gate, TypeOK
    <3>3. Return(p) /\ UNCHANGED <<rowVars, bound, today, fresh, outsideVars, acts>>
      BY <1>2, <2>2 DEF Gate
    <3>4. /\ pc' \in [Process -> Label] /\ pc'[p] = "idle"
          /\ \A q \in Process : q # p => pc'[q] = pc[q] /\ on'[q] = on[q] /\ key'[q] = key[q]
      BY <3>3, ReturnEffect
    <3>5. TypeOK'
      BY <3>1, <3>2, <3>3, ReturnEffect DEF TypeOK, Label
    <3>6. InHand'
      BY <3>1, <3>2, <3>4 DEF InHand
    <3> QED
      BY <3>5, <3>6
  <2> QED
    BY <2>1, <2>2
<1>3. CASE Submit(p)
  BY <1>3, ReturnEffect DEF Submit, TypeOK, InHand, Label
<1> QED
  BY <1>1, <1>2, <1>3 DEF Dispatch

LEMMA TypeOthers ==
  ASSUME WatchesAssumption, Typed,
         \/ \E p \in Process, w \in Watch : StaffCancels(p, w)
         \/ \E w \in Watch : StaffPauses(w) \/ DueAgain(w)
         \/ StopAll \/ RemoveRequest \/ TimePasses \/ WorldChanges
  PROVE  Typed'
<1> USE DEF Typed, Act
<1>1. ASSUME NEW p \in Process, NEW w \in Watch, StaffCancels(p, w) PROVE Typed'
  <2>1. /\ state' \in [Watch -> {"absent", "active", "paused", "cancelled", "expired"}]
        /\ generation' \in [Watch -> Nat]
    BY <1>1, BecomesEffect, BumpEffect DEF StaffCancels
  <2>2. /\ stoppedAt' \in [Watch -> Nat] /\ stopping' \in [Process -> SUBSET Watch]
        /\ on' \in [Process -> Watch \cup {NoWatch}] /\ acts' \in 0 .. MaxActs
        /\ \A q \in Process : q # p => on'[q] = on[q]
    BY <1>1 DEF StaffCancels, TypeOK, WatchesAssumption
  <2>3. /\ pc' \in [Process -> Label] /\ pc'[p] = "stopAlerts"
        /\ \A q \in Process : q # p => pc'[q] = pc[q]
    BY <1>1, GotoEffect DEF StaffCancels, Label
  <2> QED
    BY <1>1, <2>1, <2>2, <2>3 DEF StaffCancels, TypeOK, InHand, Label
<1>2. ASSUME NEW w \in Watch, StaffPauses(w) PROVE Typed'
  <2>1. /\ state' \in [Watch -> {"absent", "active", "paused", "cancelled", "expired"}]
        /\ generation' \in [Watch -> Nat]
    BY <1>2, BecomesEffect, BumpEffect DEF StaffPauses
  <2> QED
    BY <1>2, <2>1 DEF StaffPauses, TypeOK, InHand, WatchesAssumption
<1>3. ASSUME NEW w \in Watch, DueAgain(w) PROVE Typed'
  BY <1>3 DEF DueAgain, TypeOK, InHand, WatchesAssumption
<1>4. CASE StopAll
  <2>1. state' \in [Watch -> {"absent", "active", "paused", "cancelled", "expired"}]
    BY <1>4, BecomesEffect DEF StopAll
  <2> QED
    BY <1>4, <2>1 DEF StopAll, TypeOK, InHand, WatchesAssumption
<1>5. CASE RemoveRequest
  <2>1. state' \in [Watch -> {"absent", "active", "paused", "cancelled", "expired"}]
    BY <1>5, BecomesEffect DEF RemoveRequest
  <2> QED
    BY <1>5, <2>1, BlockType DEF RemoveRequest, TypeOK, InHand, WatchesAssumption
<1>6. CASE TimePasses
  BY <1>6 DEF TimePasses, TypeOK, InHand, WatchesAssumption
<1>7. CASE WorldChanges
  BY <1>7 DEF WorldChanges, TypeOK, InHand, WatchesAssumption
<1> QED
  BY <1>1, <1>2, <1>3, <1>4, <1>5, <1>6, <1>7

-----------------------------------------------------------------------------
(* Looks and alerts: what most steps leave alone. *)

\* No look begins, no watch vanishes, none becomes due.
NoNewLook ==
  /\ \A w \in Watch : state[w] # "absent" => state'[w] # "absent"
  /\ due' \subseteq due
  /\ \A q \in Process : pc'[q] \in Looks => pc[q] \in Looks /\ on'[q] = on[q]

\* No alert is written or about to be.
NoNewAlert ==
  /\ DOMAIN alert' = DOMAIN alert /\ today' \subseteq today
  /\ \A q \in Process : pc'[q] = "insert" =>
       pc[q] = "insert" /\ on'[q] = on[q] /\ key'[q] = key[q]

LEMMA NoNewLookKeeps ==
  ASSUME Typed, LookInv, NoNewLook
  PROVE  LookInv'
<1>1. \A q \in Process : pc[q] \in Looks => on[q] \in Watch
  BY DEF Typed, InHand, Looks
<1> QED
  BY <1>1 DEF LookInv, ClaimHolds, OneLook, NoNewLook

LEMMA ToldShrinks ==
  ASSUME Capped, DOMAIN alert' = DOMAIN alert, today' \subseteq today
  PROVE  /\ IsFiniteSet(today')
         /\ \A w \in Watch, g \in Nat :
              /\ Cardinality(Told(w, g)') <= Cardinality(Told(w, g))
              /\ Cardinality(Told(w, g)') \in Nat /\ Cardinality(Told(w, g)) \in Nat
<1>1. IsFiniteSet(today')
  BY FS_Subset DEF Capped
<1>2. ASSUME NEW w \in Watch, NEW g \in Nat
      PROVE  /\ Cardinality(Told(w, g)') <= Cardinality(Told(w, g))
             /\ Cardinality(Told(w, g)') \in Nat /\ Cardinality(Told(w, g)) \in Nat
  <2>1. Told(w, g)' \subseteq Told(w, g) /\ Told(w, g) \subseteq today
    BY DEF Told, AlertsOf
  <2>2. IsFiniteSet(Told(w, g))
    BY <2>1, FS_Subset DEF Capped
  <2>3. /\ IsFiniteSet(Told(w, g)')
        /\ Cardinality(Told(w, g)') <= Cardinality(Told(w, g))
    BY <2>1, <2>2, FS_Subset
  <2> QED
    BY <2>2, <2>3, FS_CardinalityType
<1> QED
  BY <1>1, <1>2

LEMMA KeyTypes ==
  ASSUME NEW k \in Key
  PROVE  WatchOf(k) \in Watch /\ GenerationOf(k) \in Nat /\ TotalOf(k) \in Total
  BY DEF Key, WatchOf, GenerationOf, TotalOf

LEMMA NoNewAlertKeeps ==
  ASSUME WatchesAssumption, Typed, Telling, NoNewAlert
  PROVE  Telling'
<1>1. Capped /\ MaxPerDay \in Nat
  BY DEF Telling, WatchesAssumption
<1>2. /\ IsFiniteSet(today')
      /\ \A w \in Watch, g \in Nat :
           /\ Cardinality(Told(w, g)') <= Cardinality(Told(w, g))
           /\ Cardinality(Told(w, g)') \in Nat /\ Cardinality(Told(w, g)) \in Nat
  BY <1>1, ToldShrinks DEF NoNewAlert
<1>3. Capped'
  <2> SUFFICES ASSUME NEW w \in Watch, NEW g \in Nat PROVE Cardinality(Told(w, g)') <= MaxPerDay
    BY <1>2 DEF Capped
  <2>1. Cardinality(Told(w, g)) <= MaxPerDay
    BY <1>1 DEF Capped
  <2> QED
    BY <1>1, <1>2, <2>1
<1>4. RoomLeft'
  <2> SUFFICES ASSUME NEW p \in Process, pc'[p] = "insert"
               PROVE  /\ WatchOf(key'[p]) = on'[p]
                      /\ Cardinality(Told(on[p], GenerationOf(key[p]))') < MaxPerDay
                      /\ on'[p] = on[p] /\ key'[p] = key[p]
    BY DEF RoomLeft, Told, AlertsOf
  <2>1. pc[p] = "insert" /\ on'[p] = on[p] /\ key'[p] = key[p]
    BY DEF NoNewAlert
  <2>2. /\ WatchOf(key[p]) = on[p]
        /\ Cardinality(Told(on[p], GenerationOf(key[p]))) < MaxPerDay
    BY <2>1 DEF Telling, RoomLeft
  <2>3. on[p] \in Watch /\ GenerationOf(key[p]) \in Nat
    BY <2>1, KeyTypes DEF Typed, InHand
  <2> QED
    BY <1>1, <1>2, <2>1, <2>2, <2>3
<1> QED
  BY <1>3, <1>4 DEF Telling

-----------------------------------------------------------------------------
(* The steps that only do that. *)

LEMMA QuietMessage ==
  ASSUME Typed, NEW p \in Process,
         \/ \E w \in Watch : CountActive(p, w)
         \/ \E revises \in BOOLEAN : CustomerStops(p, revises)
         \/ StopWatchAlerts(p) \/ BlockStopped(p) \/ Revise(p) \/ Supersede(p) \/ BlockOld(p)
  PROVE  NoNewLook /\ NoNewAlert
<1> USE DEF Typed, NoNewLook, NoNewAlert, Looks, Label
<1>1. ASSUME NEW w \in Watch, CountActive(p, w) PROVE NoNewLook /\ NoNewAlert
  BY <1>1, GotoEffect DEF CountActive, TypeOK
<1>2. ASSUME NEW revises \in BOOLEAN, CustomerStops(p, revises) PROVE NoNewLook /\ NoNewAlert
  BY <1>2, GotoEffect, BecomesEffect DEF CustomerStops
<1>3. CASE StopWatchAlerts(p)
  BY <1>3, GotoEffect DEF StopWatchAlerts
<1>4. CASE BlockStopped(p)
  BY <1>4, ReturnEffect DEF BlockStopped
<1>5. CASE Revise(p)
  BY <1>5, GotoEffect DEF Revise
<1>6. CASE Supersede(p)
  BY <1>6, GotoEffect, BecomesEffect DEF Supersede
<1>7. CASE BlockOld(p)
  BY <1>7, ReturnEffect DEF BlockOld
<1> QED
  BY <1>1, <1>2, <1>3, <1>4, <1>5, <1>6, <1>7

LEMMA QuietLook ==
  ASSUME Typed, NEW p \in Process,
         \/ \E w \in Watch : ReadDue(p, w)
         \/ Judge(p) \/ PauseWatch(p) \/ LookDies(p)
  PROVE  NoNewLook /\ NoNewAlert
<1> USE DEF Typed, NoNewLook, NoNewAlert, Looks, Label
<1>1. ASSUME NEW w \in Watch, ReadDue(p, w) PROVE NoNewLook /\ NoNewAlert
  BY <1>1, GotoEffect DEF ReadDue, TypeOK
<1>2. CASE Judge(p)
  <2>1. CASE on[p] \in over
    BY <1>2, <2>1, ReturnEffect, BecomesEffect DEF Judge
  <2>2. CASE on[p] \notin over
    BY <1>2, <2>2, GotoEffect DEF Judge
  <2> QED
    BY <2>1, <2>2
<1>3. CASE PauseWatch(p)
  BY <1>3, GotoEffect, BecomesEffect DEF PauseWatch
<1>4. CASE LookDies(p)
  BY <1>4, ReturnEffect DEF LookDies
<1> QED
  BY <1>1, <1>2, <1>3, <1>4

LEMMA QuietMail ==
  ASSUME Typed, NEW p \in Process, Approve(p) \/ ApprovalDies(p) \/ Dispatch(p)
  PROVE  NoNewLook /\ NoNewAlert
<1> USE DEF Typed, NoNewLook, NoNewAlert, Looks, Label
<1>1. ASSUME NEW k \in DOMAIN alert, ReadAlert(p, k) PROVE NoNewLook /\ NoNewAlert
  BY <1>1, GotoEffect DEF ReadAlert, TypeOK
<1>2. CASE CheckAlert(p)
  BY <1>2, GotoEffect DEF CheckAlert
<1>3. CASE RejectAlert(p)
  BY <1>3, ReturnEffect DEF RejectAlert
<1>4. CASE QueueAlert(p)
  BY <1>4, GotoEffect DEF QueueAlert
<1>5. CASE BindAlert(p)
  BY <1>5, ReturnEffect DEF BindAlert
<1>6. CASE ApprovalDies(p)
  BY <1>6, ReturnEffect DEF ApprovalDies
<1>7. ASSUME NEW k \in DOMAIN intent, ClaimIntent(p, k) PROVE NoNewLook /\ NoNewAlert
  BY <1>7, GotoEffect DEF ClaimIntent, TypeOK
<1>8. CASE Gate(p)
  <2>1. CASE Cleared(key[p])
    BY <1>8, <2>1, GotoEffect DEF Gate
  <2>2. CASE ~Cleared(key[p])
    <3>1. DOMAIN alert' = DOMAIN alert
      BY <1>8, <2>2 DEF Gate, Invalid
    <3> QED
      BY <1>8, <2>2, <3>1, ReturnEffect DEF Gate
  <2> QED
    BY <2>1, <2>2
<1>9. CASE Submit(p)
  BY <1>9, ReturnEffect DEF Submit
<1> QED
  BY <1>1, <1>2, <1>3, <1>4, <1>5, <1>6, <1>7, <1>8, <1>9 DEF Approve, Dispatch

LEMMA QuietOthers ==
  ASSUME Typed,
         \/ \E p \in Process, w \in Watch : StaffCancels(p, w)
         \/ \E w \in Watch : StaffPauses(w)
         \/ StopAll \/ RemoveRequest \/ TimePasses \/ WorldChanges \/ UNCHANGED vars
  PROVE  NoNewLook /\ NoNewAlert
<1> USE DEF Typed, NoNewLook, NoNewAlert, Looks, Label
<1>1. ASSUME NEW p \in Process, NEW w \in Watch, StaffCancels(p, w) PROVE NoNewLook /\ NoNewAlert
  <2>1. \A x \in Watch : state[x] # "absent" => state'[x] # "absent"
    BY <1>1, BecomesEffect DEF StaffCancels
  <2>2. \A q \in Process : pc'[q] \in Looks => pc[q] \in Looks /\ q # p
    BY <1>1, GotoEffect DEF StaffCancels
  <2>3. \A q \in Process : q # p => pc'[q] = pc[q] /\ on'[q] = on[q]
    BY <1>1, GotoEffect DEF StaffCancels, TypeOK
  <2>4. UNCHANGED <<due, alert, today, key>>
    BY <1>1 DEF StaffCancels
  <2>5. NoNewLook
    BY <2>1, <2>2, <2>3, <2>4
  <2>6. NoNewAlert
    BY <2>2, <2>3, <2>4
  <2> QED
    BY <2>5, <2>6
<1>2. ASSUME NEW w \in Watch, StaffPauses(w) PROVE NoNewLook /\ NoNewAlert
  BY <1>2, BecomesEffect DEF StaffPauses
<1>3. CASE StopAll
  BY <1>3, BecomesEffect DEF StopAll
<1>4. CASE RemoveRequest
  BY <1>4, BecomesEffect DEF RemoveRequest
<1>5. CASE TimePasses
  BY <1>5 DEF TimePasses
<1>6. CASE WorldChanges \/ UNCHANGED vars
  BY <1>6 DEF WorldChanges, vars
<1> QED
  BY <1>1, <1>2, <1>3, <1>4, <1>5, <1>6

-----------------------------------------------------------------------------
(* The steps that begin a look, make a watch due, or write an alert. *)

\* A look begins by taking the watch from those that are due, which no other look has left there.
LEMMA ClaimKeeps ==
  ASSUME WatchesAssumption, Typed, LookInv, Telling, NEW p \in Process, Claim(p)
  PROVE  LookInv' /\ Telling'
<1>1. CASE on[p] \notin Active \cap due
  <2>1. NoNewLook /\ NoNewAlert
    BY <1>1, ReturnEffect DEF Claim, NoNewLook, NoNewAlert, Looks, Typed
  <2> QED
    BY <2>1, NoNewLookKeeps, NoNewAlertKeeps
<1>2. CASE on[p] \in Active \cap due
  <2>1. /\ pc'[p] = "judge" /\ \A q \in Process : q # p => pc'[q] = pc[q]
        /\ due' = due \ {on[p]} /\ UNCHANGED <<on, read, key, stopping, state>>
    BY <1>2, GotoEffect DEF Claim, Typed, Label
  <2>2. on[p] \in Watch /\ state[on[p]] # "absent"
    BY <1>2 DEF Active
  <2>3. \A q \in Process : pc[q] \in Looks => on[q] # on[p]
    BY <1>2 DEF LookInv, ClaimHolds
  <2>4. LookInv'
    BY <2>1, <2>2, <2>3 DEF LookInv, ClaimHolds, OneLook, Looks
  <2>5. NoNewAlert
    BY <2>1 DEF NoNewAlert, Claim
  <2> QED
    BY <2>4, <2>5, NoNewAlertKeeps
<1> QED
  BY <1>1, <1>2

\* What becomes due is a watch just stored, or one that nobody looks at.
LEMMA DueKeeps ==
  ASSUME WatchesAssumption, Typed, LookInv, Telling,
         \/ \E p \in Process : Create(p)
         \/ \E w \in Watch : DueAgain(w)
  PROVE  LookInv' /\ Telling'
<1>1. ASSUME NEW p \in Process, Create(p) PROVE LookInv' /\ Telling'
  <2>1. /\ pc'[p] = "idle"
        /\ \A q \in Process : q # p => pc'[q] = pc[q] /\ on'[q] = on[q] /\ key'[q] = key[q]
    BY <1>1, ReturnEffect DEF Create, Typed
  <2>2. \A w \in Watch : /\ state[w] # "absent" => state'[w] # "absent"
                         /\ w \in due' => w \in due \/ state[w] = "absent"
    BY <1>1, BecomesEffect DEF Create, Typed
  <2>3. LookInv'
    BY <2>1, <2>2 DEF LookInv, ClaimHolds, OneLook, Looks, Typed, InHand
  <2>4. NoNewAlert
    BY <1>1, <2>1 DEF NoNewAlert, Create
  <2> QED
    BY <2>3, <2>4, NoNewAlertKeeps
<1>2. ASSUME NEW w \in Watch, DueAgain(w) PROVE LookInv' /\ Telling'
  <2>1. NoNewAlert
    BY <1>2 DEF NoNewAlert, DueAgain
  <2>2. LookInv'
    BY <1>2 DEF DueAgain, Looking, LookInv, ClaimHolds, OneLook, Looks
  <2> QED
    BY <2>1, <2>2, NoNewAlertKeeps
<1> QED
  BY <1>1, <1>2

\* The history is read while the look is the only one of its watch ...
LEMMA PriceKeeps ==
  ASSUME WatchesAssumption, Typed, LookInv, Telling, NEW p \in Process, Price(p)
  PROVE  LookInv' /\ Telling'
<1>1. CASE Return(p)
  <2>1. NoNewLook /\ NoNewAlert
    BY <1>1, ReturnEffect DEF Price, NoNewLook, NoNewAlert, Looks, Typed
  <2> QED
    BY <2>1, NoNewLookKeeps, NoNewAlertKeeps
<1>2. CASE ~Return(p)
  <2>1. PICK total \in Total :
          /\ WorthAlert(on[p], read[p], total)
          /\ key' = [key EXCEPT ![p] = <<on[p], read[p], total>>]
          /\ Goto(p, "insert") /\ UNCHANGED <<on, read, stopping>>
    BY <1>2 DEF Price
  <2>2. /\ pc[p] = "price" /\ pc'[p] = "insert" /\ \A q \in Process : q # p => pc'[q] = pc[q]
        /\ UNCHANGED <<state, due, alert, today, on>>
    BY <2>1, GotoEffect DEF Price, Typed, Label
  <2>3. NoNewLook
    BY <2>2 DEF NoNewLook, Looks
  <2>4. /\ WatchOf(key'[p]) = on[p] /\ GenerationOf(key'[p]) = read[p]
        /\ \A q \in Process : q # p => key'[q] = key[q]
    BY <2>1 DEF Typed, TypeOK, WatchOf, GenerationOf
  <2>5. Cardinality(Told(on[p], read[p])) < MaxPerDay
    BY <2>1 DEF WorthAlert, Told
  <2>6. \A w \in Watch, g \in Nat : Told(w, g)' = Told(w, g)
    BY <2>2 DEF Told, AlertsOf
  <2>7. Capped'
    BY <2>2, <2>6 DEF Telling, Capped
  <2>8. RoomLeft'
    <3>1. ASSUME NEW q \in Process, pc'[q] = "insert"
          PROVE  /\ WatchOf(key'[q]) = on'[q]
                 /\ Cardinality(Told(on'[q], GenerationOf(key'[q]))) < MaxPerDay
      <4>1. CASE q = p
        BY <2>2, <2>4, <2>5, <4>1
      <4>2. CASE q # p
        BY <2>2, <2>4, <3>1, <4>2 DEF Telling, RoomLeft
      <4> QED
        BY <4>1, <4>2
    <3> QED
      BY <2>2, <3>1 DEF RoomLeft, Told, AlertsOf
  <2> QED
    BY <2>3, <2>7, <2>8, NoNewLookKeeps DEF Telling
<1> QED
  BY <1>1, <1>2

\* ... and the alert written while it still is, so the room it found is still there.
LEMMA InsertKeeps ==
  ASSUME WatchesAssumption, Typed, LookInv, Telling, NEW p \in Process, InsertAlert(p)
  PROVE  LookInv' /\ Telling'
<1>1. /\ pc[p] = "insert" /\ pc'[p] = "idle"
      /\ \A q \in Process : q # p => pc'[q] = pc[q] /\ on'[q] = on[q] /\ key'[q] = key[q]
  BY ReturnEffect DEF InsertAlert, Typed
<1>2. LookInv'
  <2>1. NoNewLook
    BY <1>1 DEF InsertAlert, NoNewLook, Looks
  <2> QED
    BY <2>1, NoNewLookKeeps
<1>3. CASE key[p] \in DOMAIN alert
  <2>1. NoNewAlert
    BY <1>1, <1>3 DEF InsertAlert, NoNewAlert
  <2> QED
    BY <1>2, <2>1, NoNewAlertKeeps
<1>4. CASE key[p] \notin DOMAIN alert
  <2> DEFINE k == key[p]
  <2>1. /\ k \in Key /\ WatchOf(k) = on[p] /\ WatchOf(k) \in Watch /\ GenerationOf(k) \in Nat
        /\ Cardinality(Told(WatchOf(k), GenerationOf(k))) < MaxPerDay
    BY <1>1, KeyTypes DEF Typed, InHand, Telling, RoomLeft
  <2>2. DOMAIN alert' = DOMAIN alert \cup {k} /\ today' = today \cup {k}
    BY <1>4 DEF InsertAlert, Put
  <2>3. IsFiniteSet(today')
    BY <2>2, FS_AddElement DEF Telling, Capped
  <2>4. ASSUME NEW w \in Watch, NEW g \in Nat, <<w, g>> # <<WatchOf(k), GenerationOf(k)>>
        PROVE  Told(w, g)' = Told(w, g)
    BY <2>2, <2>4, <1>4 DEF Told, AlertsOf, Typed, TypeOK
  <2>5. ASSUME NEW w \in Watch, NEW g \in Nat, w = WatchOf(k), g = GenerationOf(k)
        PROVE  Cardinality(Told(w, g)') <= MaxPerDay
    <3>1. Told(w, g)' = Told(w, g) \cup {k}
      BY <2>2, <2>5, <1>4 DEF Told, AlertsOf, Typed, TypeOK
    <3>2. IsFiniteSet(Told(w, g)) /\ k \notin Told(w, g)
      BY <1>4, FS_Subset DEF Told, AlertsOf, Telling, Capped
    <3>3. Cardinality(Told(w, g)') = Cardinality(Told(w, g)) + 1
      BY <3>1, <3>2, FS_AddElement
    <3>4. Cardinality(Told(w, g)) \in Nat /\ MaxPerDay \in Nat
      BY <3>2, FS_CardinalityType DEF WatchesAssumption
    <3> QED
      BY <2>1, <2>5, <3>3, <3>4
  <2>6. Capped'
    <3> SUFFICES ASSUME NEW w \in Watch, NEW g \in Nat PROVE Cardinality(Told(w, g)') <= MaxPerDay
      BY <2>3 DEF Capped
    <3>1. CASE <<w, g>> = <<WatchOf(k), GenerationOf(k)>>
      BY <2>5, <3>1
    <3>2. CASE <<w, g>> # <<WatchOf(k), GenerationOf(k)>>
      BY <2>4, <3>2 DEF Telling, Capped
    <3> QED
      BY <3>1, <3>2
  <2>7. RoomLeft'
    <3> SUFFICES ASSUME NEW q \in Process, q # p, pc[q] = "insert",
                        NEW w \in Watch, NEW g \in Nat, w = on[q], g = GenerationOf(key[q])
                 PROVE  WatchOf(key[q]) = w /\ Cardinality(Told(w, g)') < MaxPerDay
      <4>1. \A q \in Process : pc[q] = "insert" => on[q] \in Watch /\ GenerationOf(key[q]) \in Nat
        BY KeyTypes DEF Typed, InHand
      <4> QED
        BY <1>1, <4>1 DEF RoomLeft, Told, AlertsOf
    <3>1. w # WatchOf(k)
      BY <1>1, <2>1 DEF LookInv, OneLook, Looks
    <3>2. Told(w, g)' = Told(w, g)
      BY <2>4, <3>1
    <3> QED
      BY <3>2 DEF Telling, RoomLeft
  <2> QED
    BY <1>2, <2>6, <2>7 DEF Telling
<1> QED
  BY <1>3, <1>4

-----------------------------------------------------------------------------
(* Stops. *)

LEMMA StopsKeep ==
  ASSUME Typed, StopsArePast, Next \/ UNCHANGED vars
  PROVE  StopsArePast'
<1> USE DEF Typed
<1>1. /\ stoppedAt \in [Watch -> Nat] /\ generation \in [Watch -> Nat]
  BY DEF TypeOK
<1>2. CASE UNCHANGED <<generation, stoppedAt>>
  BY <1>2 DEF StopsArePast
<1>3. CASE UNCHANGED stoppedAt /\ \E ws : Bump(ws)
  <2>1. generation' \in [Watch -> Nat] /\ \A w \in Watch : generation'[w] >= generation[w]
    BY <1>3, BumpEffect
  <2> QED
    BY <1>1, <1>3, <2>1 DEF StopsArePast
<1>4. ASSUME NEW p \in Process, NEW revises \in BOOLEAN, CustomerStops(p, revises)
      PROVE  StopsArePast'
  BY <1>1, <1>4 DEF CustomerStops, Bump, StopsArePast
<1>5. ASSUME NEW p \in Process, NEW w \in Watch, StaffCancels(p, w)
      PROVE  StopsArePast'
  BY <1>1, <1>5 DEF StaffCancels, Bump, StopsArePast
<1>6. \/ UNCHANGED <<generation, stoppedAt>>
      \/ UNCHANGED stoppedAt /\ \E ws : Bump(ws)
      \/ \E p \in Process, revises \in BOOLEAN : CustomerStops(p, revises)
      \/ \E p \in Process, w \in Watch : StaffCancels(p, w)
  <2>1. ASSUME NEW p \in Process, Look(p) \/ LookDies(p)
        PROVE  UNCHANGED stoppedAt /\ (UNCHANGED generation \/ \E ws : Bump(ws))
    BY <2>1 DEF Look, LookDies, ReadDue, Claim, Judge, PauseWatch, Price, InsertAlert
  <2>2. ASSUME NEW p \in Process, Message(p)
        PROVE  \/ UNCHANGED stoppedAt /\ (UNCHANGED generation \/ \E ws : Bump(ws))
               \/ \E revises \in BOOLEAN : CustomerStops(p, revises)
    BY <2>2 DEF Message, CountActive, Create, StopWatchAlerts, BlockStopped, Revise, Supersede,
                BlockOld
  <2>3. ASSUME NEW p \in Process, Approve(p) \/ ApprovalDies(p) \/ Dispatch(p)
        PROVE  UNCHANGED <<generation, stoppedAt>>
    BY <2>3 DEF Approve, ApprovalDies, Dispatch, ReadAlert, CheckAlert, RejectAlert, QueueAlert,
                BindAlert, ClaimIntent, Gate, Submit
  <2>4. ASSUME NEW w \in Watch, StaffPauses(w) \/ DueAgain(w)
        PROVE  UNCHANGED stoppedAt /\ (UNCHANGED generation \/ \E ws : Bump(ws))
    BY <2>4 DEF StaffPauses, DueAgain
  <2>5. ASSUME StopAll \/ RemoveRequest \/ TimePasses \/ WorldChanges \/ UNCHANGED vars
        PROVE  UNCHANGED <<generation, stoppedAt>>
    BY <2>5 DEF StopAll, RemoveRequest, TimePasses, WorldChanges, vars
  <2> QED
    BY <2>1, <2>2, <2>3, <2>4, <2>5 DEF Next
<1> QED
  BY <1>2, <1>3, <1>4, <1>5, <1>6

-----------------------------------------------------------------------------
(* The theorems. *)

LEMMA IInvInit == WatchesAssumption /\ Init => IInv
<1> SUFFICES ASSUME WatchesAssumption, Init PROVE IInv
  OBVIOUS
<1>1. Typed
  BY TypeInit
<1>2. LookInv /\ RoomLeft
  BY DEF Init, LookInv, ClaimHolds, OneLook, Looks, RoomLeft
<1>3. Capped
  <2>1. today = {}
    BY DEF Init, NoAlerts
  <2>2. \A w \in Watch, g \in Nat : Told(w, g) = {}
    BY <2>1 DEF Told
  <2>3. IsFiniteSet({}) /\ Cardinality({}) = 0
    BY FS_EmptySet
  <2> QED
    BY <2>1, <2>2, <2>3 DEF Capped, WatchesAssumption
<1>4. StopsArePast
  BY DEF Init, NoWatches, StopsArePast
<1> QED
  BY <1>1, <1>2, <1>3, <1>4 DEF IInv, Telling

LEMMA IInvNext == WatchesAssumption /\ IInv /\ [Next]_vars => IInv'
<1> SUFFICES ASSUME WatchesAssumption, IInv, [Next]_vars PROVE IInv'
  OBVIOUS
<1> USE DEF IInv
<1>1. StopsArePast'
  BY StopsKeep
<1>2. Typed'
  <2>1. CASE UNCHANGED vars
    BY <2>1 DEF vars, Typed, TypeOK, InHand
  <2>2. CASE Next
    BY <2>2, TypeMessage, TypeLook, TypeApprove, TypeDispatch, TypeOthers DEF Next
  <2> QED
    BY <2>1, <2>2
<1>3. LookInv' /\ Telling'
  <2>1. CASE NoNewLook /\ NoNewAlert
    BY <2>1, NoNewLookKeeps, NoNewAlertKeeps
  <2>2. CASE \E p \in Process : Claim(p) \/ Create(p) \/ Price(p) \/ InsertAlert(p)
    BY <2>2, ClaimKeeps, DueKeeps, PriceKeeps, InsertKeeps
  <2>3. CASE \E w \in Watch : DueAgain(w)
    BY <2>3, DueKeeps
  <2>4. ASSUME NEW p \in Process, Message(p)
        PROVE  Create(p) \/ (NoNewLook /\ NoNewAlert)
    BY <2>4, QuietMessage DEF Message
  <2>5. ASSUME NEW p \in Process, Look(p) \/ LookDies(p)
        PROVE  \/ Claim(p) \/ Price(p) \/ InsertAlert(p)
               \/ NoNewLook /\ NoNewAlert
    BY <2>5, QuietLook DEF Look
  <2>6. ASSUME NEW p \in Process, Approve(p) \/ ApprovalDies(p) \/ Dispatch(p)
        PROVE  NoNewLook /\ NoNewAlert
    BY <2>6, QuietMail
  <2>7. ASSUME \/ \E p \in Process, w \in Watch : StaffCancels(p, w)
               \/ \E w \in Watch : StaffPauses(w)
               \/ StopAll \/ RemoveRequest \/ TimePasses \/ WorldChanges \/ UNCHANGED vars
        PROVE  NoNewLook /\ NoNewAlert
    BY <2>7, QuietOthers
  <2> QED
    BY <2>1, <2>2, <2>3, <2>4, <2>5, <2>6, <2>7 DEF Next
<1> QED
  BY <1>1, <1>2, <1>3

\* The types, the claim each look holds, the room it found under the cap, and that a confirmed
\* stop is of an earlier generation, hold in every reachable state.
THEOREM WatchesInvariant == Spec => []IInv
<1>1. Init => IInv
  BY WatchesAssumption, IInvInit
<1>2. IInv /\ [Next]_vars => IInv'
  BY WatchesAssumption, IInvNext
<1> QED
  BY <1>1, <1>2, PTL DEF Spec

\* No two looks at one watch, and no more alerts of a generation in a day than the cap
\* (evaluateDueWatches, targetAndRepeats).
THEOREM WatchesKeepTheirLimits == Spec => []WatchInv
<1>1. IInv => WatchInv
  <2> SUFFICES ASSUME IInv PROVE WatchInv
    OBVIOUS
  <2>1. OneLookAtATime
    BY DEF IInv, LookInv, OneLook, Looks, OneLookAtATime
  <2>2. DailyCap
    BY DEF IInv, Telling, Capped, Told, DailyCap, Typed, TypeOK
  <2> QED
    BY <2>1, <2>2 DEF IInv, Typed, WatchInv
<1> QED
  BY <1>1, WatchesInvariant, PTL

\* A process reaches "submit" from the gate only by passing it.
LEMMA OnlyTheGate ==
  ASSUME TypeOK, [Next]_vars, NEW p \in Process, pc[p] = "gate", pc'[p] = "submit"
  PROVE  Gate(p) /\ Cleared(key[p])
<1> USE DEF Label
<1>1. ASSUME NEW q \in Process, q # p,
             Look(q) \/ Message(q) \/ Approve(q) \/ Dispatch(q) \/ LookDies(q) \/ ApprovalDies(q)
      PROVE  pc'[p] = pc[p]
  <2>1. (\E label \in Label : Goto(q, label)) => pc'[p] = pc[p]
    BY <1>1, GotoEffect
  <2>2. Return(q) => pc'[p] = pc[p]
    BY <1>1, ReturnEffect
  <2>3. Return(q) \/ \E label \in Label : Goto(q, label)
    <3>1. CASE Look(q) \/ LookDies(q)
      BY <3>1 DEF Look, LookDies, ReadDue, Claim, Judge, PauseWatch, Price, InsertAlert
    <3>2. CASE Message(q)
      BY <3>2 DEF Message, CountActive, Create, CustomerStops, StopWatchAlerts, BlockStopped,
                  Revise, Supersede, BlockOld
    <3>3. CASE Approve(q) \/ ApprovalDies(q)
      BY <3>3 DEF Approve, ApprovalDies, ReadAlert, CheckAlert, RejectAlert, QueueAlert, BindAlert
    <3>4. CASE Dispatch(q)
      BY <3>4 DEF Dispatch, ClaimIntent, Gate, Submit
    <3> QED
      BY <1>1, <3>1, <3>2, <3>3, <3>4
  <2> QED
    BY <2>1, <2>2, <2>3
<1>2. ASSUME NEW q \in Process, NEW w \in Watch, StaffCancels(q, w)
      PROVE  pc'[p] \in {pc[p], "stopAlerts"}
  BY <1>2, GotoEffect DEF StaffCancels
<1>3. ASSUME \/ \E w \in Watch : StaffPauses(w) \/ DueAgain(w)
             \/ StopAll \/ RemoveRequest \/ TimePasses \/ WorldChanges \/ UNCHANGED vars
      PROVE  pc' = pc
  BY <1>3 DEF StaffPauses, DueAgain, StopAll, RemoveRequest, TimePasses, WorldChanges, vars
<1>4. Look(p) \/ Message(p) \/ Approve(p) \/ Dispatch(p) \/ LookDies(p) \/ ApprovalDies(p)
  BY <1>1, <1>2, <1>3 DEF Next
<1>5. Gate(p)
  BY <1>4 DEF Look, LookDies, ReadDue, Claim, Judge, PauseWatch, Price, InsertAlert,
              Message, CountActive, Create, CustomerStops, StopWatchAlerts, BlockStopped, Revise,
              Supersede, BlockOld, Approve, ApprovalDies, ReadAlert, CheckAlert, RejectAlert,
              QueueAlert, BindAlert, Dispatch, ClaimIntent, Submit
<1>6. Cleared(key[p])
  BY <1>5, ReturnEffect DEF Gate
<1> QED
  BY <1>5, <1>6

\* An alert found before a confirmed stop never passes the gate after it, whatever its approval,
\* a look that overwrites the stop, or a resumed watch do meanwhile (dispatchSend's gate, A26).
THEOREM StopsAreFinal == Spec => StoppedStaysSilent
<1>1. IInv /\ [Next]_vars =>
        \A p \in Process : pc[p] = "gate" /\ pc'[p] = "submit"
                            => GenerationOf(key[p]) > stoppedAt[WatchOf(key[p])]
  <2> SUFFICES ASSUME IInv, [Next]_vars, NEW p \in Process, pc[p] = "gate", pc'[p] = "submit"
               PROVE  GenerationOf(key[p]) > stoppedAt[WatchOf(key[p])]
    OBVIOUS
  <2>1. Promised(key[p])
    BY OnlyTheGate DEF IInv, Typed, Cleared
  <2>2. /\ WatchOf(key[p]) \in Watch
        /\ generation[WatchOf(key[p])] = GenerationOf(key[p])
    BY <2>1 DEF Promised, Active
  <2> QED
    BY <2>2 DEF IInv, StopsArePast, Typed, TypeOK
<1> QED
  BY <1>1, WatchesInvariant, PTL DEF Spec, StoppedStaysSilent
=============================================================================
