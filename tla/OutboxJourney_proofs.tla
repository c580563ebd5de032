------------------------ MODULE OutboxJourney_proofs ------------------------
(***************************************************************************)
(* Proofs about the queue of work and about the longest work it runs: the  *)
(* modules Outbox and Journey, which share no name.                        *)
(*                                                                         *)
(* Outbox, for every set of keys and workers, every budget, batch size and *)
(* number of faults.  LeaseAccounting and PendingWithinBudget lean on each *)
(* other: a failure judged on seen[w] keeps a pending row within its       *)
(* budget only because seen[w] is the row's own count while w holds the    *)
(* token, and that count is only reset on rows that carry no token.  Both  *)
(* need to know which row a worker has in hand; IInv adds that, and what   *)
(* the refinement of WorkQueue needs: rows in hand exist, and a worker     *)
(* that is about to mark a row dispatched has run its handler.             *)
(*                                                                         *)
(* Journey, for every set of cases and whatever their sources list: what a *)
(* draft says is followed from the reads it was made from, through every   *)
(* crash, re-read, expiry and change of rights, to the mail.  JourneyInv   *)
(* says where reads come from, that the pick is the best of those a        *)
(* research saw, that a claim of the trend carries the trend's own reads,  *)
(* and which states of request, research, draft and mail go together.      *)
(***************************************************************************)
EXTENDS Outbox, Journey, FiniteSetTheorems, TLAPS

InHand(w) ==
  /\ pc[w] \in {"idle", "next"} => cur[w] = NoKey
  /\ pc[w] = "idle" => batch[w] = {}
  /\ pc[w] \notin {"idle", "next"} => cur[w] \in Key
  /\ pc[w] = "returned" => cur[w] \in ran
  /\ cur[w] \notin batch[w]

Rows ==
  /\ \A k \in Key : state[k] = "absent" => attempts[k] = 0
  /\ \A w \in Worker : \A k \in Held(w) : state[k] # "absent"

IInv ==
  /\ TypeOK
  /\ LeaseAccounting
  /\ PendingWithinBudget
  /\ \A w \in Worker : InHand(w)
  /\ Rows

-----------------------------------------------------------------------------
(* Type correctness *)

\* One attempt more is still a number of attempts, within the budget.
LEMMA BumpBound ==
  ASSUME TypeOK, NEW k \in Key
  PROVE  Bump(k) \in Nat
BY OutboxAssumption DEF TypeOK, Bump

LEMMA TypeInit == Init => TypeOK
BY OutboxAssumption DEF Init, TypeOK, RowState

\* Closing the event in hand leaves the worker's variables in their sets.
LEMMA EndEventType ==
  ASSUME TypeOK, NEW w \in Worker, cur[w] \in Key, EndEvent(w)
  PROVE  /\ pc' \in [Worker -> {"idle", "next", "running", "returned", "threw",
                                "threw_permanent", "dead_lettered"}]
         /\ batch' \in [Worker -> SUBSET Key]
         /\ cur' \in [Worker -> Key \cup {NoKey}]
         /\ seen' \in [Worker -> [Key -> Nat]]
BY DEF TypeOK, EndEvent

LEMMA TypeNext ==
  ASSUME TypeOK, \A w \in Worker : InHand(w), [Next]_vars
  PROVE  TypeOK'
<1> USE OutboxAssumption DEF TypeOK, RowState, rowVars, workerVars, historyVars
<1>1. CASE UNCHANGED vars
  BY <1>1 DEF vars
<1>2. ASSUME NEW k \in Key, EnqueueOutbox(k) PROVE TypeOK'
  BY <1>2 DEF EnqueueOutbox
<1>3. ASSUME NEW k \in Key, TimeStep(k) PROVE TypeOK'
  BY <1>3 DEF TimeStep, LeaseExpires, LeaseRunsOut, BackoffElapses
<1>4. ASSUME NEW k \in Key, LeaseLost(k) PROVE TypeOK'
  BY <1>4 DEF LeaseLost, LeaseRunsOut
<1>5. ASSUME NEW k \in Key, ReplayDead(k) PROVE TypeOK'
  BY <1>5 DEF ReplayDead
<1>6. ASSUME NEW w \in Worker, LeaseDueOutbox(w) PROVE TypeOK'
  <2>1. PICK S \in SUBSET Due :
          /\ state' = [k \in Key |-> IF k \in S THEN "leased" ELSE state[k]]
          /\ token' = [k \in Key |-> IF k \in S THEN w ELSE token[k]]
          /\ expired' = [k \in Key |-> IF k \in S THEN FALSE ELSE expired[k]]
          /\ attempts' = [k \in Key |-> IF k \in S THEN Bump(k) ELSE attempts[k]]
          /\ batch' = [batch EXCEPT ![w] = S]
          /\ seen' = [seen EXCEPT ![w] =
                        [k \in Key |-> IF k \in S THEN Bump(k) ELSE 0]]
    BY <1>6 DEF LeaseDueOutbox
  <2>2. S \subseteq Key
    BY DEF Due
  <2>3. pc' = [pc EXCEPT ![w] = "next"] /\ UNCHANGED <<ready, cur, historyVars>>
    BY <1>6 DEF LeaseDueOutbox
  <2>4. \A k \in Key : Bump(k) \in Nat
    BY BumpBound
  <2> QED BY <2>1, <2>2, <2>3, <2>4
<1>7. ASSUME NEW w \in Worker, WorkerStep(w) PROVE TypeOK'
  <2>1. CASE StartEvent(w)
    BY <2>1 DEF StartEvent
  <2>2. CASE HandlerReturns(w)
    BY <2>2 DEF HandlerReturns, InHand
  <2>3. CASE HandlerThrows(w)
    BY <2>3 DEF HandlerThrows
  <2>4. CASE MarkDispatched(w)
    <3>1. cur[w] \in Key /\ EndEvent(w)
      BY <2>4 DEF MarkDispatched, InHand
    <3>2. /\ state' \in [Key -> RowState] /\ token' \in [Key -> Worker \cup {NoWorker}]
          /\ expired' \in [Key -> BOOLEAN] /\ UNCHANGED <<ready, attempts>>
      <4>1. CASE token[cur[w]] = w
        <5>1. /\ state' = [state EXCEPT ![cur[w]] = "dispatched"]
              /\ token' = [token EXCEPT ![cur[w]] = NoWorker]
              /\ expired' = [expired EXCEPT ![cur[w]] = FALSE]
              /\ UNCHANGED <<ready, attempts>>
          BY <2>4, <4>1 DEF MarkDispatched
        <5> QED BY <3>1, <5>1
      <4>2. CASE token[cur[w]] # w
        BY <2>4, <4>2 DEF MarkDispatched
      <4> QED BY <4>1, <4>2
    <3> QED BY <2>4, <3>1, <3>2, EndEventType DEF MarkDispatched
  <2>5. CASE MarkFailed(w)
    <3>1. cur[w] \in Key
      BY <2>5 DEF MarkFailed, InHand
    <3>2. /\ state' \in [Key -> RowState] /\ token' \in [Key -> Worker \cup {NoWorker}]
          /\ expired' \in [Key -> BOOLEAN] /\ ready' \in [Key -> BOOLEAN]
          /\ attempts' \in [Key -> Nat]
      <4>1. CASE token[cur[w]] = w
        <5>1. PICK s \in {"dead", "pending"} :
                /\ state' = [state EXCEPT ![cur[w]] = s]
                /\ token' = [token EXCEPT ![cur[w]] = NoWorker]
                /\ expired' = [expired EXCEPT ![cur[w]] = FALSE]
                /\ ready' = [ready EXCEPT ![cur[w]] = FALSE]
                /\ UNCHANGED attempts
          BY <2>5, <4>1 DEF MarkFailed
        <5> QED BY <3>1, <5>1
      <4>2. CASE token[cur[w]] # w
        BY <2>5, <4>2 DEF MarkFailed
      <4> QED BY <4>1, <4>2
    <3>3. /\ pc' \in [Worker -> {"idle", "next", "running", "returned", "threw",
                                "threw_permanent", "dead_lettered"}]
          /\ batch' \in [Worker -> SUBSET Key] /\ cur' \in [Worker -> Key \cup {NoKey}]
          /\ seen' \in [Worker -> [Key -> Nat]]
      <4>1. CASE LastFailure(w)
        BY <2>5, <4>1 DEF MarkFailed
      <4>2. CASE ~LastFailure(w)
        <5>1. EndEvent(w)
          BY <2>5, <4>2 DEF MarkFailed
        <5> QED BY <3>1, <5>1, EndEventType
      <4> QED BY <4>1, <4>2
    <3> QED BY <2>5, <3>2, <3>3 DEF MarkFailed
  <2>6. CASE HandOffFailedWork(w)
    <3>1. cur[w] \in Key /\ EndEvent(w)
      BY <2>6 DEF HandOffFailedWork, InHand
    <3> QED BY <2>6, <3>1, EndEventType DEF HandOffFailedWork
  <2> QED BY <1>7, <2>1, <2>2, <2>3, <2>4, <2>5, <2>6 DEF WorkerStep
<1>8. ASSUME NEW w \in Worker, Crash(w) PROVE TypeOK'
  BY <1>8 DEF Crash
<1> QED BY <1>1, <1>2, <1>3, <1>4, <1>5, <1>6, <1>7, <1>8 DEF Next

-----------------------------------------------------------------------------
(* The inductive invariant *)

THEOREM IInvInit == Init => IInv
<1> SUFFICES ASSUME Init PROVE IInv
  OBVIOUS
<1>1. TypeOK
  BY TypeInit
<1>2. LeaseAccounting
  BY OutboxAssumption DEF Init, LeaseAccounting, Held
<1>3. PendingWithinBudget /\ \A w \in Worker : InHand(w)
  BY OutboxAssumption DEF Init, PendingWithinBudget, InHand
<1>4. Rows
  BY OutboxAssumption DEF Init, Rows, Held
<1> QED BY <1>1, <1>2, <1>3, <1>4 DEF IInv

\* What leasing does to each row and to the worker, without the batch limit.
LEMMA LeaseEffect ==
  ASSUME IInv, NEW w \in Worker, LeaseDueOutbox(w)
  PROVE  \E S \in SUBSET Key :
           /\ \A k \in S : state[k] \in {"pending", "leased"}
           /\ state' = [k \in Key |-> IF k \in S THEN "leased" ELSE state[k]]
           /\ token' = [k \in Key |-> IF k \in S THEN w ELSE token[k]]
           /\ attempts' = [k \in Key |-> IF k \in S THEN Bump(k) ELSE attempts[k]]
           /\ batch' = [batch EXCEPT ![w] = S]
           /\ seen' = [seen EXCEPT ![w] =
                         [k \in Key |-> IF k \in S THEN Bump(k) ELSE 0]]
           /\ pc[w] = "idle" /\ cur[w] = NoKey
           /\ pc' = [pc EXCEPT ![w] = "next"]
           /\ UNCHANGED <<cur, ran>>
<1>1. PICK S \in SUBSET Due :
        /\ state' = [k \in Key |-> IF k \in S THEN "leased" ELSE state[k]]
        /\ token' = [k \in Key |-> IF k \in S THEN w ELSE token[k]]
        /\ attempts' = [k \in Key |-> IF k \in S THEN Bump(k) ELSE attempts[k]]
        /\ batch' = [batch EXCEPT ![w] = S]
        /\ seen' = [seen EXCEPT ![w] =
                      [k \in Key |-> IF k \in S THEN Bump(k) ELSE 0]]
  BY DEF LeaseDueOutbox
<1>2. S \subseteq Key /\ \A k \in S : state[k] \in {"pending", "leased"}
  BY DEF Due
<1>3. /\ pc[w] = "idle" /\ cur[w] = NoKey
      /\ pc' = [pc EXCEPT ![w] = "next"]
      /\ UNCHANGED <<cur, ran>>
  BY DEF LeaseDueOutbox, historyVars, IInv, InHand
<1> QED BY <1>1, <1>2, <1>3

LEMMA LeaseStep ==
  ASSUME IInv, NEW w \in Worker, LeaseDueOutbox(w), TypeOK'
  PROVE  IInv'
<1> USE OutboxAssumption DEF TypeOK
<1>1. TypeOK /\ LeaseAccounting /\ PendingWithinBudget /\ Rows
      /\ \A v \in Worker : InHand(v)
  BY DEF IInv
<1>2. PICK S \in SUBSET Key :
        /\ \A k \in S : state[k] \in {"pending", "leased"}
        /\ state' = [k \in Key |-> IF k \in S THEN "leased" ELSE state[k]]
        /\ token' = [k \in Key |-> IF k \in S THEN w ELSE token[k]]
        /\ attempts' = [k \in Key |-> IF k \in S THEN Bump(k) ELSE attempts[k]]
        /\ batch' = [batch EXCEPT ![w] = S]
        /\ seen' = [seen EXCEPT ![w] =
                      [k \in Key |-> IF k \in S THEN Bump(k) ELSE 0]]
        /\ pc[w] = "idle" /\ cur[w] = NoKey
        /\ pc' = [pc EXCEPT ![w] = "next"]
        /\ UNCHANGED <<cur, ran>>
  BY LeaseEffect
<1>3. \A k \in Key : Bump(k) \in Nat
  BY <1>1, BumpBound
<1>4. LeaseAccounting'
  <2>1. \A k \in Key : (state[k] = "leased" <=> token[k] # NoWorker)'
    BY <1>1, <1>2 DEF LeaseAccounting
  <2>2. ASSUME NEW v \in Worker, NEW k \in Held(v)', token'[k] = v
        PROVE  seen'[v][k] = attempts'[k]
    <3>1. k \in Key
      BY <1>1, <1>2, <2>2 DEF Held
    <3>2. CASE v = w
      <4>1. k \in S
        BY <1>1, <1>2, <2>2, <3>2 DEF Held
      <4> QED BY <1>1, <1>2, <1>3, <3>1, <3>2, <4>1
    <3>3. CASE v # w
      <4>1. k \notin S /\ token[k] = v /\ k \in Held(v)
        BY <1>1, <1>2, <2>2, <3>1, <3>3 DEF Held
      <4>2. seen[v][k] = attempts[k]
        BY <1>1, <4>1 DEF LeaseAccounting
      <4> QED BY <1>1, <1>2, <3>1, <3>3, <4>1, <4>2
    <3> QED BY <3>2, <3>3
  <2> QED BY <2>1, <2>2 DEF LeaseAccounting
<1>5. PendingWithinBudget'
  BY <1>1, <1>2 DEF PendingWithinBudget
<1>6. \A v \in Worker : InHand(v)'
  BY <1>1, <1>2 DEF InHand
<1>7. Rows'
  <2>1. \A k \in Key : state'[k] = "absent" => attempts'[k] = 0
    BY <1>1, <1>2 DEF Rows
  <2>2. \A v \in Worker : \A k \in Held(v)' : state'[k] # "absent"
    BY <1>1, <1>2 DEF Rows, Held
  <2> QED BY <2>1, <2>2 DEF Rows
<1> QED BY <1>4, <1>5, <1>6, <1>7 DEF IInv

\* Steps that take a row from one state to another without touching workers.
LEMMA RowStep ==
  ASSUME IInv, TypeOK', NEW k \in Key,
         EnqueueOutbox(k) \/ TimeStep(k) \/ LeaseLost(k) \/ ReplayDead(k)
  PROVE  IInv'
<1> USE OutboxAssumption DEF TypeOK, workerVars, historyVars, Held
<1>1. TypeOK /\ LeaseAccounting /\ PendingWithinBudget /\ Rows
      /\ \A v \in Worker : InHand(v)
  BY DEF IInv
<1>2. CASE EnqueueOutbox(k)
  <2>1. LeaseAccounting'
    BY <1>1, <1>2 DEF EnqueueOutbox, LeaseAccounting
  <2>2. PendingWithinBudget'
    BY <1>1, <1>2 DEF EnqueueOutbox, PendingWithinBudget, Rows
  <2>3. \A v \in Worker : InHand(v)'
    BY <1>1, <1>2 DEF EnqueueOutbox, InHand
  <2>4. Rows'
    BY <1>1, <1>2 DEF EnqueueOutbox, Rows
  <2> QED BY <2>1, <2>2, <2>3, <2>4 DEF IInv
<1>3. CASE TimeStep(k) \/ LeaseLost(k)
  <2>1. UNCHANGED <<state, token, attempts, workerVars, ran>>
    BY <1>3 DEF TimeStep, LeaseLost, LeaseExpires, LeaseRunsOut, BackoffElapses
  <2> QED BY <1>1, <2>1 DEF IInv, LeaseAccounting, PendingWithinBudget, InHand, Rows
<1>4. CASE ReplayDead(k)
  <2>1. LeaseAccounting'
    BY <1>1, <1>4 DEF ReplayDead, LeaseAccounting
  <2>2. PendingWithinBudget'
    BY <1>1, <1>4 DEF ReplayDead, PendingWithinBudget
  <2>3. \A v \in Worker : InHand(v)'
    BY <1>1, <1>4 DEF ReplayDead, InHand
  <2>4. Rows'
    BY <1>1, <1>4 DEF ReplayDead, Rows
  <2> QED BY <2>1, <2>2, <2>3, <2>4 DEF IInv
<1> QED BY <1>2, <1>3, <1>4

\* Closing the event in hand: the worker holds the rest of its batch, with the
\* same counts; other workers are as they were.
LEMMA EndEventEffect ==
  ASSUME IInv, NEW w \in Worker, cur[w] \in Key, EndEvent(w)
  PROVE  /\ Held(w)' \subseteq Held(w) \ {cur[w]}
         /\ \A k \in Held(w)' : seen'[w][k] = seen[w][k]
         /\ \A v \in Worker \ {w} :
              Held(v)' = Held(v) /\ seen'[v] = seen[v] /\ pc'[v] = pc[v]
              /\ cur'[v] = cur[v] /\ batch'[v] = batch[v]
         /\ pc'[w] \in {"idle", "next"} /\ cur'[w] = NoKey
         /\ pc'[w] = "idle" => batch'[w] = {}
         /\ cur'[w] \notin batch'[w]
<1> USE OutboxAssumption DEF TypeOK
<1>1. TypeOK /\ cur[w] \notin batch[w]
  BY DEF IInv, InHand
<1>2. /\ cur' = [cur EXCEPT ![w] = NoKey]
      /\ seen' = [seen EXCEPT ![w][cur[w]] = 0]
      /\ pc' = [pc EXCEPT ![w] = IF batch[w] = {} THEN "idle" ELSE "next"]
      /\ batch' = batch
  BY DEF EndEvent
<1>3. Held(w)' \subseteq Held(w) \ {cur[w]}
  BY <1>1, <1>2 DEF Held
<1>4. \A k \in Held(w)' : seen'[w][k] = seen[w][k]
  BY <1>1, <1>2 DEF Held
<1>5. \A v \in Worker \ {w} :
        Held(v)' = Held(v) /\ seen'[v] = seen[v] /\ pc'[v] = pc[v]
        /\ cur'[v] = cur[v] /\ batch'[v] = batch[v]
  BY <1>1, <1>2 DEF Held
<1> QED BY <1>1, <1>2, <1>3, <1>4, <1>5

\* An event that ends with its row untouched, or released by the worker that
\* holds its token, to "pending" only with an attempt left.
LEMMA EndStep ==
  ASSUME IInv, TypeOK', NEW w \in Worker, cur[w] \in Key, EndEvent(w),
         NEW to \in {"dispatched", "dead", "pending"},
         \/ UNCHANGED <<state, token, attempts>>
         \/ /\ token[cur[w]] = w
            /\ state' = [state EXCEPT ![cur[w]] = to]
            /\ token' = [token EXCEPT ![cur[w]] = NoWorker]
            /\ UNCHANGED attempts
            /\ to = "pending" => seen[w][cur[w]] < Budget[cur[w]],
         UNCHANGED ran
  PROVE  IInv'
<1> USE OutboxAssumption DEF TypeOK
<1>1. TypeOK /\ LeaseAccounting /\ PendingWithinBudget /\ Rows
      /\ \A v \in Worker : InHand(v)
  BY DEF IInv
<1>2. /\ Held(w)' \subseteq Held(w) \ {cur[w]}
      /\ \A k \in Held(w)' : seen'[w][k] = seen[w][k]
      /\ \A v \in Worker \ {w} :
           Held(v)' = Held(v) /\ seen'[v] = seen[v] /\ pc'[v] = pc[v]
           /\ cur'[v] = cur[v] /\ batch'[v] = batch[v]
      /\ pc'[w] \in {"idle", "next"} /\ cur'[w] = NoKey
      /\ pc'[w] = "idle" => batch'[w] = {}
      /\ cur'[w] \notin batch'[w]
  BY EndEventEffect
<1>3. \A v \in Worker : InHand(v)'
  <2>1. InHand(w)'
    BY <1>2 DEF InHand
  <2>2. ASSUME NEW v \in Worker \ {w} PROVE InHand(v)'
    BY <1>1, <1>2 DEF InHand
  <2> QED BY <2>1, <2>2
<1>4. \A v \in Worker : Held(v) \subseteq Key /\ Held(v)' \subseteq Held(v)
  BY <1>1, <1>2 DEF Held
<1>5. \A v \in Worker : \A k \in Held(v)' : seen'[v][k] = seen[v][k]
  BY <1>2
<1>6. cur[w] \in Held(w)
  BY DEF Held
<1>7. LeaseAccounting'
  <2>1. \A k \in Key : (state[k] = "leased" <=> token[k] # NoWorker)'
    BY <1>1 DEF LeaseAccounting
  <2>2. ASSUME NEW v \in Worker, NEW k \in Held(v)', token'[k] = v
        PROVE  seen'[v][k] = attempts'[k]
    <3>1. k \in Held(v) /\ token[k] = v /\ attempts'[k] = attempts[k]
      BY <1>1, <1>4, <2>2
    <3> QED BY <1>1, <1>5, <2>2, <3>1 DEF LeaseAccounting
  <2> QED BY <2>1, <2>2 DEF LeaseAccounting
<1>8. PendingWithinBudget'
  <2>1. token[cur[w]] = w => seen[w][cur[w]] = attempts[cur[w]]
    BY <1>1, <1>6 DEF LeaseAccounting
  <2> QED BY <1>1, <2>1 DEF PendingWithinBudget
<1>9. Rows'
  <2>1. token[cur[w]] = w => state[cur[w]] = "leased"
    BY <1>1 DEF LeaseAccounting
  <2>2. \A k \in Key : state'[k] = "absent" => state[k] = "absent"
    BY <1>1
  <2>3. \A k \in Key : state[k] # "absent" => state'[k] # "absent"
    BY <1>1
  <2> QED BY <1>1, <1>4, <2>1, <2>2, <2>3 DEF Rows
<1> QED BY <1>3, <1>7, <1>8, <1>9 DEF IInv

LEMMA WorkerInv ==
  ASSUME IInv, TypeOK', NEW w \in Worker, WorkerStep(w)
  PROVE  IInv'
<1> USE OutboxAssumption DEF TypeOK, rowVars, historyVars
<1>1. TypeOK /\ LeaseAccounting /\ PendingWithinBudget /\ Rows
      /\ \A v \in Worker : InHand(v)
  BY DEF IInv
<1>2. CASE StartEvent(w)
  <2>1. \A v \in Worker : Held(v)' \subseteq Held(v) /\ Held(v) \subseteq Key
    BY <1>1, <1>2 DEF StartEvent, Held
  <2>2. UNCHANGED <<state, token, attempts, seen, ran>>
    BY <1>2 DEF StartEvent
  <2>3. LeaseAccounting' /\ PendingWithinBudget' /\ Rows'
    BY <1>1, <2>1, <2>2 DEF LeaseAccounting, PendingWithinBudget, Rows
  <2>4. \A v \in Worker : InHand(v)'
    BY <1>1, <1>2 DEF StartEvent, InHand
  <2> QED BY <2>3, <2>4 DEF IInv
<1>3. CASE HandlerReturns(w)
  <2>1. UNCHANGED <<state, token, attempts, seen, batch, cur>>
    BY <1>3 DEF HandlerReturns
  <2>2. LeaseAccounting' /\ PendingWithinBudget' /\ Rows'
    BY <1>1, <2>1 DEF LeaseAccounting, PendingWithinBudget, Rows, Held
  <2>3. \A v \in Worker : InHand(v)'
    BY <1>1, <1>3 DEF HandlerReturns, InHand
  <2> QED BY <2>2, <2>3 DEF IInv
<1>4. CASE HandlerThrows(w)
  <2>1. UNCHANGED <<state, token, attempts, seen, batch, cur, ran>>
    BY <1>4 DEF HandlerThrows
  <2>2. LeaseAccounting' /\ PendingWithinBudget' /\ Rows'
    BY <1>1, <2>1 DEF LeaseAccounting, PendingWithinBudget, Rows, Held
  <2>3. \A v \in Worker : InHand(v)'
    BY <1>1, <1>4 DEF HandlerThrows, InHand
  <2> QED BY <2>2, <2>3 DEF IInv
<1>5. CASE MarkDispatched(w)
  <2>1. cur[w] \in Key /\ EndEvent(w) /\ UNCHANGED ran
    BY <1>1, <1>5 DEF MarkDispatched, InHand
  <2>2. \/ UNCHANGED <<state, token, attempts>>
        \/ /\ token[cur[w]] = w
           /\ state' = [state EXCEPT ![cur[w]] = "dispatched"]
           /\ token' = [token EXCEPT ![cur[w]] = NoWorker]
           /\ UNCHANGED attempts
    BY <1>5 DEF MarkDispatched
  <2> QED BY <2>1, <2>2, EndStep
<1>6. CASE MarkFailed(w) /\ ~LastFailure(w)
  <2>1. cur[w] \in Key /\ EndEvent(w) /\ UNCHANGED ran
    BY <1>1, <1>6 DEF MarkFailed, InHand
  <2>2. seen[w][cur[w]] < Budget[cur[w]]
    BY <1>1, <1>6, <2>1 DEF LastFailure
  <2>3. \/ UNCHANGED <<state, token, attempts>>
        \/ /\ token[cur[w]] = w
           /\ state' = [state EXCEPT ![cur[w]] = "pending"]
           /\ token' = [token EXCEPT ![cur[w]] = NoWorker]
           /\ UNCHANGED attempts
    BY <1>6 DEF MarkFailed
  <2> QED BY <2>1, <2>2, <2>3, EndStep
<1>7. CASE MarkFailed(w) /\ LastFailure(w)
  <2>1. cur[w] \in Held(w) /\ cur[w] \in Key
    BY <1>1, <1>7 DEF MarkFailed, InHand, Held
  <2>2. /\ \/ UNCHANGED <<state, token, attempts>>
           \/ /\ state' = [state EXCEPT ![cur[w]] = "dead"]
              /\ token' = [token EXCEPT ![cur[w]] = NoWorker]
              /\ UNCHANGED attempts
        /\ pc' = [pc EXCEPT ![w] = "dead_lettered"]
        /\ UNCHANGED <<batch, cur, seen, ran>>
    BY <1>7 DEF MarkFailed
  <2>3. \A v \in Worker : Held(v)' = Held(v) /\ Held(v) \subseteq Key
    BY <1>1, <2>2 DEF Held
  <2>4. LeaseAccounting'
    <3>1. \A k \in Key : (state[k] = "leased" <=> token[k] # NoWorker)'
      BY <1>1, <2>2 DEF LeaseAccounting
    <3>2. ASSUME NEW v \in Worker, NEW k \in Held(v)', token'[k] = v
          PROVE  seen'[v][k] = attempts'[k]
      <4>1. k \in Held(v) /\ k \in Key /\ token[k] = v
        BY <1>1, <2>2, <2>3, <3>2
      <4> QED BY <1>1, <2>2, <4>1 DEF LeaseAccounting
    <3> QED BY <3>1, <3>2 DEF LeaseAccounting
  <2>5. PendingWithinBudget'
    BY <1>1, <2>2 DEF PendingWithinBudget
  <2>6. \A v \in Worker : InHand(v)'
    BY <1>1, <1>7, <2>2 DEF InHand, MarkFailed
  <2>7. Rows'
    BY <1>1, <2>1, <2>2, <2>3 DEF Rows
  <2> QED BY <2>4, <2>5, <2>6, <2>7 DEF IInv
<1>8. CASE HandOffFailedWork(w)
  <2>1. cur[w] \in Key /\ EndEvent(w) /\ UNCHANGED <<state, token, attempts, ran>>
    BY <1>1, <1>8 DEF HandOffFailedWork, InHand
  <2> QED BY <2>1, EndStep
<1> QED BY <1>2, <1>3, <1>4, <1>5, <1>6, <1>7, <1>8 DEF WorkerStep

THEOREM IInvNext == IInv /\ [Next]_vars => IInv'
<1> SUFFICES ASSUME IInv, [Next]_vars PROVE IInv'
  OBVIOUS
<1>1. TypeOK'
  BY TypeNext DEF IInv
<1>2. CASE UNCHANGED vars
  BY <1>2, <1>1 DEF IInv, TypeOK, LeaseAccounting, PendingWithinBudget, InHand,
       Rows, Held, vars, rowVars, workerVars, historyVars
<1>3. ASSUME NEW k \in Key,
             EnqueueOutbox(k) \/ TimeStep(k) \/ LeaseLost(k) \/ ReplayDead(k)
      PROVE  IInv'
  BY <1>1, <1>3, RowStep
<1>4. ASSUME NEW w \in Worker, LeaseDueOutbox(w) PROVE IInv'
  BY <1>1, <1>4, LeaseStep
<1>5. ASSUME NEW w \in Worker, WorkerStep(w) PROVE IInv'
  BY <1>1, <1>5, WorkerInv
<1>6. ASSUME NEW w \in Worker, Crash(w) PROVE IInv'
  <2> USE OutboxAssumption DEF TypeOK, rowVars
  <2>1. TypeOK /\ LeaseAccounting /\ PendingWithinBudget /\ Rows
        /\ \A v \in Worker : InHand(v)
    BY DEF IInv
  <2>2. Held(w)' = {} /\ \A v \in Worker \ {w} :
          Held(v)' = Held(v) /\ seen'[v] = seen[v]
    BY <1>6, <2>1 DEF Crash, Held
  <2>3. UNCHANGED <<state, token, attempts, ran>>
    BY <1>6 DEF Crash
  <2>4. LeaseAccounting'
    <3>1. ASSUME NEW v \in Worker, NEW k \in Held(v)', token'[k] = v
          PROVE  seen'[v][k] = attempts'[k]
      <4>1. v # w /\ k \in Held(v) /\ token[k] = v
        BY <2>2, <2>3, <3>1
      <4> QED BY <2>1, <2>2, <2>3, <4>1 DEF LeaseAccounting
    <3> QED BY <2>1, <2>3, <3>1 DEF LeaseAccounting
  <2>6. PendingWithinBudget'
    BY <2>1, <2>3 DEF PendingWithinBudget
  <2>7. Rows'
    <3>1. \A v \in Worker : Held(v)' \subseteq Held(v)
      BY <2>2
    <3> QED BY <2>1, <2>3, <3>1 DEF Rows
  <2>5. \A v \in Worker : InHand(v)'
    BY <1>6, <2>1 DEF Crash, InHand
  <2> QED BY <1>1, <2>4, <2>5, <2>6, <2>7 DEF IInv
<1> QED BY <1>2, <1>3, <1>4, <1>5, <1>6 DEF Next

\* The inductive invariant holds throughout.
THEOREM IInvAlways == Spec => []IInv
BY IInvInit, IInvNext, PTL DEF Spec

\* The rows, tokens and worker states stay in their sets.
THEOREM TypeCorrect == Spec => []TypeOK
<1>1. IInv => TypeOK
  BY DEF IInv
<1> QED BY IInvAlways, <1>1, PTL

\* A worker that holds a row's token judges its failures on the row's own
\* attempt count, whatever leases were lost and rows replayed in between.
THEOREM LeaseAccountingHolds == Spec => []LeaseAccounting
<1>1. IInv => LeaseAccounting
  BY DEF IInv
<1> QED BY IInvAlways, <1>1, PTL

\* No row goes back to the queue without an attempt left.
THEOREM PendingWithinBudgetHolds == Spec => []PendingWithinBudget
<1>1. IInv => PendingWithinBudget
  BY DEF IInv
<1> QED BY IInvAlways, <1>1, PTL

-----------------------------------------------------------------------------
(* The refinement of WorkQueue *)

\* Rows whose abstract status does not change are not seen by the queue.
LEMMA SameJobs ==
  ASSUME IInv, \A k \in Key : AsJob(state'[k]) = AsJob(state[k]), UNCHANGED ran
  PROVE  UNCHANGED WQ!vars
BY DEF WQ!vars, JobStatus

\* One row's new state is one job's new status.
LEMMA OneJob ==
  ASSUME IInv, NEW k \in Key, NEW s \in RowState, state' = [state EXCEPT ![k] = s]
  PROVE  JobStatus' = [JobStatus EXCEPT ![k] = AsJob(s)]
BY DEF IInv, TypeOK, JobStatus

LEMMA WorkQueueInit == Init => WQ!Init
BY DEF Init, WQ!Init, JobStatus, AsJob

LEMMA WorkQueueStep == IInv /\ [Next]_vars => [WQ!Next]_WQ!vars
<1> SUFFICES ASSUME IInv, [Next]_vars PROVE [WQ!Next]_WQ!vars
  OBVIOUS
<1> USE OutboxAssumption DEF TypeOK, RowState, rowVars, workerVars, historyVars
<1>1. TypeOK /\ LeaseAccounting /\ Rows /\ \A v \in Worker : InHand(v)
  BY DEF IInv
<1>2. CASE UNCHANGED vars
  BY <1>2, SameJobs DEF vars
<1>3. ASSUME NEW k \in Key, EnqueueOutbox(k) PROVE WQ!Next
  <2>1. JobStatus' = [JobStatus EXCEPT ![k] = "open"]
    BY <1>3, OneJob DEF EnqueueOutbox, AsJob
  <2>2. JobStatus[k] = "absent" /\ UNCHANGED ran
    BY <1>3 DEF EnqueueOutbox, JobStatus, AsJob
  <2> QED BY <2>1, <2>2 DEF WQ!Next, WQ!Enqueue
<1>4. ASSUME NEW k \in Key, TimeStep(k) \/ LeaseLost(k) PROVE UNCHANGED WQ!vars
  <2>1. UNCHANGED <<state, ran>>
    BY <1>4 DEF TimeStep, LeaseLost, LeaseExpires, LeaseRunsOut, BackoffElapses
  <2> QED BY <2>1, SameJobs
<1>5. ASSUME NEW k \in Key, ReplayDead(k) PROVE WQ!Next
  <2>1. JobStatus' = [JobStatus EXCEPT ![k] = "open"]
    BY <1>5, OneJob DEF ReplayDead, AsJob
  <2>2. JobStatus[k] = "dead" /\ UNCHANGED ran
    BY <1>5 DEF ReplayDead, JobStatus, AsJob
  <2> QED BY <2>1, <2>2 DEF WQ!Next, WQ!Replay
<1>6. ASSUME NEW w \in Worker, LeaseDueOutbox(w) PROVE UNCHANGED WQ!vars
  <2>1. PICK S \in SUBSET Key :
          /\ \A k \in S : state[k] \in {"pending", "leased"}
          /\ state' = [k \in Key |-> IF k \in S THEN "leased" ELSE state[k]]
          /\ UNCHANGED ran
    BY <1>6, LeaseEffect
  <2>2. \A k \in Key : AsJob(state'[k]) = AsJob(state[k])
    BY <2>1 DEF AsJob
  <2> QED BY <2>1, <2>2, SameJobs
<1>7. ASSUME NEW w \in Worker, WorkerStep(w) PROVE [WQ!Next]_WQ!vars
  <2>1. CASE StartEvent(w) \/ HandlerThrows(w) \/ HandOffFailedWork(w)
    <3>1. UNCHANGED <<state, ran>>
      BY <2>1 DEF StartEvent, HandlerThrows, HandOffFailedWork
    <3> QED BY <3>1, SameJobs
  <2>2. CASE HandlerReturns(w)
    <3>1. cur[w] \in Held(w) /\ cur[w] \in Key
      BY <1>1, <2>2 DEF HandlerReturns, InHand, Held
    <3>2. JobStatus[cur[w]] # "absent" /\ UNCHANGED JobStatus
      BY <1>1, <2>2, <3>1 DEF HandlerReturns, Rows, JobStatus, AsJob
    <3> QED BY <2>2, <3>1, <3>2 DEF HandlerReturns, WQ!Next, WQ!Run
  <2>3. CASE MarkDispatched(w)
    <3>1. cur[w] \in Key /\ cur[w] \in ran /\ UNCHANGED ran
      BY <1>1, <2>3 DEF MarkDispatched, InHand
    <3>2. CASE token[cur[w]] = w
      <4>1. JobStatus[cur[w]] = "open"
        BY <1>1, <3>1, <3>2 DEF LeaseAccounting, JobStatus, AsJob
      <4>2. JobStatus' = [JobStatus EXCEPT ![cur[w]] = "done"]
        BY <2>3, <3>1, <3>2, OneJob DEF MarkDispatched, AsJob
      <4> QED BY <3>1, <4>1, <4>2 DEF WQ!Next, WQ!Finish
    <3>3. CASE token[cur[w]] # w
      BY <2>3, <3>1, <3>3, SameJobs DEF MarkDispatched
    <3> QED BY <3>2, <3>3
  <2>4. CASE MarkFailed(w)
    <3>1. cur[w] \in Key /\ UNCHANGED ran
      BY <1>1, <2>4 DEF MarkFailed, InHand
    <3>2. CASE token[cur[w]] = w /\ LastFailure(w)
      <4>1. JobStatus[cur[w]] = "open"
        BY <1>1, <3>1, <3>2 DEF LeaseAccounting, JobStatus, AsJob
      <4>2. JobStatus' = [JobStatus EXCEPT ![cur[w]] = "dead"]
        BY <2>4, <3>1, <3>2, OneJob DEF MarkFailed, AsJob
      <4> QED BY <3>1, <4>1, <4>2 DEF WQ!Next, WQ!GiveUp
    <3>3. CASE token[cur[w]] = w /\ ~LastFailure(w)
      <4>1. state[cur[w]] = "leased"
        BY <1>1, <3>1, <3>3 DEF LeaseAccounting
      <4>2. state' = [state EXCEPT ![cur[w]] = "pending"]
        BY <2>4, <3>3 DEF MarkFailed
      <4>3. \A k \in Key : AsJob(state'[k]) = AsJob(state[k])
        BY <1>1, <3>1, <4>1, <4>2 DEF AsJob
      <4> QED BY <3>1, <4>3, SameJobs
    <3>4. CASE token[cur[w]] # w
      BY <2>4, <3>1, <3>4, SameJobs DEF MarkFailed
    <3> QED BY <3>2, <3>3, <3>4
  <2> QED BY <1>7, <2>1, <2>2, <2>3, <2>4 DEF WorkerStep
<1>8. ASSUME NEW w \in Worker, Crash(w) PROVE UNCHANGED WQ!vars
  BY <1>8, SameJobs DEF Crash
<1> QED BY <1>2, <1>3, <1>4, <1>5, <1>6, <1>7, <1>8 DEF Next

\* The leased queue implements the plain one: a worker that lost its lease
\* changes no row, what is dispatched was handled and stays so, and a dead row
\* comes back only by a replay.
THEOREM OutboxImplementsWorkQueue == Spec => ImplementsWorkQueue
<1>1. Init => WQ!Init
  BY WorkQueueInit
<1>2. IInv /\ [Next]_vars => [WQ!Next]_WQ!vars
  BY WorkQueueStep
<1>3. Spec => WQ!Init /\ [][WQ!Next]_WQ!vars
  BY <1>1, <1>2, IInvAlways, PTL DEF Spec
<1> QED BY <1>3 DEF ImplementsWorkQueue, WQ!Spec

-----------------------------------------------------------------------------
(* Lists by rank: every place taken, none twice (Order) *)

\* A strict total order of S, as a relation: nothing comes before itself, and of two one comes
\* first.
StrictOrder(order, S) ==
  /\ \A x \in S : <<x, x>> \notin order
  /\ \A x, y \in S : x # y => <<x, y>> \in order \/ <<y, x>> \in order
  /\ \A x, y, z \in S : <<x, y>> \in order /\ <<y, z>> \in order => <<x, z>> \in order

\* How many come before.
RankIn(order, S, x) == Cardinality({y \in S : <<y, x>> \in order})

\* Of a finite set, what comes before an element is fewer than the whole.
LEMMA RankType ==
  ASSUME NEW S, IsFiniteSet(S), NEW order, StrictOrder(order, S), NEW x \in S
  PROVE  /\ RankIn(order, S, x) \in Nat /\ RankIn(order, S, x) < Cardinality(S)
         /\ Cardinality(S) \in Nat
<1> DEFINE below == {y \in S : <<y, x>> \in order}
<1>1. below \in SUBSET S /\ below # S
  BY DEF StrictOrder
<1>2. /\ IsFiniteSet(below)
      /\ Cardinality(below) <= Cardinality(S) /\ Cardinality(below) # Cardinality(S)
  BY <1>1, FS_Subset
<1> HIDE DEF below
<1>3. Cardinality(below) \in Nat /\ Cardinality(S) \in Nat
  BY <1>2, FS_CardinalityType
<1>4. RankIn(order, S, x) = Cardinality(below)
  BY DEF RankIn, below
<1>. QED BY <1>2, <1>3, <1>4

\* What comes later has more before it.
LEMMA RankGrows ==
  ASSUME NEW S, IsFiniteSet(S), NEW order, StrictOrder(order, S), NEW x \in S, NEW y \in S,
         <<x, y>> \in order
  PROVE  RankIn(order, S, x) < RankIn(order, S, y)
<1> DEFINE below(u) == {v \in S : <<v, u>> \in order}
<1>1. below(x) \in SUBSET below(y) /\ x \in below(y) /\ x \notin below(x)
  BY DEF StrictOrder
<1>2. below(y) \in SUBSET S
  OBVIOUS
<1>3. IsFiniteSet(below(y))
  BY <1>2, FS_Subset
<1>4. /\ Cardinality(below(x)) # Cardinality(below(y))
      /\ Cardinality(below(x)) <= Cardinality(below(y))
  BY <1>1, <1>3, FS_Subset
<1>5. RankIn(order, S, x) = Cardinality(below(x)) /\ RankIn(order, S, y) = Cardinality(below(y))
  BY DEF RankIn
<1> HIDE DEF below
<1>. QED BY <1>4, <1>5, RankType

\* No two elements share a rank.
LEMMA RankIsOne ==
  ASSUME NEW S, IsFiniteSet(S), NEW order, StrictOrder(order, S), NEW x \in S, NEW y \in S,
         RankIn(order, S, x) = RankIn(order, S, y)
  PROVE  x = y
<1>1. CASE x = y
  BY <1>1
<1>2. CASE x # y
  <2>1. <<x, y>> \in order \/ <<y, x>> \in order
    BY <1>2 DEF StrictOrder
  <2>. QED BY <2>1, RankGrows, RankType
<1>. QED BY <1>1, <1>2

\* Every place below the size is some element's rank (by counting: pigeonhole).
LEMMA RankOnto ==
  ASSUME NEW S, IsFiniteSet(S), NEW order, StrictOrder(order, S), NEW k \in 0 .. Cardinality(S) - 1
  PROVE  \E x \in S : RankIn(order, S, x) = k
<1> DEFINE n == Cardinality(S)
           T == (0 .. n - 1) \ {k}
           f == [x \in S |-> RankIn(order, S, x)]
<1>1. n \in Nat
  BY FS_CardinalityType
<1>2. SUFFICES ASSUME \A x \in S : RankIn(order, S, x) # k PROVE FALSE
  OBVIOUS
<1>3. IsFiniteSet(T) /\ Cardinality(T) = n - 1
  <2>1. IsFiniteSet(0 .. n - 1) /\ Cardinality(0 .. n - 1) = n
    BY <1>1, FS_Interval
  <2>2. Cardinality((0 .. n - 1) \ {k}) = Cardinality(0 .. n - 1) - 1
    BY <2>1, FS_RemoveElement
  <2>. QED BY <1>1, <2>1, <2>2, FS_RemoveElement
<1>4. f \in [S -> T]
  BY <1>2, RankType
<1>5. Cardinality(T) < n
  BY <1>1, <1>3
<1>6. PICK x, y \in S : x # y /\ f[x] = f[y]
  <2> HIDE DEF T, f
  <2>. QED BY <1>3, <1>4, <1>5, FS_PigeonHole
<1>7. RankIn(order, S, x) = RankIn(order, S, y)
  BY <1>6
<1>. QED BY <1>6, <1>7, RankIsOne

\* The list of a set by rank.
ByRank(order, S) == [i \in 1 .. Cardinality(S) |-> CHOOSE x \in S : RankIn(order, S, x) = i - 1]

\* The list by rank has every element once, each at the place its rank says.
LEMMA ByRankIsSorted ==
  ASSUME NEW S, IsFiniteSet(S), NEW order, StrictOrder(order, S)
  PROVE  /\ ByRank(order, S) \in Seq(S) /\ Len(ByRank(order, S)) = Cardinality(S)
         /\ \A i \in 1 .. Cardinality(S) : /\ ByRank(order, S)[i] \in S
                                         /\ RankIn(order, S, ByRank(order, S)[i]) = i - 1
         /\ \A x \in S : /\ RankIn(order, S, x) + 1 \in 1 .. Cardinality(S)
                        /\ ByRank(order, S)[RankIn(order, S, x) + 1] = x
<1> DEFINE n == Cardinality(S)
<1>1. n \in Nat
  BY FS_CardinalityType
<1>2. ASSUME NEW i \in 1 .. n
      PROVE  ByRank(order, S)[i] \in S /\ RankIn(order, S, ByRank(order, S)[i]) = i - 1
  <2>1. i - 1 \in 0 .. n - 1
    BY <1>1
  <2>2. \E x \in S : RankIn(order, S, x) = i - 1
    BY <2>1, RankOnto
  <2>. QED BY <2>2 DEF ByRank
<1>3. ByRank(order, S) \in [1 .. n -> S]
  BY <1>2 DEF ByRank
<1>4. ASSUME NEW x \in S
      PROVE  RankIn(order, S, x) + 1 \in 1 .. n /\ ByRank(order, S)[RankIn(order, S, x) + 1] = x
  <2>1. PICK i \in 1 .. n : i = RankIn(order, S, x) + 1
    BY RankType
  <2>2. ByRank(order, S)[i] \in S /\ RankIn(order, S, ByRank(order, S)[i]) = i - 1
    BY <1>2
  <2>3. RankIn(order, S, ByRank(order, S)[i]) = RankIn(order, S, x)
    BY <2>1, <2>2, RankType
  <2>4. ByRank(order, S)[i] = x
    BY <2>2, <2>3, RankIsOne
  <2>. QED BY <2>1, <2>4
<1> HIDE DEF n
<1>5. ByRank(order, S) \in Seq(S) /\ Len(ByRank(order, S)) = n
  BY <1>1, <1>3
<1>. QED BY <1>2, <1>4, <1>5 DEF n

\* What leads the list comes before all the rest.
LEMMA LeastIsFirst ==
  ASSUME NEW S, IsFiniteSet(S), NEW order, StrictOrder(order, S), S # {}
  PROVE  /\ ByRank(order, S) # <<>> /\ Head(ByRank(order, S)) \in S
         /\ \A x \in S \ {Head(ByRank(order, S))} : <<Head(ByRank(order, S)), x>> \in order
<1> DEFINE s == ByRank(order, S)
<1>1. Cardinality(S) \in Nat /\ Cardinality(S) > 0
  BY FS_CardinalityType, FS_EmptySet
<1>2. s \in Seq(S) /\ Len(s) = Cardinality(S) /\ s[1] \in S /\ RankIn(order, S, s[1]) = 0
  BY <1>1, ByRankIsSorted
<1> HIDE DEF s
<1>3. s # <<>> /\ Head(s) = s[1]
  BY <1>1, <1>2
<1>4. ASSUME NEW x \in S \ {s[1]} PROVE <<s[1], x>> \in order
  <2>1. CASE <<x, s[1]>> \in order
    BY <1>2, <2>1, RankGrows, RankType
  <2>. QED BY <1>2, <2>1 DEF StrictOrder
<1>. QED BY <1>2, <1>3, <1>4 DEF s

\* As many have a rank below k as there are ranks below it.
LEMMA RankCount ==
  ASSUME NEW S, IsFiniteSet(S), NEW order, StrictOrder(order, S), NEW k \in 0 .. Cardinality(S)
  PROVE  /\ Cardinality({x \in S : RankIn(order, S, x) < k}) = k
         /\ Cardinality({x \in S : RankIn(order, S, x) >= k}) = Cardinality(S) - k
<1> DEFINE low == {x \in S : RankIn(order, S, x) < k}
           high == {x \in S : RankIn(order, S, x) >= k}
           f == [i \in 1 .. k |-> ByRank(order, S)[i]]
<1>1. Cardinality(S) \in Nat /\ k \in Nat
  BY FS_CardinalityType
<1>2. f \in Bijection(1 .. k, low)
  <2>1. \A i \in 1 .. k : i \in 1 .. Cardinality(S)
    BY <1>1
  <2>2. \A i \in 1 .. k : /\ f[i] \in S /\ RankIn(order, S, f[i]) = i - 1
    BY <2>1, ByRankIsSorted
  <2>3. f \in [1 .. k -> low]
    BY <1>1, <2>2
  <2>4. \A i, j \in 1 .. k : f[i] = f[j] => i = j
    <3> HIDE DEF f
    <3>. QED BY <1>1, <2>2
  <2>5. ASSUME NEW x \in low PROVE \E i \in 1 .. k : f[i] = x
    <3>1. /\ RankIn(order, S, x) + 1 \in 1 .. k
          /\ ByRank(order, S)[RankIn(order, S, x) + 1] = x
      BY <1>1, RankType, ByRankIsSorted
    <3>. QED BY <3>1
  <2> HIDE DEF f, low
  <2>6. f \in Surjection(1 .. k, low)
    BY <2>3, <2>5 DEF Surjection
  <2>7. f \in Injection(1 .. k, low)
    BY <2>3, <2>4 DEF Injection, IsInjective
  <2>. QED BY <2>6, <2>7 DEF Bijection
<1>3. IsFiniteSet(1 .. k) /\ Cardinality(1 .. k) = k
  BY <1>1, FS_Interval
<1>4. IsFiniteSet(low) /\ Cardinality(low) = k
  BY <1>2, <1>3, FS_Bijection DEF ExistsBijection
<1>5. high \in SUBSET S /\ low \cup high = S /\ low \cap high = {}
  BY <1>1, RankType
<1>6. IsFiniteSet(high) /\ Cardinality(high) \in Nat
  BY <1>5, FS_Subset, FS_CardinalityType
<1> HIDE DEF low, high
<1>7. Cardinality(S) = Cardinality(low) + Cardinality(high) - 0
  BY <1>4, <1>5, <1>6, FS_Union, FS_EmptySet
<1>. QED BY <1>1, <1>4, <1>6, <1>7 DEF low, high

-----------------------------------------------------------------------------
(* Offers compared (lib/advice/recommend.ts, pricing.ts) *)

\* A total is a number: what is not known of it is NoPrice (pricing.ts, totalCents).
LEMMA TotalType ==
  ASSUME NEW o \in Offer
  PROVE  Total(o) \in Int
BY DEF Offer, Amount, Total, NoPrice

\* The two flags rankByGroupTotal compares before and after the total.
Unknown(o) == IF Total(o) = NoPrice THEN 1 ELSE 0
Bare(o) == IF o.delivered THEN 0 ELSE 1

\* rankByGroupTotal's five comparisons, one after the other.
LEMMA RanksAre ==
  ASSUME NEW a, NEW b
  PROVE  Ranks(a, b) <=>
           \/ Unknown(a) < Unknown(b)
           \/ Unknown(a) = Unknown(b) /\ Total(a) < Total(b)
           \/ Unknown(a) = Unknown(b) /\ Total(a) = Total(b) /\ -a.at < -b.at
           \/ Unknown(a) = Unknown(b) /\ Total(a) = Total(b) /\ -a.at = -b.at /\ Bare(a) < Bare(b)
           \/ /\ Unknown(a) = Unknown(b) /\ Total(a) = Total(b) /\ -a.at = -b.at
              /\ Bare(a) = Bare(b) /\ a.id < b.id
<1> DEFINE key(o) == <<Unknown(o), Total(o), -o.at, Bare(o), o.id>>
           lower(i) == key(a)[i] < key(b)[i]
           equal(i) == key(a)[i] = key(b)[i]
<1>1. Ranks(a, b) <=> \E i \in 1 .. 5 : lower(i) /\ \A j \in 1 .. i - 1 : equal(j)
  BY DEF Ranks, Unknown, Bare
<1> HIDE DEF lower, equal
<1>2. (\E i \in 1 .. 5 : lower(i) /\ \A j \in 1 .. i - 1 : equal(j)) <=>
        \/ lower(1)
        \/ equal(1) /\ lower(2)
        \/ equal(1) /\ equal(2) /\ lower(3)
        \/ equal(1) /\ equal(2) /\ equal(3) /\ lower(4)
        \/ equal(1) /\ equal(2) /\ equal(3) /\ equal(4) /\ lower(5)
  <2>1. 1 .. 5 = {1, 2, 3, 4, 5}
    OBVIOUS
  <2>2. 1 .. 1 - 1 = {} /\ 1 .. 2 - 1 = {1} /\ 1 .. 3 - 1 = {1, 2} /\ 1 .. 4 - 1 = {1, 2, 3}
         /\ 1 .. 5 - 1 = {1, 2, 3, 4}
    OBVIOUS
  <2>. QED BY <2>1, <2>2
<1>. QED BY <1>1, <1>2 DEF lower, equal

\* Offers of which none is twice there as of one read.
Reads1(S) == S \subseteq Offer /\ \A o, p \in S : o.id = p.id /\ o.at = p.at => o = p

\* The orders of a list, as relations on the offers it is of.
RanksIn(S) == {p \in S \X S : Ranks(p[1], p[2])}
BeforeIn(S, c) == {p \in S \X S : Before(p[1], p[2], c)}

\* rankByGroupTotal never leaves two reads undecided and never goes in a circle.
LEMMA RanksIsOrder ==
  ASSUME NEW S, Reads1(S)
  PROVE  /\ \A x \in S : ~Ranks(x, x)
         /\ \A x, y \in S : x # y => Ranks(x, y) \/ Ranks(y, x)
         /\ \A x, y, z \in S : Ranks(x, y) /\ Ranks(y, z) => Ranks(x, z)
<1>1. \A x \in S : /\ Unknown(x) \in Int /\ Total(x) \in Int /\ -x.at \in Int
                   /\ Bare(x) \in Int /\ x.id \in Int
  BY TotalType DEF Reads1, Offer, Unknown, Bare
<1>2. \A x, y \in S : x.id = y.id /\ -x.at = -y.at => x = y
  BY DEF Reads1, Offer
<1>. QED BY <1>1, <1>2, RanksAre

\* So its ranking is an order of whatever is ranked.
LEMMA RanksInIsOrder ==
  ASSUME NEW S, Reads1(S)
  PROVE  StrictOrder(RanksIn(S), S)
BY RanksIsOrder DEF StrictOrder, RanksIn

\* Putting offers that cannot seat them together last keeps it one (bestFirst).
LEMMA BeforeInIsOrder ==
  ASSUME NEW S, Reads1(S), NEW c
  PROVE  StrictOrder(BeforeIn(S, c), S)
<1>1. \A x \in S : ~Before(x, x, c)
  BY RanksIsOrder DEF Before
<1>2. \A x, y \in S : x # y => Before(x, y, c) \/ Before(y, x, c)
  BY RanksIsOrder DEF Before, Apart
<1>3. \A x, y, z \in S : Before(x, y, c) /\ Before(y, z, c) => Before(x, z, c)
  BY RanksIsOrder DEF Before
<1>. QED BY <1>1, <1>2, <1>3 DEF StrictOrder, BeforeIn

\* The model's list is the list by rank.
LEMMA RankedIs ==
  ASSUME NEW S, NEW c
  PROVE  Ranked(S, c) = ByRank(BeforeIn(S, c), S)
<1>1. \A x \in S : {y \in S : Before(y, x, c)} = {y \in S : <<y, x>> \in BeforeIn(S, c)}
  BY DEF BeforeIn
<1>2. Ranked(S, c) = [i \in 1 .. Cardinality(S) |->
                        CHOOSE x \in S : Cardinality({y \in S : Before(y, x, c)}) = i - 1]
  BY DEF Ranked, Sorted
<1>. QED BY <1>1, <1>2 DEF ByRank, RankIn

\* And so is that of the offers a person would have to look at.
LEMMA NeedsReviewIs ==
  ASSUME NEW S, NEW c
  PROVE  NeedsReview(S, c) =
           ByRank(RanksIn(Judged(S, c, "needs_review")), Judged(S, c, "needs_review"))
<1> DEFINE T == Judged(S, c, "needs_review")
<1>1. \A x \in T : {y \in T : Ranks(y, x)} = {y \in T : <<y, x>> \in RanksIn(T)}
  BY DEF RanksIn
<1>2. NeedsReview(S, c) = [i \in 1 .. Cardinality(T) |->
                        CHOOSE x \in T : Cardinality({y \in T : Ranks(y, x)}) = i - 1]
  BY DEF NeedsReview, Sorted
<1> HIDE DEF T
<1>. QED BY <1>1, <1>2 DEF ByRank, RankIn, T

\* What leads a list is on it, and before the rest of it.
LEMMA FirstRanked ==
  ASSUME NEW S, Reads1(S), IsFiniteSet(S), NEW c
  PROVE  /\ S = {} => First(Ranked(S, c)) = NoOffer
         /\ S # {} => /\ First(Ranked(S, c)) \in S
                      /\ \A o \in S \ {First(Ranked(S, c))} : Before(First(Ranked(S, c)), o, c)
<1>1. CASE S = {}
  <2>1. Cardinality(S) = 0
    BY <1>1, FS_EmptySet
  <2>2. Ranked(S, c) = <<>>
    BY <2>1, RankedIs DEF ByRank
  <2>. QED BY <1>1, <2>2 DEF First
<1>2. CASE S # {}
  <2>1. /\ Ranked(S, c) # <<>> /\ Head(Ranked(S, c)) \in S
        /\ \A x \in S \ {Head(Ranked(S, c))} : <<Head(Ranked(S, c)), x>> \in BeforeIn(S, c)
    BY <1>2, RankedIs, BeforeInIsOrder, LeastIsFirst
  <2>2. First(Ranked(S, c)) = Head(Ranked(S, c))
    BY <2>1 DEF First
  <2>. QED BY <1>2, <2>1, <2>2 DEF BeforeIn
<1>. QED BY <1>1, <1>2

\* A list has what is ranked and nothing else.
LEMMA RankedIsList ==
  ASSUME NEW S, Reads1(S), IsFiniteSet(S), NEW c
  PROVE  /\ Ranked(S, c) \in Seq(S) 
         /\ \A i \in DOMAIN Ranked(S, c) : Ranked(S, c)[i] \in S
BY RankedIs, BeforeInIsOrder, ByRankIsSorted

\* What is picked out of reads are reads.
LEMMA JudgedReads ==
  ASSUME NEW S, Reads1(S), IsFiniteSet(S), NEW T \in SUBSET S
  PROVE  Reads1(T) /\ IsFiniteSet(T)
BY FS_Subset DEF Reads1

\* The pick fits what they asked, no offer that fits is ranked before it, and one in the
\* seating they wanted is passed over only when there is none (recommend.ts, best).
LEMMA BestFits ==
  ASSUME NEW S, Reads1(S), IsFiniteSet(S), NEW c, Best(S, c) # NoOffer
  PROVE  /\ Best(S, c) \in Judged(S, c, "eligible")
         /\ \A o \in Judged(S, c, "eligible") \ {Best(S, c)} :
              \/ Before(Best(S, c), o, c)
              \/ c.level # "any" /\ Best(S, c).level = c.level /\ o.level # c.level
         /\ c.level # "any" /\ Best(S, c).level # c.level =>
              \A o \in Judged(S, c, "eligible") : o.level # c.level
<1> DEFINE fits == Judged(S, c, "eligible")
           there == {o \in fits : o.level = c.level}
           of == IF c.level # "any" /\ there # {} THEN there ELSE fits
<1>1. Best(S, c) = First(Ranked(of, c))
  BY DEF Best
<1>2. of \in SUBSET fits /\ fits \in SUBSET S
  BY DEF Judged
<1>3. Reads1(of) /\ IsFiniteSet(of)
  BY <1>2, JudgedReads
<1> HIDE DEF of, fits
<1>4. /\ Best(S, c) \in of
      /\ \A o \in of \ {Best(S, c)} : Before(Best(S, c), o, c)
  BY <1>1, <1>3, FirstRanked
<1>5. Best(S, c) \in fits
  BY <1>2, <1>4
<1>6. CASE c.level # "any" /\ there # {}
  <2>1. of = there
    BY <1>6 DEF of
  <2>. QED BY <1>4, <1>5, <1>6, <2>1 DEF fits
<1>7. CASE ~(c.level # "any" /\ there # {})
  <2>1. of = fits
    BY <1>7 DEF of
  <2>. QED BY <1>4, <1>5, <1>7, <2>1 DEF fits
<1>. QED BY <1>6, <1>7

\* The single ticket quoted as a reference is one the research saw.
LEMMA EntryIsSeen ==
  ASSUME NEW S, Reads1(S), IsFiniteSet(S), NEW c
  PROVE  EntryReference(S, c) \in S \cup {NoOffer}
<1> DEFINE singles == {o \in S : o.quantity = 1 /\ o.ours}
           terms == [c EXCEPT !.quantity = 1, !.together = "no", !.budget = NoPrice]
           fits == Judged(singles, terms, "eligible")
<1>1. fits \in SUBSET S
  BY DEF Judged
<1>2. Reads1(fits) /\ IsFiniteSet(fits)
  BY <1>1, JudgedReads
<1>3. EntryReference(S, c) = IF c.quantity = 1 THEN NoOffer ELSE First(Ranked(fits, terms))
  BY DEF EntryReference, Eligible
<1> HIDE DEF fits
<1>. QED BY <1>1, <1>2, <1>3, FirstRanked

\* At most two alternatives are named, each seen by the research (packet.ts keys them
\* C_ALT1 and C_ALT2).
LEMMA AlternativesAreSeen ==
  ASSUME NEW S, Reads1(S), IsFiniteSet(S), NEW c
  PROVE  /\ DOMAIN Alternatives(S, c) \subseteq {1, 2}
         /\ \A n \in DOMAIN Alternatives(S, c) : Alternatives(S, c)[n] \in S
<1> DEFINE fits == Judged(S, c, "eligible")
           review == Judged(S, c, "needs_review")
           listed == Eligible(S, c) \o NeedsReview(S, c)
           leads(i) == /\ Best(S, c) # NoOffer => listed[i].class # Best(S, c).class
                       /\ \A j \in 1 .. i - 1 : listed[j].class # listed[i].class
           heads == {i \in DOMAIN listed : leads(i)}
           up == {p \in heads \X heads : p[1] < p[2]}
           leading == ByRank(up, heads)
<1>1. /\ fits \in SUBSET S /\ review \in SUBSET S
      /\ Reads1(fits) /\ IsFiniteSet(fits) /\ Reads1(review) /\ IsFiniteSet(review)
  <2>1. fits \in SUBSET S /\ review \in SUBSET S
    BY DEF Judged
  <2>. QED BY <2>1, JudgedReads
<1>2. Eligible(S, c) \in Seq(S)
  <2>1. Eligible(S, c) \in Seq(fits)
    BY <1>1, RankedIsList DEF Eligible
  <2>. QED BY <1>1, <2>1
<1>3. NeedsReview(S, c) \in Seq(S)
  <2>1. NeedsReview(S, c) \in Seq(review)
    BY <1>1, NeedsReviewIs, RanksInIsOrder, ByRankIsSorted
  <2>. QED BY <1>1, <2>1
<1>4. listed \in Seq(S)
  BY <1>2, <1>3
<1> HIDE DEF listed, fits, review
<1>5. \A i \in DOMAIN listed : listed[i] \in S
  BY <1>4
<1>6. IsFiniteSet(heads) /\ heads \subseteq Int
  <2>1. Len(listed) \in Nat /\ DOMAIN listed = 1 .. Len(listed)
    BY <1>4
  <2>2. IsFiniteSet(DOMAIN listed)
    BY <2>1, FS_Interval
  <2>3. heads \in SUBSET (DOMAIN listed)
    OBVIOUS
  <2>. QED BY <2>1, <2>2, <2>3, FS_Subset
<1>7. Alternatives(S, c) = [n \in DOMAIN leading \cap {1, 2} |-> listed[leading[n]]]
  <2> DEFINE first(i, j) == i < j
  <2>1. Alternatives(S, c) =
          [n \in DOMAIN Sorted(heads, first) \cap {1, 2} |-> listed[Sorted(heads, first)[n]]]
    BY DEF Alternatives, listed
  <2>2. Sorted(heads, first) = [i \in 1 .. Cardinality(heads) |->
                        CHOOSE x \in heads : Cardinality({y \in heads : y < x}) = i - 1]
    BY DEF Sorted
  <2> HIDE DEF heads
  <2>3. \A x \in heads : {y \in heads : y < x} = {y \in heads : <<y, x>> \in up}
    OBVIOUS
  <2> HIDE DEF first
  <2>4. Sorted(heads, first) = leading
    BY <2>2, <2>3 DEF ByRank, RankIn
  <2>. QED BY <2>1, <2>4
<1>8. StrictOrder(up, heads)
  <2> HIDE DEF heads
  <2>. QED BY <1>6 DEF StrictOrder
<1>9. \A n \in DOMAIN leading : leading[n] \in heads
  <2> HIDE DEF heads, up
  <2>. QED BY <1>6, <1>8, ByRankIsSorted
<1>10. \A i \in heads : i \in DOMAIN listed
  OBVIOUS
<1> HIDE DEF leading, heads
<1>. QED BY <1>5, <1>7, <1>9, <1>10

-----------------------------------------------------------------------------
(* The range of past events (lib/advice/benchmark.ts) *)

\* Snapshots of past events, as they are stored: an id is one snapshot's.
Past1(S) == S \subseteq Snapshot /\ IsFiniteSet(S) /\ \A s, o \in S : s.id = o.id => s = o
CheaperIn(S) == {p \in S \X S : Cheaper(p[1], p[2])}
ByPrice(S) == ByRank(CheaperIn(S), S)

\* By price, and by id where prices are equal, is an order of them.
LEMMA CheaperIsOrder ==
  ASSUME NEW S, Past1(S)
  PROVE  StrictOrder(CheaperIn(S), S)
<1>1. \A x \in S : x.price \in Int /\ x.id \in Int
  BY DEF Past1, Snapshot
<1>2. \A x, y \in S : x.id = y.id => x = y
  BY DEF Past1
<1>. QED BY <1>1, <1>2 DEF StrictOrder, CheaperIn, Cheaper

\* Whatever is ranked no earlier costs no less, and whatever is ranked no later no more.
LEMMA PriceGrows ==
  ASSUME NEW S, Past1(S), NEW x \in S, NEW y \in S,
         RankIn(CheaperIn(S), S, x) <= RankIn(CheaperIn(S), S, y)
  PROVE  x.price <= y.price
<1>1. x.price \in Int /\ y.price \in Int /\ IsFiniteSet(S)
  BY DEF Past1, Snapshot
<1>2. CASE <<y, x>> \in CheaperIn(S)
  <2>1. RankIn(CheaperIn(S), S, y) < RankIn(CheaperIn(S), S, x)
    BY <1>1, <1>2, CheaperIsOrder, RankGrows
  <2>2. RankIn(CheaperIn(S), S, x) \in Nat /\ RankIn(CheaperIn(S), S, y) \in Nat
    BY <1>1, CheaperIsOrder, RankType
  <2>. QED BY <2>1, <2>2
<1>3. CASE <<y, x>> \notin CheaperIn(S)
  BY <1>1, <1>3 DEF CheaperIn, Cheaper
<1>. QED BY <1>2, <1>3

\* The lesser of two numbers.
LEMMA LesserOf ==
  ASSUME NEW x \in Int, NEW y \in Int
  PROVE  Min({x, y}) = IF x <= y THEN x ELSE y
<1> DEFINE m == IF x <= y THEN x ELSE y
<1>1. m \in {x, y} /\ \A z \in {x, y} : m <= z
  OBVIOUS
<1>2. \A w \in {x, y} : (\A z \in {x, y} : w <= z) => w = m
  OBVIOUS
<1> HIDE DEF m
<1>3. Min({x, y}) = m
  BY <1>1, <1>2 DEF Min
<1>. QED BY <1>3 DEF m

\* Of the n - 1 steps between n prices in order, the whole quarters below the k-th quartile,
\* and one price more where it falls between two.
Quarters(n, k) == ((n - 1) * k) \div 4
Rest(n, k) == IF ((n - 1) * k) % 4 = 0 THEN 0 ELSE 1

\* That quartile of snapshots, four times over.
QuartileOf(S, k) == Quartile([i \in DOMAIN ByPrice(S) |-> ByPrice(S)[i].price], k)

\* So many of them lie at or below it, so many at or above.
Parted(S, n, q, k) ==
  /\ Cardinality({s \in S : 4 * s.price <= q}) >= Quarters(n, k) + 1
  /\ Cardinality({s \in S : 4 * s.price >= q}) >= n - Quarters(n, k) - Rest(n, k)
  /\ Cardinality({s \in S : 4 * s.price < q}) <= Quarters(n, k) + Rest(n, k)
  /\ Cardinality({s \in S : 4 * s.price > q}) <= n - Quarters(n, k) - 1

\* A quartile parts the snapshots it is taken of.
LEMMA QuartileParts ==
  ASSUME NEW S, Past1(S), S # {}, NEW k \in 1 .. 3
  PROVE  Parted(S, Cardinality(S), QuartileOf(S, k), k)
<1> DEFINE n == Cardinality(S)
           q == QuartileOf(S, k)
           h == (n - 1) * k
           a == h \div 4
           r == h % 4
           u == IF r = 0 THEN 0 ELSE 1
           rank(x) == RankIn(CheaperIn(S), S, x)
           list == ByPrice(S)
           prices == [i \in DOMAIN list |-> list[i].price]
           top == Min({a + 2, n})
           lo == list[a + 1]
           hi == list[top]
<1>1. IsFiniteSet(S) /\ StrictOrder(CheaperIn(S), S) /\ n \in Nat /\ n >= 1
  BY CheaperIsOrder, FS_CardinalityType, FS_EmptySet DEF Past1
<1>2. /\ h \in Nat /\ a \in Nat /\ r \in 0 .. 3 /\ h = 4 * a + r /\ a <= n - 1
      /\ r # 0 => a + 2 <= n
  <2> DEFINE m == n - 1
  <2>1. m \in Nat
    BY <1>1
  <2>2. h = m \/ h = 2 * m \/ h = 3 * m
    BY <2>1
  <2>3. h \in Nat /\ h <= 3 * m
    BY <2>1, <2>2
  <2> HIDE DEF h, m
  <2>4. a \in Nat /\ r \in 0 .. 3 /\ h = 4 * a + r
    BY <2>3
  <2> HIDE DEF a, r
  <2>5. a <= m /\ (r # 0 => a + 1 <= m)
    BY <2>1, <2>3, <2>4
  <2>6. a <= n - 1 /\ (r # 0 => a + 2 <= n)
    <3> HIDE DEF n
    <3>. QED BY <1>1, <2>4, <2>5 DEF m
  <2>. QED BY <2>3, <2>4, <2>6
<1>3. top \in Nat /\ top = (IF a + 2 <= n THEN a + 2 ELSE n)
  <2> HIDE DEF a, n
  <2>1. a + 2 \in Int /\ n \in Int
    BY <1>1, <1>2
  <2>2. Min({a + 2, n}) = IF a + 2 <= n THEN a + 2 ELSE n
    BY <2>1, LesserOf
  <2>. QED BY <1>1, <1>2, <2>2
<1> HIDE DEF n, a, r, top
<1>4. /\ list \in Seq(S) /\ Len(list) = n /\ lo \in S /\ rank(lo) = a
      /\ hi \in S /\ rank(hi) = top - 1
  <2>1. a + 1 \in 1 .. n /\ top \in 1 .. n
    BY <1>1, <1>2, <1>3
  <2>2. /\ list \in Seq(S) /\ Len(list) = n
        /\ \A i \in 1 .. n : list[i] \in S /\ rank(list[i]) = i - 1
    BY <1>1, ByRankIsSorted DEF ByPrice, n
  <2>3. a + 1 - 1 = a
    BY <1>2
  <2> HIDE DEF list, rank
  <2>4. lo \in S /\ rank(lo) = a
    <3>1. ASSUME NEW i \in 1 .. n, i = a + 1 PROVE list[i] \in S /\ rank(list[i]) = a
      BY <1>2, <2>2, <3>1
    <3>. QED BY <2>1, <3>1
  <2>5. hi \in S /\ rank(hi) = top - 1
    BY <2>1, <2>2
  <2>. QED BY <2>2, <2>4, <2>5
<1>5. q = 4 * lo.price + r * (hi.price - lo.price)
  <2>1. Len(prices) = n /\ prices[a + 1] = lo.price /\ prices[top] = hi.price
    BY <1>1, <1>2, <1>3, <1>4
  <2> HIDE DEF prices, lo, hi
  <2>2. q = Quartile(prices, k)
    BY DEF QuartileOf, prices, q
  <2> HIDE DEF q
  <2>. QED BY <2>1, <2>2 DEF Quartile, a, r, top, h
<1>6. lo.price \in Int /\ hi.price \in Int /\ \A s \in S : s.price \in Int
  BY <1>4 DEF Past1, Snapshot
<1>7. \A x, y \in S : rank(x) \in Nat /\ (rank(x) <= rank(y) => x.price <= y.price)
  BY <1>1, RankType, PriceGrows
<1> HIDE DEF rank, lo, hi, list, q
<1>8. lo.price <= hi.price
  BY <1>1, <1>2, <1>3, <1>4, <1>7
<1>9. q \in Int /\ 4 * lo.price <= q /\ q <= 4 * hi.price /\ (r = 0 => q = 4 * lo.price)
  <2>1. r = 0 \/ r = 1 \/ r = 2 \/ r = 3
    BY <1>2
  <2>. QED BY <1>5, <1>6, <1>8, <2>1
<1>10. ASSUME NEW x \in S
       PROVE  /\ rank(x) < a + 1 => 4 * x.price <= q
              /\ rank(x) >= a + u => 4 * x.price >= q
              /\ 4 * x.price < q => rank(x) < a + u
              /\ 4 * x.price > q => rank(x) >= a + 1
  <2>1. /\ rank(x) \in Nat /\ x.price \in Int
        /\ rank(x) <= a => x.price <= lo.price
        /\ rank(x) >= a => x.price >= lo.price
        /\ rank(x) >= top - 1 => x.price >= hi.price
    BY <1>4, <1>6, <1>7
  <2>2. r # 0 => top - 1 = a + 1
    BY <1>1, <1>2, <1>3
  <2>3. CASE r = 0
    BY <1>2, <1>6, <1>9, <2>1, <2>3
  <2>4. CASE r # 0
    BY <1>2, <1>6, <1>9, <2>1, <2>2, <2>4
  <2>. QED BY <2>3, <2>4
<1>11. ASSUME NEW T \in SUBSET S
       PROVE  IsFiniteSet(T) /\ Cardinality(T) \in Nat
              /\ \A U \in SUBSET T : Cardinality(U) <= Cardinality(T)
  BY <1>1, FS_Subset, FS_CardinalityType
<1>12. /\ Cardinality({x \in S : rank(x) < a + 1}) = a + 1
       /\ Cardinality({x \in S : rank(x) >= a + u}) = n - a - u
       /\ Cardinality({x \in S : rank(x) < a + u}) = a + u
       /\ Cardinality({x \in S : rank(x) >= a + 1}) = n - a - 1
  <2>1. a + 1 \in 0 .. n /\ a + u \in 0 .. n
    BY <1>1, <1>2
  <2>2. ASSUME NEW i \in 0 .. n
        PROVE  /\ Cardinality({x \in S : rank(x) < i}) = i
               /\ Cardinality({x \in S : rank(x) >= i}) = n - i
    BY <1>1, RankCount DEF rank, n
  <2>3. n - (a + u) = n - a - u /\ n - (a + 1) = n - a - 1
    BY <1>1, <1>2
  <2> HIDE DEF u
  <2>. QED BY <2>1, <2>2, <2>3
<1>13. /\ Cardinality({s \in S : 4 * s.price <= q}) >= a + 1
       /\ Cardinality({s \in S : 4 * s.price >= q}) >= n - a - u
       /\ Cardinality({s \in S : 4 * s.price < q}) <= a + u
       /\ Cardinality({s \in S : 4 * s.price > q}) <= n - a - 1
  <2>1. {x \in S : rank(x) < a + 1} \in SUBSET {s \in S : 4 * s.price <= q}
    BY <1>10
  <2>2. {x \in S : rank(x) >= a + u} \in SUBSET {s \in S : 4 * s.price >= q}
    BY <1>10
  <2>3. {s \in S : 4 * s.price < q} \in SUBSET {x \in S : rank(x) < a + u}
    BY <1>10
  <2>4. {s \in S : 4 * s.price > q} \in SUBSET {x \in S : rank(x) >= a + 1}
    BY <1>10
  <2>5. /\ {s \in S : 4 * s.price <= q} \in SUBSET S /\ {s \in S : 4 * s.price >= q} \in SUBSET S
        /\ {x \in S : rank(x) < a + u} \in SUBSET S /\ {x \in S : rank(x) >= a + 1} \in SUBSET S
    OBVIOUS
  <2>6. /\ Cardinality({x \in S : rank(x) < a + 1}) <= Cardinality({s \in S : 4 * s.price <= q})
        /\ Cardinality({x \in S : rank(x) >= a + u}) <= Cardinality({s \in S : 4 * s.price >= q})
        /\ Cardinality({s \in S : 4 * s.price < q}) <= Cardinality({x \in S : rank(x) < a + u})
        /\ Cardinality({s \in S : 4 * s.price > q}) <= Cardinality({x \in S : rank(x) >= a + 1})
    BY <1>11, <2>1, <2>2, <2>3, <2>4, <2>5
  <2>. QED BY <1>12, <2>6
<1>14. a = Quarters(n, k) /\ u = Rest(n, k)
  BY DEF a, r, u, h, Quarters, Rest
<1>. QED BY <1>13, <1>14 DEF n, q, Parted

\* What a range of past events has to be for the target.
PastRange(b, target) ==
  b.adequacy \in {"limited", "sufficient"} =>
    LET reps == b.reps
        n == Cardinality(reps)
    IN  /\ n >= SmallSample
        /\ \A s, o \in reps : s.event = o.event => s = o
        /\ \A s \in reps : /\ s.event # target.event /\ s.quantity = target.quantity
                           /\ s.kind = target.kind /\ s.complete
                           /\ LeadBucket(s.lead) = LeadBucket(target.lead)
        /\ 4 * Cardinality({s \in reps : 4 * s.price <= b.p25}) >= n
        /\ 4 * Cardinality({s \in reps : 4 * s.price >= b.p75}) >= n
        /\ 4 * Cardinality({s \in reps : 4 * s.price < b.p25}) <= n + 3
        /\ 4 * Cardinality({s \in reps : 4 * s.price > b.p75}) <= n + 3

\* Snapshots that stand for their events are comparable, and one an event.
LEMMA RepresentativesAre ==
  ASSUME NEW snapshots, Past1(snapshots), NEW target, target.lead \in Int, NEW rights
  PROVE  LET reps == Representatives(snapshots, target, rights)
         IN  /\ Past1(reps)
             /\ \A s \in reps : Comparable(s, target)
             /\ \A s, o \in reps : s.event = o.event => s = o
<1> DEFINE reps == Representatives(snapshots, target, rights)
           off(s) == IF s.lead > target.lead THEN s.lead - target.lead ELSE target.lead - s.lead
           nearer(a, b) == off(a) < off(b) \/ (off(a) = off(b) /\ a.id < b.id)
<1>1. reps \in SUBSET snapshots /\ \A s \in reps : Comparable(s, target)
  BY DEF Representatives
<1>2. Past1(reps)
  BY <1>1, FS_Subset DEF Past1
<1>3. \A s, o \in reps : o # s /\ o.event = s.event => nearer(s, o)
  BY DEF Representatives
<1>4. \A s \in reps : off(s) \in Int /\ s.id \in Int
  BY <1>2 DEF Past1, Snapshot
<1> HIDE DEF off, reps
<1>5. \A s, o \in reps : s.event = o.event => s = o
  BY <1>3, <1>4
<1>. QED BY <1>1, <1>2, <1>5 DEF reps

\* So a range said of them is one.
LEMMA BenchmarkIs ==
  ASSUME NEW snapshots, Past1(snapshots), NEW target, target.lead \in Int, NEW rights
  PROVE  PastRange(Benchmark(snapshots, target, rights), target)
<1> DEFINE reps == Representatives(snapshots, target, rights)
           b == Benchmark(snapshots, target, rights)
           n == Cardinality(reps)
<1>1. /\ Past1(reps) /\ \A s \in reps : Comparable(s, target)
      /\ \A s, o \in reps : s.event = o.event => s = o
  BY RepresentativesAre
<1>2. n \in Nat /\ SmallSample \in Nat \ {0} /\ FullSample \in Nat /\ SmallSample <= FullSample
  BY <1>1, FS_CardinalityType, HistoryAssumption DEF Past1
<1>3. Sorted(reps, Cheaper) = ByPrice(reps)
  <2>1. \A x \in reps : {y \in reps : Cheaper(y, x)} = {y \in reps : <<y, x>> \in CheaperIn(reps)}
    BY DEF CheaperIn
  <2>2. Sorted(reps, Cheaper) =
          [i \in 1 .. n |-> CHOOSE x \in reps : Cardinality({y \in reps : Cheaper(y, x)}) = i - 1]
    BY DEF Sorted
  <2> HIDE DEF reps
  <2>. QED BY <2>1, <2>2 DEF ByPrice, ByRank, RankIn
<1>4. /\ b.reps = reps
      /\ b.adequacy = CASE n >= FullSample -> "sufficient"
                        [] n < FullSample /\ n >= SmallSample -> "limited"
                        [] OTHER -> "insufficient"
      /\ b.p25 = IF n >= SmallSample THEN QuartileOf(reps, 1) ELSE 0
      /\ b.p75 = IF n >= SmallSample THEN QuartileOf(reps, 3) ELSE 0
  <2> HIDE DEF reps
  <2>. QED BY <1>3 DEF Benchmark, QuartileOf, reps
<1> HIDE DEF reps, n, b
<1>5. SUFFICES ASSUME b.adequacy \in {"limited", "sufficient"} PROVE PastRange(b, target)
  BY DEF PastRange, b
<1>6. n >= SmallSample
  BY <1>2, <1>4, <1>5
<1>7. reps # {}
  BY <1>2, <1>6, FS_EmptySet DEF n
<1>8. \A s \in reps : /\ s.event # target.event /\ s.quantity = target.quantity
                      /\ s.kind = target.kind /\ s.complete
                      /\ LeadBucket(s.lead) = LeadBucket(target.lead)
  BY <1>1 DEF Comparable, ContextMatches
<1>9. /\ 4 * Cardinality({s \in reps : 4 * s.price <= b.p25}) >= n
      /\ 4 * Cardinality({s \in reps : 4 * s.price < b.p25}) <= n + 3
  <2> DEFINE a == Quarters(n, 1)
             u == Rest(n, 1)
             below == Cardinality({s \in reps : 4 * s.price <= b.p25})
             under == Cardinality({s \in reps : 4 * s.price < b.p25})
  <2>1. b.p25 = QuartileOf(reps, 1)
    BY <1>4, <1>6
  <2>2. below >= a + 1 /\ under <= a + u
    <3>1. Parted(reps, n, QuartileOf(reps, 1), 1)
      BY <1>1, <1>7, QuartileParts DEF n
    <3>. QED BY <2>1, <3>1 DEF Parted
  <2>3. below \in Nat /\ under \in Nat
    BY <1>1, FS_Subset, FS_CardinalityType DEF Past1
  <2> HIDE DEF below, under
  <2>4. 4 * below >= n /\ 4 * under <= n + 3
    BY <1>2, <1>6, <2>2, <2>3 DEF Quarters, Rest
  <2>. QED BY <2>4 DEF below, under
<1>10. /\ 4 * Cardinality({s \in reps : 4 * s.price >= b.p75}) >= n
       /\ 4 * Cardinality({s \in reps : 4 * s.price > b.p75}) <= n + 3
  <2> DEFINE a == Quarters(n, 3)
             u == Rest(n, 3)
             above == Cardinality({s \in reps : 4 * s.price >= b.p75})
             over == Cardinality({s \in reps : 4 * s.price > b.p75})
  <2>1. b.p75 = QuartileOf(reps, 3)
    BY <1>4, <1>6
  <2>2. above >= n - a - u /\ over <= n - a - 1
    <3>1. Parted(reps, n, QuartileOf(reps, 3), 3)
      BY <1>1, <1>7, QuartileParts DEF n
    <3>. QED BY <2>1, <3>1 DEF Parted
  <2>3. above \in Nat /\ over \in Nat
    BY <1>1, FS_Subset, FS_CardinalityType DEF Past1
  <2> HIDE DEF above, over
  <2>4. 4 * above >= n /\ 4 * over <= n + 3
    BY <1>2, <1>6, <2>2, <2>3 DEF Quarters, Rest
  <2>. QED BY <2>4 DEF above, over
<1>. QED BY <1>1, <1>4, <1>6, <1>8, <1>9, <1>10 DEF PastRange, n

-----------------------------------------------------------------------------
(* What a packet keeps of its claims (lib/advice/packet.ts) *)

\* What a claim of a packet is made of.
Fields == {"id", "kind", "evidence", "shows", "visible"}

\* A claim of the trend carries the reads of the trend alone; the pick's is said only of a
\* pick whose price is known, the range of past events only of enough of them.
KeptIn(in, c) ==
  /\ DOMAIN c = Fields
  /\ c.id = "C_BEST" => Priced(in.best)
  /\ c.id = "C_BENCH" => in.bench.adequacy \in {"limited", "sufficient"}
  /\ (c.kind = "trend_change" /\ c.evidence # {}) \/ c.id = "C_TREND" =>
       /\ c.evidence = {o.at : o \in in.trend.used}
       /\ c.shows \subseteq {o.dataset : o \in in.trend.used}
\* All claims of a packet are so.
AllKept(in, claims) == \A c \in claims : KeptIn(in, c)

\* A rule that hides claims, or all but some, changes nothing else of them.
LEMMA HideKeeps ==
  ASSUME NEW in, NEW claims, AllKept(in, claims), NEW ids
  PROVE  AllKept(in, Hide(claims, ids)) /\ AllKept(in, HideBut(claims, ids))
<1>1. ASSUME NEW c \in claims, NEW v
      PROVE  KeptIn(in, [c EXCEPT !.visible = v])
  BY DEF AllKept, KeptIn, Fields
<1>. QED BY <1>1 DEF AllKept, Hide, HideBut

\* The claims about offers: a price is said of the pick only when it is known.
LEMMA OffersKept ==
  ASSUME NEW in, DOMAIN in.alternatives \subseteq {1, 2}
  PROVE  AllKept(in, OfferClaims(in))
<1>1. ASSUME NEW o, NEW kind \in {"current_offer", "alternative_offer", "entry_reference"},
             NEW id \in {"C_TOGETHER_OVER", "C_LEVEL", "C_ALT1", "C_ALT2", "C_ENTRY"}
      PROVE  KeptIn(in, OfferClaim(id, kind, o))
  BY DEF KeptIn, Fields, OfferClaim, Claim
<1>2. Priced(in.best) => KeptIn(in, OfferClaim("C_BEST", "current_offer", in.best))
  BY DEF KeptIn, Fields, OfferClaim, Claim
<1>3. KeptIn(in, Claim("C_OPTIONS", "option_count")) /\ KeptIn(in, Claim("C_LEFT_OUT", "coverage"))
  BY DEF KeptIn, Fields, Claim
<1>4. \A i \in DOMAIN in.alternatives : <<"C_ALT1", "C_ALT2">>[i] \in {"C_ALT1", "C_ALT2"}
  OBVIOUS
<1>5. \A i \in DOMAIN in.alternatives :
        KeptIn(in, OfferClaim(<<"C_ALT1", "C_ALT2">>[i], "alternative_offer", in.alternatives[i]))
  BY <1>1, <1>4
<1>6. \A o \in Say(Priced(in.best), OfferClaim("C_BEST", "current_offer", in.best)) : KeptIn(in, o)
  BY <1>2 DEF Say
<1> HIDE DEF KeptIn
<1>7. \A c \in OfferClaims(in) :
        \/ c \in Say(Priced(in.best), OfferClaim("C_BEST", "current_offer", in.best))
        \/ c = Claim("C_OPTIONS", "option_count") \/ c = Claim("C_LEFT_OUT", "coverage")
        \/ c = OfferClaim("C_TOGETHER_OVER", "alternative_offer", in.togetherOver)
        \/ c = OfferClaim("C_TOGETHER_OVER", "alternative_offer", in.closestOver)
        \/ c = OfferClaim("C_LEVEL", "alternative_offer", in.levelWanted)
        \/ c = OfferClaim("C_ENTRY", "entry_reference", in.entry)
        \/ \E i \in DOMAIN in.alternatives :
             c = OfferClaim(<<"C_ALT1", "C_ALT2">>[i], "alternative_offer", in.alternatives[i])
  <2> DEFINE alternatives ==
               UNION {Say(Priced(in.alternatives[i]),
                          OfferClaim(<<"C_ALT1", "C_ALT2">>[i], "alternative_offer",
                                     in.alternatives[i])) : i \in DOMAIN in.alternatives}
  <2>1. \A c \in alternatives : \E i \in DOMAIN in.alternatives :
          c = OfferClaim(<<"C_ALT1", "C_ALT2">>[i], "alternative_offer", in.alternatives[i])
    BY DEF Say
  <2>2. ASSUME NEW said, NEW claim, NEW c \in Say(said, claim) PROVE c = claim
    BY DEF Say
  <2> HIDE DEF alternatives
  <2>3. \A c \in OfferClaims(in) :
          \/ c \in Say(Priced(in.best), OfferClaim("C_BEST", "current_offer", in.best))
          \/ c \in Say(in.options > 1, Claim("C_OPTIONS", "option_count"))
          \/ c \in Say(in.leftOut # {}, Claim("C_LEFT_OUT", "coverage"))
          \/ c \in Say(Priced(in.togetherOver),
                       OfferClaim("C_TOGETHER_OVER", "alternative_offer", in.togetherOver))
          \/ c \in Say(~Priced(in.togetherOver) /\ Priced(in.closestOver),
                       OfferClaim("C_TOGETHER_OVER", "alternative_offer", in.closestOver))
          \/ c \in Say(in.levelWanted # NoOffer,
                       OfferClaim("C_LEVEL", "alternative_offer", in.levelWanted))
          \/ c \in Say(Priced(in.entry), OfferClaim("C_ENTRY", "entry_reference", in.entry))
          \/ c \in alternatives
    <3>1. OfferClaims(in) =
            Say(Priced(in.best), OfferClaim("C_BEST", "current_offer", in.best))
              \cup Say(in.options > 1, Claim("C_OPTIONS", "option_count"))
              \cup Say(Priced(in.togetherOver),
                       OfferClaim("C_TOGETHER_OVER", "alternative_offer", in.togetherOver))
              \cup Say(~Priced(in.togetherOver) /\ Priced(in.closestOver),
                       OfferClaim("C_TOGETHER_OVER", "alternative_offer", in.closestOver))
              \cup Say(in.levelWanted # NoOffer,
                       OfferClaim("C_LEVEL", "alternative_offer", in.levelWanted))
              \cup Say(Priced(in.entry), OfferClaim("C_ENTRY", "entry_reference", in.entry))
              \cup Say(in.leftOut # {}, Claim("C_LEFT_OUT", "coverage"))
              \cup alternatives
      BY DEF OfferClaims, alternatives
    <3>. QED BY <3>1
  <2>. QED BY <2>1, <2>2, <2>3
<1>. QED BY <1>1, <1>3, <1>5, <1>6, <1>7 DEF AllKept

\* Everything an answer could say: the trend's claims rest on the trend's own reads.
LEMMA SayableKept ==
  ASSUME NEW in, DOMAIN in.alternatives \subseteq {1, 2}
  PROVE  AllKept(in, Sayable(in))
<1> USE DEF AllKept, KeptIn, Fields, Claim, Say
<1>1. AllKept(in, QuoteClaims(in))
  BY DEF QuoteClaims
<1>2. AllKept(in, BenchClaims(in))
  <2> DEFINE range == [Claim("C_BENCH", "benchmark_range") EXCEPT
                         !.evidence = {s.id : s \in in.bench.reps},
                         !.shows = {s.dataset : s \in in.bench.reps}, !.visible = in.bench.shown]
  <2>1. in.bench.adequacy \in {"limited", "sufficient"} => KeptIn(in, range)
    OBVIOUS
  <2>2. KeptIn(in, Claim("C_NOHIST", "missing_history"))
    OBVIOUS
  <2>3. \A c \in BenchClaims(in) :
          \/ c = range /\ in.bench.adequacy \in {"limited", "sufficient"}
          \/ c = Claim("C_NOHIST", "missing_history")
    BY DEF BenchClaims
  <2> HIDE DEF KeptIn, Claim, range
  <2>. QED BY <2>1, <2>2, <2>3
<1>3. AllKept(in, TrendClaims(in))
  <2> DEFINE evidence == {o.at : o \in in.trend.used}
             prices == {o.dataset : o \in in.trend.used}
             said == [Claim("C_TREND", "trend_change") EXCEPT
                        !.evidence = evidence, !.shows = prices, !.visible = in.trendShown]
             thin == [Claim("C_NOTREND", "trend_change") EXCEPT
                        !.evidence = evidence,
                        !.shows = IF in.trend.historical THEN prices ELSE {},
                        !.visible = in.trend.historical => in.trendShown]
  <2>1. \A c \in TrendClaims(in) : c = said \/ c = thin
    BY DEF TrendClaims
  <2> HIDE DEF evidence, prices
  <2>2. KeptIn(in, said)
    BY DEF evidence, prices
  <2>3. KeptIn(in, thin)
    BY DEF evidence, prices
  <2> HIDE DEF KeptIn, Claim, said, thin
  <2>. QED BY <2>1, <2>2, <2>3
<1>4. AllKept(in, CountClaims(in))
  BY DEF CountClaims
<1>5. AllKept(in, NextClaims(in))
  BY DEF NextClaims
<1>6. AllKept(in, MarketClaims(in))
  BY DEF MarketClaims
<1> HIDE DEF KeptIn, Claim, Say
<1>. QED BY OffersKept, <1>1, <1>2, <1>3, <1>4, <1>5, <1>6 DEF Sayable

\* The claims that answer a question take their evidence from those already there.
LEMMA AnsweredKept ==
  ASSUME NEW in, NEW claims, AllKept(in, claims)
  PROVE  AllKept(in, Answered(in, claims))
<1> DEFINE trend == {c \in claims : c.id = "C_TREND" /\ c.visible}
           answer == [Claim("C_TREND_ANSWER", "trend_change") EXCEPT
                        !.shows = UNION {c.shows : c \in trend},
                        !.evidence = UNION {c.evidence : c \in trend}]
<1>1. AllKept(in, AnswerClaims(in))
  BY DEF AllKept, KeptIn, Fields, AnswerClaims, Claim, Say
<1>2. AllKept(in, TrendAnswer(in, claims))
  <2>1. CASE trend = {}
    <3>1. PICK answer0 \in TrendAnswer(in, claims) : TrendAnswer(in, claims) = {answer0}
      BY DEF TrendAnswer
    <3>2. answer0.evidence = UNION {c.evidence : c \in trend}
      BY <3>1 DEF TrendAnswer, Claim
    <3>3. DOMAIN answer0 = Fields /\ answer0.id = "C_TREND_ANSWER"
      BY <3>1 DEF TrendAnswer, Claim, Fields
    <3>4. answer0.evidence = {}
      BY <2>1, <3>2
    <3>. QED BY <3>1, <3>3, <3>4 DEF AllKept, KeptIn
  <2>2. CASE trend # {}
    <3>1. TrendAnswer(in, claims) = {answer}
      BY <2>2 DEF TrendAnswer
    <3>2. KeptIn(in, answer)
      <4>1. /\ answer.evidence = UNION {c.evidence : c \in trend}
            /\ answer.shows = UNION {c.shows : c \in trend}
        BY DEF Claim
      <4>2. \A c \in trend :
              /\ c.evidence = {o.at : o \in in.trend.used}
              /\ c.shows \subseteq {o.dataset : o \in in.trend.used}
        BY DEF AllKept, KeptIn
      <4>3. /\ answer.evidence = {o.at : o \in in.trend.used}
            /\ answer.shows \subseteq {o.dataset : o \in in.trend.used}
        <5> HIDE DEF trend
        <5>. QED BY <2>2, <4>1, <4>2
      <4>4. DOMAIN answer = Fields /\ answer.id = "C_TREND_ANSWER"
        BY DEF Claim, Fields
      <4> HIDE DEF answer
      <4>. QED BY <4>3, <4>4 DEF KeptIn
    <3>. QED BY <3>1, <3>2 DEF AllKept
  <2>. QED BY <2>1, <2>2
<1>. QED BY <1>1, <1>2, HideKeeps DEF Answered, AllKept

\* The packet as built, after every rule about what to leave out of it.
LEMMA PacketKept ==
  ASSUME NEW in, DOMAIN in.alternatives \subseteq {1, 2}
  PROVE  AllKept(in, BuildPacket(in))
<1> DEFINE c1 == Answered(in, Sayable(in))
           c2 == Picked(c1)
           c3 == Parked(in, c2)
           c4 == Unsold(c3)
           c5 == Compared(in, c4)
           c6 == Follow(in, c5)
           c7 == Focused(in, c6)
<1>1. AllKept(in, c1)
  BY SayableKept, AnsweredKept
<1>2. AllKept(in, c2)
  BY <1>1, HideKeeps DEF Picked
<1>3. AllKept(in, c3)
  BY <1>2, HideKeeps DEF Parked
<1>4. AllKept(in, c4)
  BY <1>3, HideKeeps DEF Unsold
<1>5. AllKept(in, c5)
  BY <1>4, HideKeeps DEF Compared
<1>6. AllKept(in, c6)
  BY <1>5, HideKeeps DEF Follow
<1>7. AllKept(in, c7)
  BY <1>6, HideKeeps DEF Focused
<1>8. BuildPacket(in) = Watched(in, c7)
  BY DEF BuildPacket
<1> HIDE DEF c7
<1>. QED BY <1>7, <1>8, HideKeeps DEF Watched

-----------------------------------------------------------------------------
(* What suits them (lib/advice/recommend.ts, eligibility) *)

\* An offer is ruled out unless it is the event's, of their number, allowed and in budget.
LEMMA ExclusionsAre ==
  ASSUME NEW o \in Offer, NEW c, c.accessible \in BOOLEAN
  PROVE  Exclusions(o, c) = {} <=>
           /\ o.restrictions \subseteq {"accessible"}
           /\ o.ours /\ o.quantity = c.quantity
           /\ c.accessible <=> "accessible" \in o.restrictions
           /\ ~(c.together = "yes" /\ c.quantity > 1 /\ o.together = "no")
           /\ o.availability # "unavailable"
           /\ ~(c.budget # NoPrice /\ Total(o) > c.budget)
<1>1. o.restrictions \subseteq Restrictions
  BY DEF Offer
<1> DEFINE out(r) ==
      \/ r \in Excluding /\ r \in o.restrictions
      \/ r = "wrong_event" /\ ~o.ours
      \/ r = "wrong_quantity" /\ o.quantity # c.quantity
      \/ r \in {"obstructed_view", "section_not_acceptable"} /\ r \in o.restrictions
      \/ r = "not_accessible" /\ c.accessible /\ "accessible" \notin o.restrictions
      \/ r = "accessible_only" /\ ~c.accessible /\ "accessible" \in o.restrictions
      \/ r = "seats_not_together" /\ c.together = "yes" /\ c.quantity > 1 /\ o.together = "no"
      \/ r = "unavailable" /\ o.availability = "unavailable"
      \/ r = "over_budget" /\ c.budget # NoPrice /\ Total(o) > c.budget
<1>2. Exclusions(o, c) = {} <=> \A r \in ExclusionReason : ~out(r)
  BY DEF Exclusions
<1>3. (\A r \in ExclusionReason : ~out(r)) <=>
        /\ \A r \in Excluding \cup {"obstructed_view", "section_not_acceptable"} :
             r \notin o.restrictions
        /\ o.ours /\ o.quantity = c.quantity
        /\ c.accessible <=> "accessible" \in o.restrictions
        /\ ~(c.together = "yes" /\ c.quantity > 1 /\ o.together = "no")
        /\ o.availability # "unavailable"
        /\ ~(c.budget # NoPrice /\ Total(o) > c.budget)
  BY DEF ExclusionReason, Excluding
<1>4. (\A r \in Excluding \cup {"obstructed_view", "section_not_acceptable"} :
         r \notin o.restrictions)
         <=> o.restrictions \subseteq {"accessible"}
  BY <1>1 DEF Restrictions, Excluding
<1>. QED BY <1>2, <1>3, <1>4

\* An offer goes to a person unless its seats, its price and its source are all known.
LEMMA FlagsAre ==
  ASSUME NEW o \in Offer, NEW c
  PROVE  Flags(o, c) = {} <=>
           /\ ~(c.together = "yes" /\ c.quantity > 1 /\ o.together = "unknown" /\ o.reserved)
           /\ o.availability # "unknown"
           /\ o.payable = NoPrice => o.fees # NoPrice /\ o.tax # NoPrice
           /\ o.payable = NoPrice => o.delivery # NoPrice \/ o.delivered
           /\ o.verified
BY DEF Flags

\* What is neither is eligible.
LEMMA EligibleIs ==
  ASSUME NEW o, NEW c
  PROVE  Verdict(o, c) = "eligible" <=> Exclusions(o, c) = {} /\ Flags(o, c) = {}
BY DEF Verdict

\* The terms research compares by: what they asked, with their budget for the party.
LEMMA TermsAre ==
  ASSUME case \in Cases
  PROVE  /\ Terms.quantity = World.terms.quantity /\ Terms.quantity \in Nat \ {0}
         /\ Terms.together \in {"yes", "no", "unsaid"} /\ Terms.accessible \in BOOLEAN
         /\ Terms.budget = WholePartyBudget(World.terms.budget, World.basis, World.terms.quantity)
         /\ Terms.budget \in Amount
<1>1. World.terms \in Wishes /\ World.basis \in {"whole_party", "per_person", "unknown"}
  BY AdviceAssumption DEF World
<1>2. \A n \in Nat, m \in Nat : n * m \in Nat
  OBVIOUS
<1>3. /\ World.terms.quantity \in Nat \ {0} /\ World.terms.budget \in Nat \cup {NoPrice}
      /\ World.terms.together \in {"yes", "no", "unsaid"} /\ World.terms.accessible \in BOOLEAN
  BY <1>1 DEF Wishes, Amount
<1>4. /\ Terms.quantity = World.terms.quantity /\ Terms.together = World.terms.together
      /\ Terms.accessible = World.terms.accessible
      /\ Terms.budget = WholePartyBudget(World.terms.budget, World.basis, World.terms.quantity)
  BY <1>1 DEF Terms, Wishes
<1>5. Terms.budget \in Amount
  BY <1>1, <1>2, <1>3, <1>4 DEF WholePartyBudget, NoPrice, Amount
<1>. QED BY <1>3, <1>4, <1>5

\* What suits them, said of the request alone, is what the comparison finds eligible at a
\* known total: a budget a head and one for all of them come to the same (intent.ts).
LEMMA SuitsIsEligible ==
  ASSUME case \in Cases, NEW o \in Offer
  PROVE  Suits(o) <=> Verdict(o, Terms) = "eligible" /\ Total(o) # NoPrice
<1>1. /\ o.together \in {"yes", "no", "unknown"} /\ o.reserved \in BOOLEAN
      /\ o.availability \in {"available", "unknown", "unavailable"}
      /\ {o.payable, o.base, o.fees, o.tax, o.delivery} \subseteq Amount
      /\ o.verified \in BOOLEAN /\ o.ours \in BOOLEAN /\ o.delivered \in BOOLEAN
  BY DEF Offer
<1>2. Total(o) # NoPrice <=>
        o.payable # NoPrice \/ {o.base, o.fees, o.tax, o.delivery} \subseteq Nat
  BY <1>1 DEF Total, NoPrice, Amount
<1>3. Total(o) # NoPrice => Total(o) \in Nat
  BY <1>1 DEF Total, NoPrice, Amount
<1>4. /\ World.terms.budget \in Amount /\ World.terms.quantity \in Nat
      /\ World.basis \in {"whole_party", "per_person", "unknown"}
  BY AdviceAssumption DEF World, Wishes
<1>5. Terms.budget = WholePartyBudget(World.terms.budget, World.basis, World.terms.quantity)
  BY TermsAre
<1>6. Party = World.terms.quantity /\ Party \in Nat
  BY TermsAre DEF Party
<1>7. \A n \in Nat, m \in Nat : n * m \in Nat /\ n * m = m * n
  OBVIOUS
<1>8. Total(o) # NoPrice =>
        (~(Terms.budget # NoPrice /\ Total(o) > Terms.budget) <=>
          (World.terms.budget # NoPrice /\ World.basis # "unknown" =>
            Total(o) <= IF World.basis = "per_person" THEN Party * World.terms.budget
                        ELSE World.terms.budget))
  <2>1. CASE World.basis = "unknown" \/ World.terms.budget = NoPrice
    BY <1>5, <2>1 DEF WholePartyBudget
  <2>2. CASE World.basis = "whole_party" /\ World.terms.budget # NoPrice
    BY <1>3, <1>4, <1>5, <2>2 DEF WholePartyBudget, Amount
  <2>3. CASE World.basis = "per_person" /\ World.terms.budget # NoPrice
    <3>1. World.terms.budget \in Nat
      BY <1>4, <2>3 DEF Amount
    <3>2. Terms.budget = World.terms.budget * Party /\ Terms.budget \in Nat
      BY <1>5, <1>6, <1>7, <2>3, <3>1 DEF WholePartyBudget
    <3>3. Terms.budget = Party * World.terms.budget
      BY <1>6, <1>7, <3>1, <3>2
    <3>. QED BY <1>3, <2>3, <3>2, <3>3 DEF NoPrice
  <2>. QED BY <1>4, <2>1, <2>2, <2>3
<1>9. Exclusions(o, Terms) = {} <=>
           /\ o.restrictions \subseteq {"accessible"}
           /\ o.ours /\ o.quantity = Party
           /\ Terms.accessible <=> "accessible" \in o.restrictions
           /\ ~(Terms.together = "yes" /\ Party > 1 /\ o.together = "no")
           /\ o.availability # "unavailable"
           /\ ~(Terms.budget # NoPrice /\ Total(o) > Terms.budget)
  BY ExclusionsAre, TermsAre DEF Party
<1>10. Flags(o, Terms) = {} <=>
           /\ ~(Terms.together = "yes" /\ Party > 1 /\ o.together = "unknown" /\ o.reserved)
           /\ o.availability # "unknown"
           /\ o.payable = NoPrice => o.fees # NoPrice /\ o.tax # NoPrice
           /\ o.payable = NoPrice => o.delivery # NoPrice \/ o.delivered
           /\ o.verified
  BY FlagsAre DEF Party
<1>11. o.restrictions \subseteq {"accessible"} <=> o.restrictions \ {"accessible"} = {}
  OBVIOUS
<1>12. {o.base, o.fees, o.tax, o.delivery} \subseteq Nat =>
          o.fees # NoPrice /\ o.tax # NoPrice /\ o.delivery # NoPrice
  BY DEF NoPrice
<1>. QED BY <1>1, <1>2, <1>8, <1>9, <1>10, <1>11, <1>12, EligibleIs DEF Suits

\* A priced pick suits them and no read that suits them is one they would rather have.
LEMMA BestIsTheirs ==
  ASSUME case \in Cases, NEW S, Reads1(S), IsFiniteSet(S), Priced(Best(S, Terms))
  PROVE  /\ Suits(Best(S, Terms))
         /\ \A o \in S : Suits(o) => ~Rather(o, Best(S, Terms))
<1> DEFINE best == Best(S, Terms)
           fits == Judged(S, Terms, "eligible")
<1>1. best # NoOffer /\ Total(best) # NoPrice
  BY DEF Priced
<1>2. /\ best \in fits
      /\ \A o \in fits \ {best} :
           \/ Before(best, o, Terms)
           \/ Terms.level # "any" /\ best.level = Terms.level /\ o.level # Terms.level
      /\ Terms.level # "any" /\ best.level # Terms.level => \A o \in fits : o.level # Terms.level
  BY <1>1, BestFits
<1>3. fits \subseteq Offer /\ fits \subseteq S
  BY DEF Judged, Reads1
<1>4. Suits(best)
  BY <1>1, <1>2, <1>3, SuitsIsEligible DEF Judged
<1>5. ASSUME NEW o \in S, Suits(o), Rather(o, best) PROVE FALSE
  <2>1. o \in fits /\ Total(o) # NoPrice
    BY <1>5, SuitsIsEligible DEF Judged, Reads1
  <2> HIDE DEF best, fits
  <2>2. Total(o) \in Int /\ Total(best) \in Int
    BY <1>2, <1>3, <2>1, TotalType
  <2> DEFINE there(x) == Terms.level = "any" \/ x.level = Terms.level
  <2>3. there(o) => there(best)
    BY <1>2, <2>1
  <2>4. CASE there(o) # there(best)
    BY <1>5, <2>3, <2>4 DEF Rather
  <2>5. CASE there(o) = there(best)
    <3>1. CASE o = best
      BY <1>5, <2>2, <3>1 DEF Rather
    <3>2. CASE o # best
      <4>1. Before(best, o, Terms)
        BY <1>2, <2>1, <2>5, <3>2
      <4>2. Apart(o, Terms) <=> (Party > 1 /\ Terms.together # "no" /\ o.together = "no")
        BY DEF Apart, Party
      <4>3. Apart(best, Terms) <=> (Party > 1 /\ Terms.together # "no" /\ best.together = "no")
        BY DEF Apart, Party
      <4>4. Ranks(best, o) => ~(Total(o) < Total(best))
        BY <1>1, <2>1, <2>2, RanksAre DEF Unknown
      <4>. QED BY <1>5, <2>5, <4>1, <4>2, <4>3, <4>4 DEF Rather, Before
    <3>. QED BY <3>1, <3>2
  <2>. QED BY <2>4, <2>5
<1>. QED BY <1>4, <1>5

-----------------------------------------------------------------------------
(* Journey: the invariant and what it is made of *)

\* A read is of an offer that is listed, or of one staff may enter.
ReadOf(o) == \E e \in OffersOf(World) : e.id = o.id /\ e.staff = o.staff
\* A read of a listing, as it is listed, at some hour.
OnList(o) == \E e \in OffersOf(World) : ~e.staff /\ o = [e EXCEPT !.at = o.at]

\* Where reads come from: what is stored and what a research saw are reads of the case's own
\* offers, what it saw is still stored in some read, and a source's are as listed.
Origins ==
  /\ IsFiniteSet(stored) /\ IsFiniteSet(run.seen)
  /\ \A o \in stored \cup run.seen : ReadOf(o)
  /\ \A o \in run.seen : \E p \in stored : p.id = o.id
  /\ run.stage = "asking" => \A o \in run.seen : OnList(o)

\* Until it writes, a research keeps the pick of what it saw.
BestIsBest ==
  run.stage \in {"trend", "market", "writing"} =>
    run.best = Best(run.seen, Terms) /\ PastRange(run.bench, case.target)

\* What a draft says, from the research it is of.
DraftHolds ==
  Made =>
    /\ Reads1(From.seen) /\ IsFiniteSet(From.seen)
    /\ From.best = Best(From.seen, Terms) /\ PastRange(From.bench, case.target)
    /\ AllKept(From, draft.claims)
    /\ IsFiniteSet(draft.chosen)
    /\ \A i \in draft.chosen : \E o \in stored : o.id = i

\* Research is due or under way.
Researching == request = "researching" \/ run.stage \in {"asking", "trend", "market", "writing"}
\* Where request, research, draft and mail may be together: research goes on only with no
\* draft open, mail is queued only by a draft approved, and only three drafts expire.
Flow ==
  /\ Researching => /\ draft.status \in {"none", "invalidated"} /\ mail \in {"none", "blocked"}
                    /\ expiries < ExpiryLimit
  /\ mail = "queued" => draft.status \in {"approved", "auto_sent"}
  /\ draft.status \in {"pending", "approved"} => expiries < ExpiryLimit
  /\ draft.status = "pending" => mail \in {"none", "blocked"}

\* A request whose event is not settled.
Unheard == request \in {"unsettled", "needs_clarification"}
\* Until the event is settled nothing is researched, and once it is nothing more is asked.
Enquiry ==
  /\ Unheard => run = Idle /\ draft = NoDraft /\ expiries = 0 /\ mail = "none"
  /\ enq.stage # "idle" => Unheard

\* A step of settling the event leaves the request or ends with it, never in between.
LEMMA ResolutionMoves ==
  ASSUME scene \in Scenes, R!RNext
  PROVE  /\ scene' = scene
         /\ \/ request' = request /\ (enq'.stage # "idle" => enq.stage # "idle" \/ Unheard)
            \/ /\ enq.stage = "settle" /\ enq'.stage = "idle"
               /\ request' \in {"researching", "referred", "unsupported", "needs_clarification",
                                "manual_attention"}
<1>1. CASE R!Receive
  BY <1>1 DEF R!Receive, Unheard
<1>2. CASE R!TheirSearch \/ R!LookUp("ours") \/ R!Call("ours")
  <2>1. ASSUME NEW c, R!LookUp(c) \/ R!Call(c) PROVE UNCHANGED <<scene, enq, request>>
    BY <2>1 DEF R!LookUp, R!Call
  <2>. QED BY <1>2, <2>1 DEF R!TheirSearch
<1>3. CASE R!ReadCatalog \/ R!ReadAgain \/ R!ReadForced \/ R!ReadElsewhere
  <2>1. CASE R!ReadCatalog
    BY <2>1 DEF R!ReadCatalog
  <2>2. CASE R!ReadAgain
    BY <2>2 DEF R!ReadAgain
  <2>3. CASE R!ReadForced
    BY <2>3 DEF R!ReadForced
  <2>4. CASE R!ReadElsewhere
    BY <2>4 DEF R!ReadElsewhere
  <2>. QED BY <1>3, <2>1, <2>2, <2>3, <2>4
<1>4. CASE R!Settle
  <2>1. /\ scene' = scene /\ enq.stage = "settle" /\ enq' = R!Blank
        /\ \/ \E list : R!CompareGames(list)
           \/ \E to \in {"unsupported", "referred"} : \E reason : R!End(to, reason)
           \/ \E r, open : R!GoOn(r, open)
    BY <1>4 DEF R!Settle
  <2>2. enq'.stage = "idle"
    BY <2>1 DEF R!Blank
  <2>3. scene.route \in {"researching", "referred"}
    BY JourneyAssumption
  <2>4. ASSUME NEW list, R!CompareGames(list) PROVE request' = "needs_clarification"
    BY <2>4 DEF R!CompareGames
  <2>5. ASSUME NEW to, NEW reason, R!End(to, reason) PROVE request' = to
    BY <2>5 DEF R!End
  <2>6. ASSUME NEW r, NEW open, R!GoOn(r, open)
        PROVE  request' \in {scene.route, "manual_attention", "needs_clarification"}
    BY <2>6 DEF R!GoOn
  <2>. QED BY <2>1, <2>2, <2>3, <2>4, <2>5, <2>6
<1>5. CASE R!OthersStep
  BY <1>5 DEF R!OthersStep
<1>. QED BY <1>1, <1>2, <1>3, <1>4, <1>5 DEF R!RNext, R!Interpret

\* A decision is one of those the answer knows.
LEMMA DecidedIsDecision ==
  Decided.decision \in Decisions
<1>1. ASSUME NEW in PROVE Decide(in).decision \in Decisions
  <2>1. \/ Decide(in) = WaitAdvice(in)
        \/ \E d \in {"consider_alternative", "insufficient_evidence", "buy_now"} :
             Decide(in) = Advise(d)
    BY DEF Decide
  <2>. QED BY <2>1 DEF WaitAdvice, Advise, Decisions
<1>. QED BY <1>1 DEF Decided

\* Approving does nothing, withdraws a pending draft, or approves it with its trend allowed.
LEMMA ApproveMoves ==
  ASSUME DOMAIN draft = DOMAIN NoDraft, Approve
  PROVE  \/ UNCHANGED <<draft, request, mail, expiries>>
         \/ /\ draft.status = "pending"
            /\ draft' = [draft EXCEPT !.status = "invalidated"]
            /\ UNCHANGED mail
            /\ \/ UNCHANGED <<request, expiries>>
               \/ /\ expiries' = expiries + 1
                  /\ request' = IF expiries + 1 >= ExpiryLimit THEN "manual_attention"
                                ELSE "researching"
         \/ /\ draft.status = "pending" /\ TrendClaimsStillAllowed
            /\ draft' = [draft EXCEPT !.status = "approved"]
            /\ mail' = "queued"
            /\ UNCHANGED <<request, expiries>>
BY DEF Approve, Reresearch

\* The clock ticks by whole steps.
LEMMA TickTime ==
  ASSUME NEW m \in Nat, clock \in {Step * n : n \in 0 .. m}, clock < Step * m
  PROVE  clock + Step \in {Step * n : n \in 0 .. m}
<1>1. PICK n \in 0 .. m : clock = Step * n
  OBVIOUS
<1>2. Step \in Nat \ {0} /\ n \in Nat
  BY AdviceAssumption
<1>3. n < m
  <2>1. SUFFICES ASSUME n = m PROVE FALSE
    OBVIOUS
  <2>2. Step * m \in Int
    BY <1>2
  <2>. QED BY <1>1, <2>1, <2>2
<1>4. Step * (n + 1) = Step * n + Step
  BY <1>2
<1>5. n + 1 \in 0 .. m
  BY <1>2, <1>3
<1>. QED BY <1>1, <1>4, <1>5

\* The terms of a case and what is fixed of it.
LEMMA CaseIs ==
  ASSUME case \in Cases
  PROVE  /\ World.ticks \in Nat /\ World.changes \in Nat /\ World.ago \subseteq Nat
         /\ World.risen \in Nat
         /\ World.terms \in Wishes
         /\ World.rights \in [DOMAIN World.rights -> Rights] /\ World.licence \subseteq Uses4Market
         /\ World.blocked \in BOOLEAN
         /\ World.target \in Target /\ Past1(World.snapshots)
         /\ OffersAssumption(World)
BY AdviceAssumption DEF World, Past1

\* Rights cut down are rights.
LEMMA LesserAreRights ==
  ASSUME NEW r \in Rights
  PROVE  Lesser(r) \subseteq Rights
<1>1. \A u \in r.uses : [r EXCEPT !.uses = @ \ {u}] \in Rights
  BY DEF Rights
<1>2. [r EXCEPT !.status = "revoked"] \in Rights
  BY DEF Rights, Statuses
<1>3. [r EXCEPT !.raw = IF @ = "open" THEN "over" ELSE @,
                !.derived = IF @ = "open" THEN "over" ELSE @] \in Rights
  BY DEF Rights, Ends
<1>. QED BY <1>1, <1>2, <1>3 DEF Lesser

\* What others hold stays of its types.
LEMMA HandsStep ==
  ASSUME AdviceTypeOK, case \in Cases, ChangeRights \/ ChangePolicy \/ ChangeLicence \/ ChangeEvent
  PROVE  hands' \in [rights : [DOMAIN World.rights -> Rights], overrides : {World.overrides, <<>>},
               blocked : BOOLEAN, licence : SUBSET Uses4Market, scheduled : BOOLEAN]
<1> DEFINE Hands == [rights : [DOMAIN World.rights -> Rights], overrides : {World.overrides, <<>>},
               blocked : BOOLEAN, licence : SUBSET Uses4Market, scheduled : BOOLEAN]
<1>1. hands \in Hands
  BY DEF AdviceTypeOK
<1>2. CASE ChangeRights
  <2>1. PICK d \in DOMAIN hands.rights : \E r \in Lesser(hands.rights[d]) :
          hands' = [hands EXCEPT !.rights = [@ EXCEPT ![d] = r]]
    BY <1>2 DEF ChangeRights
  <2>2. hands.rights[d] \in Rights
    BY <1>1
  <2>3. PICK r \in Rights : hands' = [hands EXCEPT !.rights = [@ EXCEPT ![d] = r]]
    BY <2>1, <2>2, LesserAreRights
  <2>4. [hands.rights EXCEPT ![d] = r] \in [DOMAIN World.rights -> Rights]
    BY <1>1, <2>3
  <2>. QED BY <1>1, <2>3, <2>4
<1>3. CASE ChangePolicy
  BY <1>1, <1>3 DEF ChangePolicy
<1>4. CASE ChangeLicence
  BY <1>1, <1>4 DEF ChangeLicence
<1>5. CASE ChangeEvent
  BY <1>1, <1>5 DEF ChangeEvent
<1>. QED BY <1>2, <1>3, <1>4, <1>5

\* The image of a finite set is finite.
LEMMA ImageIsFinite ==
  ASSUME NEW S, IsFiniteSet(S), NEW f
  PROVE  IsFiniteSet({f[x] : x \in S})
<1> DEFINE T == {f[x] : x \in S}
           g == [x \in S |-> f[x]]
<1>1. g \in Surjection(S, T)
  BY DEF Surjection
<1>. QED BY <1>1, FS_Surjection

\* One offer an id; the reads seen and those stored are typed.
Stored1(S) == S \subseteq Offer /\ \A o, p \in S : o.id = p.id => o = p

\* An offer read at another hour is an offer.
LEMMA ReadAt ==
  ASSUME NEW o \in Offer, NEW t \in Int
  PROVE  [o EXCEPT !.at = t] \in Offer
BY DEF Offer

\* Storing reads keeps one an offer and loses none.
LEMMA ObserveKeeps ==
  ASSUME Stored1(stored), IsFiniteSet(stored), NEW got, Stored1(got), IsFiniteSet(got)
  PROVE  /\ Stored1(Observe(got)) /\ IsFiniteSet(Observe(got))
         /\ \A o \in stored \cup got : \E p \in Observe(got) : p.id = o.id
         /\ \A o \in Observe(got) : o \in stored \/ o \in got
<1> DEFINE rest == {o \in stored : \A p \in got : p.id # o.id}
<1>1. Observe(got) = rest \cup got
  BY DEF Observe
<1>2. rest \in SUBSET stored
  OBVIOUS
<1>3. IsFiniteSet(rest)
  BY <1>2, FS_Subset
<1>4. IsFiniteSet(rest \cup got)
  BY <1>3, FS_Union
<1>5. Stored1(rest \cup got)
  BY DEF Stored1
<1>. QED BY <1>1, <1>4, <1>5

\* What a source lists, read at `t`.
ReadAs(s, t) == {[o EXCEPT !.at = t] : o \in Lists(s)}

\* It is one read of each offer, none of staff's.
LEMMA ListsAre ==
  ASSUME case \in Cases, NEW s, NEW t \in Int
  PROVE  /\ Stored1(ReadAs(s, t)) /\ IsFiniteSet(ReadAs(s, t))
         /\ \A o \in ReadAs(s, t) : OnList(o) /\ ~o.staff /\ o.at = t
<1> DEFINE got == {[o EXCEPT !.at = t] : o \in Lists(s)}
<1>1. OffersAssumption(World)
  BY CaseIs
<1>2. Lists(s) \in SUBSET OffersOf(World) /\ \A o \in Lists(s) : ~o.staff
  BY <1>1 DEF Lists, OffersOf, OffersAssumption
<1>3. IsFiniteSet(Lists(s)) /\ Stored1(Lists(s))
  BY <1>1, <1>2, FS_Subset DEF OffersAssumption, Stored1
<1>4. IsFiniteSet(got)
  <2> DEFINE f == [o \in Lists(s) |-> [o EXCEPT !.at = t]]
  <2>1. got = {f[o] : o \in Lists(s)}
    OBVIOUS
  <2> HIDE DEF got, f
  <2>. QED BY <1>3, <2>1, ImageIsFinite
<1>5. Stored1(got)
  <2>1. ASSUME NEW o \in Lists(s)
        PROVE  [o EXCEPT !.at = t] \in Offer /\ [o EXCEPT !.at = t].id = o.id
    <3>1. o \in Offer
      BY <1>3 DEF Stored1
    <3>. QED BY <3>1, ReadAt DEF Offer
  <2>2. got \subseteq Offer
    BY <2>1
  <2>3. ASSUME NEW o \in got, NEW p \in got, o.id = p.id
        PROVE  o = p
    <3>1. PICK e \in Lists(s) : o = [e EXCEPT !.at = t]
      OBVIOUS
    <3>2. PICK f \in Lists(s) : p = [f EXCEPT !.at = t]
      OBVIOUS
    <3>3. e.id = f.id
      BY <2>1, <2>3, <3>1, <3>2
    <3>4. e = f
      BY <1>3, <3>3 DEF Stored1
    <3>. QED BY <3>1, <3>2, <3>4
  <2> HIDE DEF got
  <2>. QED BY <2>2, <2>3 DEF Stored1
<1>6. ASSUME NEW o \in got PROVE OnList(o) /\ ~o.staff /\ o.at = t
  <2>1. PICK e \in Lists(s) : o = [e EXCEPT !.at = t]
    OBVIOUS
  <2>2. e \in Offer
    BY <1>3 DEF Stored1
  <2>3. o.staff = e.staff /\ o.at = t
    BY <2>1, <2>2 DEF Offer
  <2>. QED BY <1>2, <2>1, <2>3 DEF OnList
<1>7. got = ReadAs(s, t)
  BY DEF ReadAs
<1> HIDE DEF got
<1>. QED BY <1>4, <1>5, <1>6, <1>7

\* A read of a listing is of an offer that is listed, never staff's.
LEMMA OnListIsRead ==
  ASSUME case \in Cases, NEW o, OnList(o)
  PROVE  ReadOf(o) /\ ~o.staff
<1>1. PICK e \in OffersOf(World) : ~e.staff /\ o = [e EXCEPT !.at = o.at]
  BY DEF OnList
<1>2. e \in Offer
  BY CaseIs DEF OffersAssumption
<1>3. o.id = e.id /\ o.staff = e.staff
  BY <1>1, <1>2 DEF Offer
<1>. QED BY <1>1, <1>3 DEF ReadOf

\* Two listed offers of one id and one hour are one.
LEMMA OnListIsOne ==
  ASSUME case \in Cases, NEW o, NEW p, OnList(o), OnList(p), o.id = p.id, o.at = p.at
  PROVE  o = p
<1>1. PICK e \in OffersOf(World) : o = [e EXCEPT !.at = o.at]
  BY DEF OnList
<1>2. PICK f \in OffersOf(World) : p = [f EXCEPT !.at = p.at]
  BY DEF OnList
<1>3. e \in Offer /\ f \in Offer /\ \A x, y \in OffersOf(World) : x.id = y.id => x = y
  BY CaseIs DEF OffersAssumption
<1>4. o.id = e.id /\ p.id = f.id
  BY <1>1, <1>2, <1>3 DEF Offer
<1>5. e = f
  BY <1>3, <1>4
<1>. QED BY <1>1, <1>2, <1>5

\* The reads are in order.
ReadsOK ==
  /\ Stored1(stored) /\ Reads1(run.seen)
  /\ Origins

\* A source asked: its reads join those seen and take the place of those stored.
LEMMA AskSourceReads ==
  ASSUME case \in Cases, clock \in Int, DOMAIN run = DOMAIN Idle, ReadsOK, AskSource
  PROVE  ReadsOK' /\ case' = case
<1>1. run.stage = "asking" /\ case' = case
  BY DEF AskSource
<1>2. PICK got : /\ \/ got = {}
                    \/ \E s : got = ReadAs(s, clock)
                 /\ run'.seen = run.seen \cup got
                 /\ run'.stage = run.stage
                 /\ stored' = Observe(got) \/ (got = {} /\ stored' = stored)
  <2> DEFINE s == run.plan[run.next].source
             a == World.adapters[s]
             listed == {[o EXCEPT !.at = clock] : o \in Lists(s)}
  <2>1. CASE run' = [run EXCEPT !.next = @ + 1] /\ stored' = stored
    <3>1. run'.seen = run.seen /\ run'.stage = run.stage
      BY <2>1 DEF Idle
    <3>. QED BY <2>1, <3>1
  <2>2. CASE \E answer \in Answers(a) :
           LET got == IF answer = "success" THEN listed ELSE {}
           IN  /\ run' = [run EXCEPT
                    !.next = @ + 1, !.seen = @ \cup got,
                    !.checked = IF answer = "success" THEN @ \cup {s} ELSE @]
               /\ stored' = Observe(got)
    <3> HIDE DEF listed
    <3>1. PICK answer \in Answers(a) :
           LET got == IF answer = "success" THEN listed ELSE {}
           IN  /\ run' = [run EXCEPT
                    !.next = @ + 1, !.seen = @ \cup got,
                    !.checked = IF answer = "success" THEN @ \cup {s} ELSE @]
               /\ stored' = Observe(got)
      BY <2>2
    <3>2. CASE answer = "success"
      <4>1. run'.seen = run.seen \cup listed /\ run'.stage = run.stage /\ stored' = Observe(listed)
        BY <3>1, <3>2 DEF Idle
      <4>. QED BY <4>1 DEF listed, ReadAs
    <3>3. CASE answer # "success"
      <4>1. run'.seen = run.seen \cup {} /\ run'.stage = run.stage /\ stored' = Observe({})
        BY <3>1, <3>3 DEF Idle
      <4>. QED BY <4>1
    <3>. QED BY <3>2, <3>3
  <2>. QED BY <2>1, <2>2 DEF AskSource
<1>3. Stored1(got) /\ IsFiniteSet(got) /\ \A o \in got : OnList(o) /\ o.at = clock
  <2>1. CASE got = {}
    BY <2>1, FS_EmptySet DEF Stored1
  <2>2. ASSUME NEW s, got = ReadAs(s, clock)
        PROVE  Stored1(got) /\ IsFiniteSet(got) /\ \A o \in got : OnList(o) /\ o.at = clock
    BY <2>2, ListsAre
  <2>. QED BY <1>2, <2>1, <2>2
<1>4. /\ Stored1(stored') /\ IsFiniteSet(stored')
      /\ \A o \in stored \cup got : \E p \in stored' : p.id = o.id
      /\ \A o \in stored' : o \in stored \/ o \in got
  BY <1>2, <1>3, ObserveKeeps DEF ReadsOK, Origins
<1>5. \A o \in run.seen : OnList(o)
  BY <1>1 DEF ReadsOK, Origins
<1>6. Reads1(run'.seen)
  BY <1>2, <1>3, <1>5, OnListIsOne DEF ReadsOK, Reads1, Stored1
<1>7. IsFiniteSet(run'.seen)
  <2>1. IsFiniteSet(run.seen)
    BY DEF ReadsOK, Origins
  <2>2. IsFiniteSet(run.seen \cup got)
    BY <1>3, <2>1, FS_Union
  <2>. QED BY <1>2, <2>2
<1>8. \A o \in stored' \cup run'.seen : ReadOf(o)
  BY <1>2, <1>3, <1>4, OnListIsRead DEF ReadsOK, Origins
<1>9. \A o \in run'.seen : OnList(o) /\ \E p \in stored' : p.id = o.id
  <2>1. ASSUME NEW o \in run.seen PROVE \E p \in stored' : p.id = o.id
    <3>1. PICK q \in stored : q.id = o.id
      BY DEF ReadsOK, Origins
    <3>2. PICK p \in stored' : p.id = q.id
      BY <1>4
    <3>. QED BY <3>1, <3>2
  <2>. QED BY <1>2, <1>3, <1>4, <1>5, <2>1
<1>. QED BY <1>1, <1>4, <1>6, <1>7, <1>8, <1>9 DEF ReadsOK, Origins, ReadOf, OnList, World

\* The comparison adds staff's own offers to the reads, none twice, and keeps the pick.
LEMMA CompareReads ==
  ASSUME case \in Cases, DOMAIN run = DOMAIN Idle, ReadsOK, Compare
  PROVE  ReadsOK' /\ case' = case /\ run'.best = Best(run'.seen, Terms) /\ run'.stage = "trend"
<1> DEFINE manual == {o \in stored : o.staff /\ o.quantity = Party /\ run.at - o.at <= ManualFor}
           all == run.seen \cup manual
<1>1. /\ run.stage = "asking" /\ case' = case /\ stored' = stored
      /\ run'.seen = all /\ run'.stage = "trend" /\ run'.best = Best(all, Terms)
  BY DEF Compare, Idle
<1>2. manual \in SUBSET stored /\ \A o \in manual : o.staff
  OBVIOUS
<1> HIDE DEF manual
<1>3. \A o \in run.seen : OnList(o) /\ ~o.staff
  BY <1>1, OnListIsRead DEF ReadsOK, Origins
<1>4. \A o \in manual, p \in run.seen : o.id # p.id
  <2>1. ASSUME NEW o \in manual, NEW p \in run.seen, o.id = p.id PROVE FALSE
    <3>1. PICK e \in OffersOf(World) : e.id = o.id /\ e.staff = o.staff
      BY <1>2 DEF ReadsOK, Origins, ReadOf
    <3>2. PICK f \in OffersOf(World) : f.id = p.id /\ f.staff = p.staff
      BY DEF ReadsOK, Origins, ReadOf
    <3>3. e = f
      BY <2>1, <3>1, <3>2, CaseIs DEF OffersAssumption
    <3>. QED BY <1>2, <1>3, <3>1, <3>2, <3>3
  <2>. QED BY <2>1
<1>5. Reads1(all)
  BY <1>2, <1>4 DEF ReadsOK, Reads1, Stored1
<1>6. IsFiniteSet(all)
  <2>1. IsFiniteSet(manual)
    BY <1>2, FS_Subset DEF ReadsOK, Origins
  <2>2. IsFiniteSet(run.seen)
    BY DEF ReadsOK, Origins
  <2>. QED BY <2>1, <2>2, FS_Union
<1>7. \A o \in stored \cup all : ReadOf(o)
  BY <1>2 DEF ReadsOK, Origins
<1>8. \A o \in all : \E p \in stored : p.id = o.id
  BY <1>2 DEF ReadsOK, Origins
<1>. QED BY <1>1, <1>5, <1>6, <1>7, <1>8 DEF ReadsOK, Origins, ReadOf, OnList, World

\* An offer staff enter is stored once, and what was stored stays.
LEMMA AddManualReads ==
  ASSUME case \in Cases, clock \in Int, ReadsOK, AddManualOffer
  PROVE  /\ ReadsOK' /\ case' = case /\ UNCHANGED run
         /\ \A o \in stored : \E p \in stored' : p.id = o.id
<1>1. PICK e \in World.entered, ago \in World.ago :
        /\ \A p \in stored : p.id # e.id
        /\ stored' = stored \cup {[e EXCEPT !.at = clock - ago]}
  BY DEF AddManualOffer
<1> DEFINE o == [e EXCEPT !.at = clock - ago]
<1>2. case' = case /\ run' = run
  BY DEF AddManualOffer
<1>3. e \in OffersOf(World) /\ e \in Offer
  BY CaseIs DEF OffersOf, OffersAssumption
<1>4. clock - ago \in Int
  BY CaseIs
<1>5. o \in Offer /\ o.id = e.id /\ o.staff = e.staff
  BY <1>3, <1>4, ReadAt DEF Offer
<1>6. ReadOf(o)
  BY <1>3, <1>5 DEF ReadOf
<1> HIDE DEF o
<1>7. Stored1(stored')
  BY <1>1, <1>5 DEF ReadsOK, Stored1, o
<1>8. IsFiniteSet(stored')
  <2>1. IsFiniteSet(stored \cup {o})
    BY FS_AddElement DEF ReadsOK, Origins
  <2>. QED BY <1>1, <2>1 DEF o
<1>9. \A p \in stored' : p \in stored \/ p = o
  BY <1>1 DEF o
<1>10. \A p \in stored : p \in stored'
  BY <1>1
<1>. QED BY <1>2, <1>6, <1>7, <1>8, <1>9, <1>10 DEF ReadsOK, Origins, ReadOf, OnList, World

\* An offer re-read is the same offer.
LEMMA RereadIs ==
  ASSUME case \in Cases, clock \in Int, NEW o \in Offer, NEW p \in Reread(o)
  PROVE  p \in Offer /\ p.id = o.id /\ p.staff = o.staff
<1>1. World.risen \in Nat
  BY CaseIs
<1>2. \/ p = [o EXCEPT !.availability = "unknown"]
      \/ p = [o EXCEPT !.availability = "unavailable"]
      \/ \E price \in {o.payable, World.risen} :
           p = [o EXCEPT !.at = clock, !.payable = price, !.availability = "available"]
  BY DEF Reread
<1>3. CASE p = [o EXCEPT !.availability = "unknown"]
  BY <1>3 DEF Offer
<1>4. CASE p = [o EXCEPT !.availability = "unavailable"]
  BY <1>4 DEF Offer
<1>5. ASSUME NEW price \in Amount,
             p = [o EXCEPT !.at = clock, !.payable = price, !.availability = "available"]
      PROVE  p \in Offer /\ p.id = o.id /\ p.staff = o.staff
  BY <1>5 DEF Offer
<1>6. {o.payable, World.risen} \subseteq Amount
  BY <1>1 DEF Offer, Amount
<1>. QED BY <1>2, <1>3, <1>4, <1>5, <1>6

\* Re-reading what was chosen replaces those reads and loses none.
LEMMA RevalidateReads ==
  ASSUME case \in Cases, clock \in Int, ReadsOK, RevalidateRecommendation
  PROVE  /\ ReadsOK' /\ case' = case /\ UNCHANGED run
         /\ \A o \in stored : \E p \in stored' : p.id = o.id
<1>1. PICK reads \in [Chosen -> UNION {Reread(o) : o \in Chosen}] :
        /\ \A o \in Chosen : reads[o] \in Reread(o)
        /\ stored' = Observe({reads[o] : o \in Chosen})
  BY DEF RevalidateRecommendation
<1> DEFINE got == {reads[o] : o \in Chosen}
<1>2. Chosen \in SUBSET stored
  BY DEF Chosen
<1>3. case' = case /\ run' = run
  BY DEF RevalidateRecommendation
<1>4. \A o \in Chosen : reads[o] \in Offer /\ reads[o].id = o.id /\ reads[o].staff = o.staff
  BY <1>1, <1>2, RereadIs DEF ReadsOK, Stored1
<1>5. Stored1(got)
  BY <1>2, <1>4 DEF ReadsOK, Stored1
<1>6. IsFiniteSet(got)
  <2>1. IsFiniteSet(Chosen)
    BY <1>2, FS_Subset DEF ReadsOK, Origins
  <2>. QED BY <2>1, ImageIsFinite
<1>7. \A p \in got : ReadOf(p)
  BY <1>2, <1>4 DEF ReadsOK, Origins, ReadOf
<1> HIDE DEF got
<1>8. /\ Stored1(stored') /\ IsFiniteSet(stored')
      /\ \A o \in stored \cup got : \E p \in stored' : p.id = o.id
      /\ \A o \in stored' : o \in stored \/ o \in got
  BY <1>1, <1>5, <1>6, ObserveKeeps DEF ReadsOK, Origins, got
<1>9. \A o \in run.seen : \E p \in stored' : p.id = o.id
  BY <1>8 DEF ReadsOK, Origins
<1>. QED BY <1>3, <1>7, <1>8, <1>9 DEF ReadsOK, Origins, ReadOf, OnList, World

\* A step that stores nothing and sees nothing new.
LEMMA OtherReads ==
  ASSUME ReadsOK, UNCHANGED <<case, stored>>,
         run'.seen = run.seen \/ run'.seen = {},
         run'.stage = "asking" => run.stage = "asking" \/ run'.seen = {}
  PROVE  ReadsOK'
<1>1. CASE run'.seen = {}
  <2>1. Reads1({}) /\ IsFiniteSet({})
    BY FS_EmptySet DEF Reads1
  <2>. QED BY <1>1, <2>1 DEF ReadsOK, Origins, ReadOf, OnList, World, Stored1
<1>2. CASE run'.seen = run.seen
  BY <1>2 DEF ReadsOK, Origins, ReadOf, OnList, World, Stored1
<1>. QED BY <1>1, <1>2

\* What an answer is built from: the pick, the trend and the offers the research saw.
LEMMA FoundIs ==
  ASSUME Reads1(run.seen), IsFiniteSet(run.seen), run.best = Best(run.seen, Terms)
  PROVE  /\ Found.best = run.best /\ Found.trend = run.trend /\ Found.bench = run.bench
         /\ Found.advice = Decided
         /\ DOMAIN Found.alternatives \subseteq {1, 2}
         /\ IsFiniteSet(VerifiedOffers(Found)) /\ VerifiedOffers(Found) \subseteq run.seen
<1>1. /\ Found.best = run.best /\ Found.trend = run.trend /\ Found.bench = run.bench
      /\ Found.advice = Decided /\ Found.alternatives = Alternatives(run.seen, Terms)
      /\ Found.entry = EntryReference(run.seen, Terms)
  BY DEF Found
<1>2. /\ DOMAIN Alternatives(run.seen, Terms) \subseteq {1, 2}
      /\ \A n \in DOMAIN Alternatives(run.seen, Terms) :
           Alternatives(run.seen, Terms)[n] \in run.seen
  BY AlternativesAreSeen
<1>3. EntryReference(run.seen, Terms) \in run.seen \cup {NoOffer}
  BY EntryIsSeen
<1>4. run.best # NoOffer => run.best \in run.seen
  BY BestFits DEF Judged
<1>5. VerifiedOffers(Found) =
        {o \in {Found.best, Found.entry} \cup
                {Found.alternatives[n] : n \in DOMAIN Found.alternatives} : o # NoOffer}
  BY DEF VerifiedOffers, Range
<1>6. VerifiedOffers(Found) \in SUBSET run.seen
  BY <1>1, <1>2, <1>3, <1>4, <1>5
<1>7. IsFiniteSet(VerifiedOffers(Found))
  BY <1>6, FS_Subset
<1>. QED BY <1>1, <1>2, <1>6, <1>7

\* What is kept of a claim is said of the pick, the trend and the range alone.
LEMMA KeptOfBoth ==
  ASSUME NEW in, NEW of, in.best = of.best, in.trend = of.trend, in.bench = of.bench,
         NEW claims, AllKept(in, claims)
  PROVE  AllKept(of, claims)
BY DEF AllKept, KeptIn

\* A draft written holds what the research it is of found.
LEMMA WriteDraftHolds ==
  ASSUME case \in Cases, DOMAIN run = DOMAIN Idle, ReadsOK, BestIsBest, WriteDraft
  PROVE  /\ DraftHolds' /\ draft'.advice.decision \in Decisions
         /\ DOMAIN draft' = DOMAIN NoDraft /\ DOMAIN run' = DOMAIN Idle
         /\ run.stage = "writing" /\ run'.stage \in {"idle", "approving"} /\ run'.seen = {}
         /\ run'.next \in Nat /\ run'.at = 0 /\ draft'.made = run.at
         /\ UNCHANGED <<case, stored, expiries>>
         /\ \/ draft'.status = "auto_sent" /\ mail' = "queued" /\ request' = "recommendation_sent"
            \/ draft'.status = "pending" /\ mail' = "none" /\ request' = "awaiting_review"
<1> DEFINE chosen == VerifiedOffers(Found)
           auto == chosen = {} /\ Terms.quote
           from == [run EXCEPT !.stage = "idle"]
<1>1. /\ run.stage = "writing" /\ UNCHANGED <<case, stored, expiries>>
      /\ draft' = [status |-> IF auto THEN "auto_sent" ELSE "pending", made |-> run.at,
                   claims |-> BuildPacket(Found), chosen |-> {o.id : o \in chosen},
                   advice |-> Found.advice, from |-> from]
      /\ mail' = IF auto THEN "queued" ELSE "none"
      /\ request' = IF auto THEN "recommendation_sent" ELSE "awaiting_review"
      /\ run' = IF ~auto /\ World.autoApprove THEN [Idle EXCEPT !.stage = "approving"] ELSE Idle
  BY DEF WriteDraft
<1>2. Reads1(run.seen) /\ IsFiniteSet(run.seen) /\ run.best = Best(run.seen, Terms)
      /\ PastRange(run.bench, case.target)
  BY <1>1 DEF ReadsOK, Origins, BestIsBest
<1>3. /\ Found.best = run.best /\ Found.trend = run.trend /\ Found.bench = run.bench
      /\ Found.advice = Decided
      /\ DOMAIN Found.alternatives \subseteq {1, 2}
      /\ IsFiniteSet(chosen) /\ chosen \subseteq run.seen
  BY <1>2, FoundIs
<1>4. /\ from.best = run.best /\ from.trend = run.trend /\ from.bench = run.bench
      /\ from.seen = run.seen
  BY DEF Idle
<1> HIDE DEF from, chosen, auto
<1>5. AllKept(from, BuildPacket(Found))
  <2>1. AllKept(Found, BuildPacket(Found))
    BY <1>3, PacketKept
  <2>. QED BY <1>3, <1>4, <2>1, KeptOfBoth
<1>6. IsFiniteSet({o.id : o \in chosen})
  <2> DEFINE f == [o \in chosen |-> o.id]
  <2>1. {o.id : o \in chosen} = {f[o] : o \in chosen}
    OBVIOUS
  <2>2. IsFiniteSet({f[o] : o \in chosen})
    <3> HIDE DEF f
    <3>. QED BY <1>3, ImageIsFinite
  <2>. QED BY <2>1, <2>2
<1>7. \A i \in {o.id : o \in chosen} : \E o \in stored' : o.id = i
  BY <1>1, <1>3 DEF ReadsOK, Origins
<1>8. DraftHolds'
  <2>1. /\ draft'.from = from /\ draft'.claims = BuildPacket(Found)
        /\ draft'.chosen = {o.id : o \in chosen}
    BY <1>1
  <2>2. Terms' = Terms
    BY <1>1 DEF Terms, World
  <2>3. PastRange(draft'.from.bench, case'.target)
    <3>1. draft'.from.bench = run.bench /\ case' = case
      BY <1>1, <1>4, <2>1
    <3>. QED BY <1>2, <3>1
  <2>. QED BY <1>2, <1>4, <1>5, <1>6, <1>7, <2>1, <2>2, <2>3 DEF DraftHolds, From
<1>9. draft'.advice.decision \in Decisions /\ DOMAIN draft' = DOMAIN NoDraft
  BY <1>1, <1>3, DecidedIsDecision DEF NoDraft
<1>10. DOMAIN run' = DOMAIN Idle /\ run'.stage \in {"idle", "approving"} /\ run'.seen = {}
       /\ run'.next \in Nat /\ run'.at = 0 /\ draft'.made = run.at
  BY <1>1 DEF Idle
<1>. QED BY <1>1, <1>8, <1>9, <1>10

\* A draft keeps what holds of it while what it is made of stays and what is chosen is stored.
LEMMA DraftKeeps ==
  ASSUME DraftHolds, DOMAIN draft = DOMAIN NoDraft,
         case' = case, \A o \in stored : \E p \in stored' : p.id = o.id,
         \/ UNCHANGED draft
         \/ \E status \in {"approved", "invalidated"} :
              draft.status # "none" /\ draft' = [draft EXCEPT !.status = status]
  PROVE  DraftHolds'
<1>1. /\ draft'.from = draft.from /\ draft'.claims = draft.claims /\ draft'.chosen = draft.chosen
      /\ draft'.status # "none" => draft.status # "none"
  BY DEF NoDraft
<1>2. Terms' = Terms
  BY DEF Terms, World
<1>3. Made' => Made
  BY <1>1 DEF Made
<1>4. ASSUME Made, NEW i \in draft.chosen PROVE \E p \in stored' : p.id = i
  <2>1. PICK o \in stored : o.id = i
    BY <1>4 DEF DraftHolds
  <2>. QED BY <2>1
<1>. QED BY <1>1, <1>2, <1>3, <1>4 DEF DraftHolds, From

-----------------------------------------------------------------------------
(* The invariant of a journey.                                             *)

\* The parts together.
JourneyInv ==
  /\ AdviceTypeOK /\ case \in Cases /\ scene \in Scenes
  /\ Origins /\ BestIsBest /\ DraftHolds /\ Flow /\ Enquiry

\* The parts as the steps below use them.
LEMMA TypedReads ==
  ASSUME JourneyInv
  PROVE  /\ ReadsOK /\ DOMAIN run = DOMAIN Idle /\ DOMAIN draft = DOMAIN NoDraft
         /\ clock \in Int /\ clock \in Nat
<1>1. Step \in Nat /\ World.ticks \in Nat
  BY CaseIs, AdviceAssumption DEF JourneyInv
<1>2. clock \in Int /\ clock \in Nat
  BY <1>1 DEF JourneyInv, AdviceTypeOK
<1>. QED BY <1>2 DEF JourneyInv, AdviceTypeOK, ReadsOK, Stored1, Reads1

\* A journey begins in the invariant.
LEMMA InitHolds ==
  ASSUME JourneyInit
  PROVE  JourneyInv
<1>1. Ready /\ R!RInit
  BY DEF JourneyInit
<1>2. /\ case \in Cases /\ clock = 0 /\ stored = {} /\ run = Idle /\ draft = NoDraft
      /\ mail = "none" /\ changes = World.changes /\ expiries = 0
      /\ hands = [rights |-> World.rights, overrides |-> World.overrides,
              blocked |-> World.blocked, licence |-> World.licence, scheduled |-> TRUE]
  BY <1>1 DEF Ready
<1>3. scene \in Scenes /\ request \in {"researching", "unsettled"} /\ enq.stage = "idle"
  BY <1>1 DEF R!RInit, R!Blank
<1>4. AdviceTypeOK
  <2>1. clock \in {Step * n : n \in 0 .. World.ticks}
    <3>1. Step * 0 = 0 /\ 0 \in 0 .. World.ticks
      BY <1>2, CaseIs, AdviceAssumption
    <3>. QED BY <1>2, <3>1
  <2>2. hands \in [rights : [DOMAIN World.rights -> Rights], overrides : {World.overrides, <<>>},
               blocked : BOOLEAN, licence : SUBSET Uses4Market, scheduled : BOOLEAN]
    BY <1>2, CaseIs
  <2>3. changes \in 0 .. World.changes /\ expiries \in 0 .. ExpiryLimit
    BY <1>2, CaseIs, AdviceAssumption
  <2>4. run.stage = "idle" /\ run.next = 1 /\ run.seen = {} /\ draft.status = "none"
        /\ run.at = 0 /\ draft.made = 0
        /\ draft.advice.decision = "none"
        /\ DOMAIN run = DOMAIN Idle /\ DOMAIN draft = DOMAIN NoDraft
    BY <1>2 DEF Idle, NoDraft, Advise
  <2>. QED BY <1>2, <1>3, <2>1, <2>2, <2>3, <2>4 DEF AdviceTypeOK, Stages
<1>5. Origins /\ BestIsBest
  BY <1>2, FS_EmptySet DEF Origins, BestIsBest, Idle
<1>6. DraftHolds
  BY <1>2 DEF DraftHolds, Made, NoDraft
<1>7. Flow /\ Enquiry
  BY <1>2, <1>3, AdviceAssumption DEF Flow, Enquiry, Researching, NoDraft, Idle, Unheard
<1>. QED BY <1>2, <1>3, <1>4, <1>5, <1>6, <1>7 DEF JourneyInv

\* What a step of the advice has to keep.
Kept ==
  /\ AdviceTypeOK /\ case \in Cases
  /\ Origins /\ BestIsBest /\ DraftHolds /\ Flow /\ ~Unheard

\* A research begun, or begun again after a crash, has seen nothing.
LEMMA StartHolds ==
  ASSUME JourneyInv, ~Unheard, StartResearch
  PROVE  Kept'
<1>1. ReadsOK /\ DOMAIN run = DOMAIN Idle /\ DOMAIN draft = DOMAIN NoDraft /\ clock \in Nat
  BY TypedReads
<1>2. /\ UNCHANGED <<case, clock, hands, stored, draft, request, mail, changes, expiries>>
      /\ request = "researching"
      /\ DOMAIN run' = DOMAIN Idle /\ run'.stage = "asking" /\ run'.next = 1 /\ run'.seen = {}
      /\ run'.at = clock
  BY DEF StartResearch, Idle
<1>3. ReadsOK'
  BY <1>1, <1>2, OtherReads
<1>4. AdviceTypeOK'
  BY <1>1, <1>2, <1>3 DEF JourneyInv, AdviceTypeOK, World, Stages, ReadsOK, Stored1, Reads1
<1>5. DraftHolds'
  BY <1>1, <1>2, DraftKeeps DEF JourneyInv
<1>6. Flow' /\ BestIsBest' /\ ~Unheard'
  BY <1>2 DEF JourneyInv, Flow, Researching, BestIsBest, Unheard
<1>. QED BY <1>2, <1>3, <1>4, <1>5, <1>6 DEF Kept, JourneyInv, ReadsOK

\* Asking a source keeps it.
LEMMA AskHolds ==
  ASSUME JourneyInv, ~Unheard, AskSource
  PROVE  Kept'
<1>1. ReadsOK /\ DOMAIN run = DOMAIN Idle /\ DOMAIN draft = DOMAIN NoDraft /\ clock \in Int
  BY TypedReads
<1>2. /\ UNCHANGED <<case, clock, hands, draft, request, mail, changes, expiries>>
      /\ run.stage = "asking" /\ run.next \in Nat
  BY DEF AskSource, JourneyInv, AdviceTypeOK
<1>3. ReadsOK'
  BY <1>1, AskSourceReads DEF JourneyInv
<1>4. DOMAIN run' = DOMAIN Idle /\ run'.stage = "asking" /\ run'.next \in Nat /\ run'.at = run.at
      /\ \A o \in stored : \E p \in stored' : p.id = o.id
  <2>1. CASE run' = [run EXCEPT !.next = @ + 1] /\ stored' = stored
    BY <1>1, <1>2, <2>1 DEF Idle
  <2>2. ASSUME NEW got, NEW checked,
               run' = [run EXCEPT !.next = @ + 1, !.seen = @ \cup got, !.checked = checked],
               stored' = Observe(got), got \in SUBSET Offer
        PROVE  DOMAIN run' = DOMAIN Idle /\ run'.stage = "asking" /\ run'.next \in Nat
               /\ run'.at = run.at /\ \A o \in stored : \E p \in stored' : p.id = o.id
    BY <1>1, <1>2, <2>2 DEF Idle, Observe
  <2> DEFINE s == run.plan[run.next].source
             listed == ReadAs(s, clock)
  <2>3. listed \in SUBSET Offer
    <3>1. case \in Cases
      BY DEF JourneyInv
    <3>2. Stored1(listed)
      BY <1>1, <3>1, ListsAre
    <3>. QED BY <3>2 DEF Stored1
  <2> HIDE DEF listed
  <2>4. CASE \E answer \in Answers(World.adapters[s]) :
           LET got == IF answer = "success" THEN listed ELSE {}
           IN  /\ run' = [run EXCEPT
                    !.next = @ + 1, !.seen = @ \cup got,
                    !.checked = IF answer = "success" THEN @ \cup {s} ELSE @]
               /\ stored' = Observe(got)
    <3>1. PICK answer \in Answers(World.adapters[s]) :
           LET got == IF answer = "success" THEN listed ELSE {}
           IN  /\ run' = [run EXCEPT
                    !.next = @ + 1, !.seen = @ \cup got,
                    !.checked = IF answer = "success" THEN @ \cup {s} ELSE @]
               /\ stored' = Observe(got)
      BY <2>4
    <3> DEFINE got == IF answer = "success" THEN listed ELSE {}
               checked == IF answer = "success" THEN run.checked \cup {s} ELSE run.checked
    <3>2. /\ run' = [run EXCEPT !.next = @ + 1, !.seen = @ \cup got, !.checked = checked]
          /\ stored' = Observe(got) /\ got \in SUBSET Offer
      BY <2>3, <3>1
    <3> HIDE DEF got, checked
    <3>. QED BY <2>2, <3>2
  <2>5. \/ run' = [run EXCEPT !.next = @ + 1] /\ stored' = stored
        \/ \E answer \in Answers(World.adapters[s]) :
           LET got == IF answer = "success" THEN listed ELSE {}
           IN  /\ run' = [run EXCEPT
                    !.next = @ + 1, !.seen = @ \cup got,
                    !.checked = IF answer = "success" THEN @ \cup {s} ELSE @]
               /\ stored' = Observe(got)
    BY DEF AskSource, listed, ReadAs
  <2>. QED BY <2>1, <2>4, <2>5
<1>5. AdviceTypeOK'
  BY <1>2, <1>3, <1>4 DEF JourneyInv, AdviceTypeOK, World, Stages, ReadsOK, Stored1, Reads1
<1>6. DraftHolds'
  BY <1>1, <1>2, <1>4, DraftKeeps DEF JourneyInv
<1>7. Flow' /\ BestIsBest' /\ ~Unheard'
  BY <1>2, <1>4 DEF JourneyInv, Flow, Researching, BestIsBest, Unheard
<1>. QED BY <1>2, <1>3, <1>5, <1>6, <1>7 DEF Kept, JourneyInv, ReadsOK

\* So does the comparison.
LEMMA CompareHolds ==
  ASSUME JourneyInv, ~Unheard, Compare
  PROVE  Kept'
<1>1. ReadsOK /\ DOMAIN run = DOMAIN Idle /\ DOMAIN draft = DOMAIN NoDraft
  BY TypedReads
<1>2. UNCHANGED <<case, clock, hands, stored, draft, request, mail, changes, expiries>>
      /\ run.stage = "asking" /\ DOMAIN run' = DOMAIN Idle /\ run'.next = run.next
      /\ run'.at = run.at
  BY <1>1 DEF Compare, Idle
<1>3. ReadsOK' /\ run'.best = Best(run'.seen, Terms) /\ run'.stage = "trend"
  BY <1>1, CompareReads DEF JourneyInv
<1>4. Terms' = Terms
  BY <1>2 DEF Terms, World
<1>5. AdviceTypeOK'
  BY <1>2, <1>3 DEF JourneyInv, AdviceTypeOK, World, Stages, ReadsOK, Stored1, Reads1
<1>6. DraftHolds'
  BY <1>1, <1>2, DraftKeeps DEF JourneyInv
<1>7. PastRange(run'.bench, case.target)
  <2> DEFINE class == IF run'.best = NoOffer THEN "none" ELSE run'.best.class
             target == [World.target EXCEPT !.class = class]
  <2>1. \/ run'.bench = NoBench
        \/ run'.bench = Benchmark(World.snapshots, target, hands.rights)
    BY <1>1 DEF Compare, Idle
  <2>2. CASE run'.bench = NoBench
    BY <2>2 DEF PastRange, NoBench
  <2> HIDE DEF class
  <2>3. /\ target.event = case.target.event /\ target.kind = case.target.kind
        /\ target.quantity = case.target.quantity /\ target.lead = case.target.lead
        /\ target.lead \in Int /\ Past1(World.snapshots)
    BY CaseIs DEF JourneyInv, Target, World
  <2>4. CASE run'.bench = Benchmark(World.snapshots, target, hands.rights)
    <3> HIDE DEF target
    <3>1. PastRange(run'.bench, target)
      BY <2>3, <2>4, BenchmarkIs
    <3>. QED BY <2>3, <3>1 DEF PastRange
  <2>. QED BY <2>1, <2>2, <2>4
<1>8. Flow' /\ BestIsBest' /\ ~Unheard'
  BY <1>2, <1>3, <1>4, <1>7 DEF JourneyInv, Flow, Researching, BestIsBest, Unheard
<1>. QED BY <1>2, <1>3, <1>5, <1>6, <1>8 DEF Kept, JourneyInv, ReadsOK

\* The trend and the market are read without touching offers.
LEMMA ReadsHold ==
  ASSUME JourneyInv, ~Unheard, ReadTrend \/ ReadMarket
  PROVE  Kept'
<1>1. ReadsOK /\ DOMAIN run = DOMAIN Idle /\ DOMAIN draft = DOMAIN NoDraft
  BY TypedReads
<1>2. /\ UNCHANGED <<case, clock, hands, stored, draft, request, mail, changes, expiries>>
      /\ run.stage \in {"trend", "market"} /\ run'.stage \in {"market", "writing"}
      /\ DOMAIN run' = DOMAIN Idle
      /\ run'.next = run.next /\ run'.seen = run.seen /\ run'.best = run.best /\ run'.at = run.at
      /\ run'.bench = run.bench
  <2>1. CASE ReadTrend
    BY <1>1, <2>1 DEF ReadTrend, Idle
  <2>2. CASE ReadMarket
    BY <1>1, <2>2 DEF ReadMarket, Idle
  <2>. QED BY <2>1, <2>2
<1>3. ReadsOK'
  BY <1>1, <1>2, OtherReads
<1>4. Terms' = Terms
  BY <1>2 DEF Terms, World
<1>5. AdviceTypeOK'
  BY <1>2, <1>3 DEF JourneyInv, AdviceTypeOK, World, Stages, ReadsOK, Stored1, Reads1
<1>6. DraftHolds'
  BY <1>1, <1>2, DraftKeeps DEF JourneyInv
<1>7. Flow' /\ BestIsBest' /\ ~Unheard'
  BY <1>2, <1>4 DEF JourneyInv, Flow, Researching, BestIsBest, Unheard
<1>. QED BY <1>2, <1>3, <1>5, <1>6, <1>7 DEF Kept, JourneyInv, ReadsOK

\* The draft takes over what the research found.
LEMMA WriteHolds ==
  ASSUME JourneyInv, ~Unheard, WriteDraft
  PROVE  Kept'
<1>1. ReadsOK /\ DOMAIN run = DOMAIN Idle /\ BestIsBest /\ case \in Cases
  BY TypedReads DEF JourneyInv
<1>2. UNCHANGED <<clock, hands, changes>>
  BY DEF WriteDraft
<1>3. /\ DraftHolds' /\ draft'.advice.decision \in Decisions
      /\ DOMAIN draft' = DOMAIN NoDraft /\ DOMAIN run' = DOMAIN Idle
      /\ run.stage = "writing" /\ run'.stage \in {"idle", "approving"} /\ run'.seen = {}
      /\ run'.next \in Nat /\ run'.at = 0 /\ draft'.made = run.at
      /\ UNCHANGED <<case, stored, expiries>>
      /\ \/ draft'.status = "auto_sent" /\ mail' = "queued" /\ request' = "recommendation_sent"
         \/ draft'.status = "pending" /\ mail' = "none" /\ request' = "awaiting_review"
  BY <1>1, WriteDraftHolds
<1>4. ReadsOK'
  BY <1>1, <1>3, OtherReads
<1>5. AdviceTypeOK'
  BY <1>2, <1>3, <1>4 DEF JourneyInv, AdviceTypeOK, World, Stages, ReadsOK, Stored1, Reads1
<1>6. Flow' /\ BestIsBest' /\ ~Unheard'
  BY <1>3 DEF JourneyInv, Flow, Researching, BestIsBest, Unheard
<1>. QED BY <1>1, <1>3, <1>4, <1>5, <1>6 DEF Kept, ReadsOK

\* Approval, by staff or by the system, and the expiries it counts.
LEMMA ApproveHolds ==
  ASSUME JourneyInv, ~Unheard, ApproveRecommendation \/ AutoApprove
  PROVE  Kept'
<1>1. ReadsOK /\ DOMAIN run = DOMAIN Idle /\ DOMAIN draft = DOMAIN NoDraft
  BY TypedReads
<1>2. /\ UNCHANGED <<case, clock, hands, stored, changes>> /\ Approve
      /\ run' = run \/ (run' = Idle /\ run.stage = "approving")
  BY DEF ApproveRecommendation, AutoApprove
<1>3. /\ DOMAIN run' = DOMAIN Idle /\ run'.next \in Nat /\ run'.at \in Nat /\ run'.stage \in Stages
      /\ run'.stage = run.stage \/ run'.stage = "idle"
      /\ run'.seen = run.seen \/ run'.seen = {}
      /\ run'.stage = run.stage => run' = run
  BY <1>1, <1>2 DEF JourneyInv, AdviceTypeOK, Idle, Stages
<1>4. ReadsOK'
  BY <1>1, <1>2, <1>3, OtherReads
<1>5. \/ UNCHANGED <<draft, request, mail, expiries>>
         \/ /\ draft.status = "pending"
            /\ draft' = [draft EXCEPT !.status = "invalidated"]
            /\ UNCHANGED mail
            /\ \/ UNCHANGED <<request, expiries>>
               \/ /\ expiries' = expiries + 1
                  /\ request' = IF expiries + 1 >= ExpiryLimit THEN "manual_attention"
                                ELSE "researching"
         \/ /\ draft.status = "pending" /\ TrendClaimsStillAllowed
            /\ draft' = [draft EXCEPT !.status = "approved"]
            /\ mail' = "queued"
            /\ UNCHANGED <<request, expiries>>
  BY <1>1, <1>2, ApproveMoves
<1>6. Terms' = Terms
  BY <1>2 DEF Terms, World
<1>7. DraftHolds'
  BY <1>1, <1>2, <1>5, DraftKeeps DEF JourneyInv
<1>8. BestIsBest'
  BY <1>2, <1>3, <1>6 DEF JourneyInv, BestIsBest, Idle
<1>9. Flow /\ expiries \in Nat /\ ExpiryLimit \in Nat /\ expiries <= ExpiryLimit
  BY AdviceAssumption DEF JourneyInv, AdviceTypeOK
<1>10. AdviceTypeOK' /\ Flow' /\ ~Unheard'
  <2>1. CASE UNCHANGED <<draft, request, mail, expiries>>
    BY <1>2, <1>3, <1>4, <2>1
       DEF JourneyInv, AdviceTypeOK, World, Stages, ReadsOK, Stored1, Reads1,
           Flow, Researching, Unheard
  <2>2. CASE /\ draft.status = "pending"
             /\ draft' = [draft EXCEPT !.status = "invalidated"]
             /\ UNCHANGED <<mail, request, expiries>>
    <3>1. draft'.status = "invalidated" /\ DOMAIN draft' = DOMAIN NoDraft
          /\ draft'.advice = draft.advice /\ draft'.made = draft.made
      BY <1>1, <2>2 DEF NoDraft
    <3>. QED BY <1>2, <1>3, <1>4, <2>2, <3>1
       DEF JourneyInv, AdviceTypeOK, World, Stages, ReadsOK, Stored1, Reads1,
           Flow, Researching, Unheard
  <2>3. CASE /\ draft.status = "pending"
             /\ draft' = [draft EXCEPT !.status = "invalidated"]
             /\ UNCHANGED mail
             /\ expiries' = expiries + 1
             /\ request' = IF expiries + 1 >= ExpiryLimit THEN "manual_attention"
                           ELSE "researching"
    <3>1. draft'.status = "invalidated" /\ DOMAIN draft' = DOMAIN NoDraft
          /\ draft'.advice = draft.advice /\ draft'.made = draft.made
      BY <1>1, <2>3 DEF NoDraft
    <3>2. expiries < ExpiryLimit /\ mail \in {"none", "blocked"}
          /\ ~(run.stage \in {"asking", "trend", "market", "writing"})
      BY <1>9, <2>3 DEF Flow, Researching
    <3>3. expiries' \in 0 .. ExpiryLimit
      BY <1>9, <2>3, <3>2
    <3>4. request' \in {"manual_attention", "researching"}
          /\ (request' = "researching" => expiries' < ExpiryLimit)
      BY <1>9, <2>3
    <3>5. Flow' /\ ~Unheard'
      BY <1>3, <2>3, <3>1, <3>2, <3>4 DEF Flow, Researching, Unheard
    <3>. QED BY <1>2, <1>3, <1>4, <2>3, <3>1, <3>3, <3>4, <3>5
       DEF JourneyInv, AdviceTypeOK, World, Stages, ReadsOK, Stored1, Reads1
  <2>4. CASE /\ draft.status = "pending"
             /\ draft' = [draft EXCEPT !.status = "approved"]
             /\ mail' = "queued"
             /\ UNCHANGED <<request, expiries>>
    <3>1. draft'.status = "approved" /\ DOMAIN draft' = DOMAIN NoDraft
          /\ draft'.advice = draft.advice /\ draft'.made = draft.made
      BY <1>1, <2>4 DEF NoDraft
    <3>2. ~Researching /\ expiries < ExpiryLimit
      BY <1>9, <2>4 DEF Flow
    <3>3. Flow' /\ ~Unheard'
      BY <1>3, <2>4, <3>1, <3>2 DEF Flow, Researching, Unheard
    <3>. QED BY <1>2, <1>3, <1>4, <2>4, <3>1, <3>3
       DEF JourneyInv, AdviceTypeOK, World, Stages, ReadsOK, Stored1, Reads1
  <2>. QED BY <1>5, <2>1, <2>2, <2>3, <2>4
<1>. QED BY <1>2, <1>4, <1>7, <1>8, <1>10 DEF Kept, JourneyInv, ReadsOK

\* Staff's offers and re-reads never take away what a draft rests on.
LEMMA StaffHolds ==
  ASSUME JourneyInv, ~Unheard, AddManualOffer \/ RevalidateRecommendation
  PROVE  Kept'
<1>1. ReadsOK /\ DOMAIN run = DOMAIN Idle /\ DOMAIN draft = DOMAIN NoDraft /\ clock \in Int
      /\ case \in Cases
  BY TypedReads DEF JourneyInv
<1>2. UNCHANGED <<case, clock, hands, run, draft, request, mail, changes, expiries>>
  BY DEF AddManualOffer, RevalidateRecommendation
<1>3. ReadsOK' /\ \A o \in stored : \E p \in stored' : p.id = o.id
  BY <1>1, AddManualReads, RevalidateReads
<1>4. Terms' = Terms
  BY <1>2 DEF Terms, World
<1>5. AdviceTypeOK'
  BY <1>2, <1>3 DEF JourneyInv, AdviceTypeOK, World, ReadsOK, Stored1, Reads1
<1>6. DraftHolds'
  BY <1>1, <1>2, <1>3, DraftKeeps DEF JourneyInv
<1>7. Flow' /\ BestIsBest' /\ ~Unheard'
  BY <1>2, <1>4 DEF JourneyInv, Flow, Researching, BestIsBest, Unheard
<1>. QED BY <1>1, <1>2, <1>3, <1>5, <1>6, <1>7 DEF Kept, ReadsOK

\* What others change, time and a crash leave the draft as it is.
LEMMA OthersHold ==
  ASSUME JourneyInv, ~Unheard, OthersAct \/ Tick \/ WorkerDies
  PROVE  Kept'
<1>1. ReadsOK /\ DOMAIN run = DOMAIN Idle /\ DOMAIN draft = DOMAIN NoDraft /\ clock \in Int
      /\ case \in Cases /\ AdviceTypeOK
  BY TypedReads DEF JourneyInv
<1>2. /\ UNCHANGED <<case, stored, draft, request, mail, expiries>>
      /\ run' = run \/ run' = Idle
  BY DEF OthersAct, Tick, WorkerDies
<1>3. /\ DOMAIN run' = DOMAIN Idle /\ run'.next \in Nat /\ run'.at \in Nat /\ run'.stage \in Stages
      /\ run'.seen = run.seen \/ run'.seen = {}
      /\ run' = run \/ run'.stage = "idle"
  BY <1>1, <1>2 DEF AdviceTypeOK, Idle, Stages
<1>4. ReadsOK'
  BY <1>1, <1>2, <1>3, OtherReads
<1>5. Terms' = Terms
  BY <1>2 DEF Terms, World
<1>6. clock' \in {Step * n : n \in 0 .. World.ticks}
  <2>1. clock \in {Step * n : n \in 0 .. World.ticks} /\ World.ticks \in Nat
    BY <1>1, CaseIs DEF AdviceTypeOK
  <2>2. CASE Tick
    BY <2>1, <2>2, TickTime DEF Tick
  <2>3. CASE OthersAct \/ WorkerDies
    BY <2>1, <2>3 DEF OthersAct, WorkerDies
  <2>. QED BY <2>2, <2>3
<1>7. hands' \in [rights : [DOMAIN World.rights -> Rights], overrides : {World.overrides, <<>>},
               blocked : BOOLEAN, licence : SUBSET Uses4Market, scheduled : BOOLEAN]
  <2>1. CASE OthersAct
    BY <1>1, <2>1, HandsStep DEF OthersAct
  <2>2. CASE Tick \/ WorkerDies
    BY <1>1, <2>2 DEF Tick, WorkerDies, AdviceTypeOK
  <2>. QED BY <2>1, <2>2
<1>8. changes' \in 0 .. World.changes
  BY <1>1, CaseIs DEF OthersAct, Tick, WorkerDies, AdviceTypeOK
<1>9. AdviceTypeOK'
  BY <1>1, <1>2, <1>3, <1>4, <1>6, <1>7, <1>8
  DEF AdviceTypeOK, World, ReadsOK, Stored1, Reads1
<1>10. DraftHolds'
  BY <1>1, <1>2, DraftKeeps DEF JourneyInv
<1>11. Flow' /\ BestIsBest' /\ ~Unheard'
  BY <1>2, <1>3, <1>5 DEF JourneyInv, Flow, Researching, BestIsBest, Unheard
<1>. QED BY <1>1, <1>2, <1>4, <1>9, <1>10, <1>11 DEF Kept, ReadsOK

\* The dispatcher sends, or blocks and perhaps withdraws the draft.
LEMMA DispatchHolds ==
  ASSUME JourneyInv, ~Unheard, DispatchSend
  PROVE  Kept'
<1>1. ReadsOK /\ DOMAIN run = DOMAIN Idle /\ DOMAIN draft = DOMAIN NoDraft
      /\ case \in Cases /\ AdviceTypeOK
  BY TypedReads DEF JourneyInv
<1>2. /\ UNCHANGED <<case, clock, hands, stored, run, changes>>
      /\ mail = "queued"
      /\ \/ mail' = "sent" /\ request' = "recommendation_sent" /\ UNCHANGED <<draft, expiries>>
         \/ /\ mail' = "blocked"
            /\ \/ UNCHANGED <<draft, request, expiries>>
               \/ /\ draft' = [draft EXCEPT !.status = "invalidated"]
                  /\ UNCHANGED <<request, expiries>>
               \/ /\ draft' = [draft EXCEPT !.status = "invalidated"]
                  /\ draft.status = "approved"
                  /\ expiries' = expiries + 1
                  /\ \/ request' = request
                     \/ request' = "manual_attention"
                     \/ request' = "researching" /\ expiries + 1 < ExpiryLimit
  <2>1. expiries \in Nat /\ ExpiryLimit \in Nat
    BY <1>1, AdviceAssumption DEF AdviceTypeOK
  <2>. QED BY <2>1 DEF DispatchSend, Reresearch
<1>3. Terms' = Terms
  BY <1>2 DEF Terms, World
<1>4. ReadsOK'
  BY <1>1, <1>2, OtherReads
<1>5. draft.status \in {"approved", "auto_sent"} /\ ~Researching
  BY <1>2 DEF JourneyInv, Flow
<1>6. expiries \in Nat /\ ExpiryLimit \in Nat
      /\ (draft.status = "approved" => expiries < ExpiryLimit)
      /\ expiries <= ExpiryLimit
  BY <1>1, AdviceAssumption DEF JourneyInv, Flow, AdviceTypeOK
<1>7. DraftHolds'
  BY <1>1, <1>2, <1>5, DraftKeeps DEF JourneyInv
<1>8. /\ draft' = draft \/ draft'.status = "invalidated"
      /\ draft'.advice = draft.advice /\ DOMAIN draft' = DOMAIN NoDraft
      /\ draft'.made = draft.made
  BY <1>1, <1>2 DEF NoDraft
<1>9. request' \in {request, "recommendation_sent", "manual_attention", "researching"}
      /\ expiries' \in 0 .. ExpiryLimit
      /\ (request' = "researching" =>
            draft'.status = "invalidated" /\ expiries' < ExpiryLimit /\ mail' = "blocked")
      /\ (draft' = draft => expiries' = expiries)
      /\ mail' \in {"sent", "blocked"}
  <2>1. request # "researching"
    BY <1>5 DEF Researching
  <2>. QED BY <1>1, <1>2, <1>6, <2>1 DEF NoDraft
<1>10. AdviceTypeOK'
  BY <1>1, <1>2, <1>4, <1>8, <1>9 DEF AdviceTypeOK, World, ReadsOK, Stored1, Reads1
<1>11. Flow' /\ BestIsBest' /\ ~Unheard'
  BY <1>2, <1>3, <1>5, <1>6, <1>8, <1>9 DEF JourneyInv, Flow, Researching, BestIsBest, Unheard
<1>. QED BY <1>1, <1>2, <1>4, <1>7, <1>10, <1>11 DEF Kept, ReadsOK

\* Every step of the advice keeps the invariant.
LEMMA AdviceHolds ==
  ASSUME JourneyInv, AdviceStep
  PROVE  JourneyInv'
<1>1. AdviceNext /\ ~Unheard /\ UNCHANGED finding
  BY DEF AdviceStep, Unheard
<1>2. Kept'
  BY <1>1, StartHolds, AskHolds, CompareHolds, ReadsHold, WriteHolds, ApproveHolds, StaffHolds,
     OthersHold, DispatchHolds
  DEF AdviceNext, Research, Staff
<1>3. Enquiry'
  <2>1. enq'.stage = "idle" /\ ~Unheard'
    BY <1>1, <1>2 DEF JourneyInv, Enquiry, finding, Kept
  <2>. QED BY <2>1 DEF Enquiry
<1>. QED BY <1>1, <1>2, <1>3 DEF JourneyInv, Kept, finding

\* So does every step of settling the event.
LEMMA ResolutionHolds ==
  ASSUME JourneyInv, ResolutionStep
  PROVE  JourneyInv'
<1>1. /\ UNCHANGED <<case, clock, hands, stored, run, draft, mail, changes, expiries>>
      /\ R!RNext /\ scene \in Scenes /\ Enquiry /\ Flow
  BY DEF ResolutionStep, JourneyInv
<1>2. /\ scene' = scene
      /\ \/ request' = request /\ (enq'.stage # "idle" => enq.stage # "idle" \/ Unheard)
         \/ /\ enq.stage = "settle" /\ enq'.stage = "idle"
            /\ request' \in {"researching", "referred", "unsupported", "needs_clarification",
                             "manual_attention"}
  BY <1>1, ResolutionMoves
<1>3. Terms' = Terms
  BY <1>1 DEF Terms, World
<1>4. AdviceTypeOK'
  BY <1>1, <1>2 DEF JourneyInv, AdviceTypeOK, World
<1>5. /\ Origins' /\ BestIsBest' /\ DraftHolds'
  BY <1>1, <1>3 DEF JourneyInv, Origins, BestIsBest, DraftHolds, ReadOf, OnList, World, Made, From
<1>6. Enquiry' /\ Flow'
  <2>1. CASE request' = request
    BY <1>1, <1>2, <2>1 DEF Enquiry, Flow, Unheard, Researching
  <2>2. CASE enq.stage = "settle" /\ enq'.stage = "idle"
    <3>1. run = Idle /\ draft = NoDraft /\ expiries = 0 /\ mail = "none"
      BY <1>1, <2>2 DEF Enquiry
    <3>2. /\ run' = run /\ draft' = draft /\ expiries' = 0 /\ mail' = "none"
          /\ run.stage = "idle" /\ draft.status = "none" /\ 0 < ExpiryLimit
      BY <1>1, <3>1, AdviceAssumption DEF Idle, NoDraft
    <3>3. Flow'
      BY <3>2 DEF Flow, Researching
    <3>4. Enquiry'
      BY <1>1, <2>2, <3>1, <3>2 DEF Enquiry, Unheard
    <3>. QED BY <3>3, <3>4
  <2>. QED BY <1>2, <2>1, <2>2
<1>. QED BY <1>1, <1>2, <1>4, <1>5, <1>6 DEF JourneyInv

\* And a step that touches neither.
LEMMA StillHolds ==
  ASSUME JourneyInv, UNCHANGED <<advising, finding>>
  PROVE  JourneyInv'
<1>1. UNCHANGED <<case, clock, hands, stored, run, draft, request, mail, changes, expiries,
                  scene, enq>>
  BY DEF advising, finding
<1>. QED BY <1>1 DEF JourneyInv, AdviceTypeOK, Origins, BestIsBest, DraftHolds, Flow, Enquiry,
         ReadOf, OnList, World, Made, From, Terms, Researching, Unheard

\* The invariant of a journey holds throughout, its type correctness with it.
THEOREM JourneyInvHolds == JourneySpec => []JourneyInv
<1>1. JourneyInit => JourneyInv
  BY InitHolds
<1>2. JourneyInv /\ [JourneyNext]_allvars => JourneyInv'
  <2> SUFFICES ASSUME JourneyInv, [JourneyNext]_allvars PROVE JourneyInv'
    OBVIOUS
  <2>1. CASE AdviceStep
    BY <2>1, AdviceHolds
  <2>2. CASE ResolutionStep
    BY <2>2, ResolutionHolds
  <2>3. CASE ComparingStep \/ UNCHANGED allvars
    BY <2>3, StillHolds DEF ComparingStep, allvars
  <2>. QED BY <2>1, <2>2, <2>3 DEF JourneyNext
<1>. QED BY <1>1, <1>2, PTL DEF JourneySpec

\* So the advice's variables stay in their types.
THEOREM AdviceTypeCorrect == JourneySpec => []AdviceTypeOK
<1>1. JourneyInv => AdviceTypeOK
  BY DEF JourneyInv
<1>. QED BY <1>1, JourneyInvHolds, PTL

\* Whatever offers the sources list and whatever they ask, the pick an answer names a price
\* of is the group's own: it fits them, and no offer the research saw that fits them is one
\* they would rather have (recommend.ts, best; packet.ts, C_BEST).
THEOREM PickInvHolds == JourneySpec => []PickInv
<1>1. JourneyInv => PickInv
  <2> SUFFICES ASSUME JourneyInv, Made, Shows("C_BEST")
               PROVE  Suits(From.best) /\ \A o \in From.seen : Suits(o) => ~Rather(o, From.best)
    BY DEF PickInv, PickIsTheirs, JourneyInv
  <2>1. /\ Reads1(From.seen) /\ IsFiniteSet(From.seen) /\ From.best = Best(From.seen, Terms)
        /\ AllKept(From, draft.claims) /\ case \in Cases
    BY DEF JourneyInv, DraftHolds
  <2>2. Priced(From.best)
    BY <2>1 DEF Shows, AllKept, KeptIn
  <2>. QED BY <2>1, <2>2, BestIsTheirs
<1>. QED BY <1>1, JourneyInvHolds, PTL

\* A range an answer names is of other events like theirs, each once, and parts their prices
\* as a quarter at either end.
THEOREM RangeIsOfPastEventsHolds == JourneySpec => []RangeIsOfPastEvents
<1>1. JourneyInv => RangeIsOfPastEvents
  <2> SUFFICES ASSUME JourneyInv, Made, Shows("C_BENCH") PROVE RangeIsOfPastEvents
    BY DEF RangeIsOfPastEvents
  <2>1. AllKept(From, draft.claims) /\ PastRange(From.bench, World.target)
    BY DEF JourneyInv, DraftHolds, World
  <2>2. From.bench.adequacy \in {"limited", "sufficient"}
    BY <2>1 DEF Shows, AllKept, KeptIn
  <2>. QED BY <2>1, <2>2 DEF RangeIsOfPastEvents, PastRange
<1>. QED BY <1>1, JourneyInvHolds, PTL

-----------------------------------------------------------------------------
(* What is mailed.                                                         *)

\* Approval reads the rights of every read a trend claim rests on, as they are now
\* (trendClaimsStillAllowed).
LEMMA ApprovedTrendStep ==
  ASSUME JourneyInv, AdviceNext, draft'.status = "approved", draft.status # "approved"
  PROVE  \A c \in draft.claims : c.kind = "trend_change" /\ c.visible /\ c.evidence # {} =>
         \A d \in c.shows :
           /\ hands.rights[d].status = "approved"
           /\ {"advice", "customer_display"} \subseteq hands.rights[d].uses
           /\ hands.rights[d].derived # "over"
<1>1. DOMAIN draft = DOMAIN NoDraft
  BY TypedReads
<1>2. Approve
  <2>1. ~WriteDraft
    BY DEF WriteDraft
  <2>2. ~DispatchSend
    BY <1>1 DEF DispatchSend, Reresearch, NoDraft
  <2>3. draft' # draft
    OBVIOUS
  <2>. QED BY <2>1, <2>2, <2>3 DEF AdviceNext, Research, Staff, StartResearch, AskSource, Compare,
       ReadTrend, ReadMarket, AutoApprove, WorkerDies, AddManualOffer, ApproveRecommendation,
       RevalidateRecommendation, OthersAct, Tick
<1>3. draft.status = "pending" /\ TrendClaimsStillAllowed
  BY <1>1, <1>2, ApproveMoves DEF NoDraft
<1>4. AllKept(From, draft.claims)
  BY <1>3 DEF JourneyInv, DraftHolds, Made
<1> SUFFICES ASSUME NEW c \in draft.claims, c.kind = "trend_change", c.visible, c.evidence # {},
                    NEW d \in c.shows
             PROVE  /\ hands.rights[d].status = "approved"
                    /\ {"advice", "customer_display"} \subseteq hands.rights[d].uses
                    /\ hands.rights[d].derived # "over"
  OBVIOUS
<1> DEFINE used == draft.from.trend.used
           ids == UNION {e.evidence : e \in {x \in draft.claims :
                                               x.kind = "trend_change" /\ x.visible}}
           reads == {o \in used : o.at \in ids}
<1>5. /\ c.evidence = {o.at : o \in used} /\ c.shows \subseteq {o.dataset : o \in used}
  BY <1>4 DEF AllKept, KeptIn, From
<1>6. c.evidence \subseteq ids /\ ids # {}
  OBVIOUS
<1>7. Admitted(reads, hands.rights) = reads /\ DisplayAllowed(reads, hands.rights)
  BY <1>3, <1>6 DEF TrendClaimsStillAllowed
<1>8. PICK o \in used : o.dataset = d
  BY <1>5
<1> HIDE DEF used, ids
<1>9. o \in reads
  BY <1>5, <1>6
<1>. QED BY <1>7, <1>8, <1>9 DEF Admitted, DisplayAllowed, MayDerive

\* Only the dispatcher mails, and only what it found sendable.
LEMMA MailsIsSendable ==
  ASSUME AdviceNext, Mails, draft.status = "approved"
  PROVE  Sendable
<1>1. mail = "queued" /\ mail' = "sent"
  BY DEF Mails
<1>2. DispatchSend
  <2>1. ~WriteDraft
    BY <1>1 DEF WriteDraft
  <2>2. ~Approve
    BY <1>1 DEF Approve
  <2>. QED BY <1>1, <2>1, <2>2 DEF AdviceNext, Research, Staff, StartResearch, AskSource, Compare,
       ReadTrend, ReadMarket, AutoApprove, WorkerDies, AddManualOffer, ApproveRecommendation,
       RevalidateRecommendation, OthersAct, Tick
<1>. QED BY <1>1, <1>2 DEF DispatchSend

\* What is sendable says nothing that today's depth or a block of the event forbids.
LEMMA MailedAsAllowedStep ==
  ASSUME Sendable, World.mode = "enforce"
  PROVE  LET relied == OperationsForClaims({c.kind : c \in draft.claims})
         IN  /\ hands.blocked => relied \subseteq {"official_lookup"}
             /\ hands.overrides = <<>> =>
                  relied \subseteq OperationsByDepth(DepthFor(DepthRules[World.category],
                                                              World.format))
<1> DEFINE relied == OperationsForClaims({c.kind : c \in draft.claims})
           byFormat == DepthFor(DepthRules[World.category], World.format)
<1>1. relied \subseteq TodaysPolicy.allowed
  BY DEF Sendable, PolicyStillAllows, Gate
<1>2. "official_lookup" \notin relied
  <2>1. \A k : "official_lookup" \notin ClaimOperation(k)
    BY DEF ClaimOperation
  <2>. QED BY <2>1 DEF OperationsForClaims
<1>3. hands.blocked => TodaysPolicy.allowed \subseteq {"official_lookup"}
  BY DEF TodaysPolicy, ResolveServicePolicy
<1>4. hands.overrides = <<>> =>
        TodaysPolicy.allowed \subseteq {"official_lookup"} \cup OperationsByDepth(byFormat)
  BY DEF TodaysPolicy, ResolveServicePolicy
<1> HIDE DEF relied, byFormat
<1>5. hands.blocked => relied \subseteq {"official_lookup"}
  BY <1>1, <1>3
<1>6. hands.overrides = <<>> => relied \subseteq OperationsByDepth(byFormat)
  BY <1>1, <1>2, <1>4
<1>. QED BY <1>5, <1>6 DEF relied, byFormat

\* What is sendable is neither expired nor about an event off, and every price it names is
\* stored and as fresh as the event's start asks.
LEMMA MailedFreshStep ==
  ASSUME JourneyInv, Sendable
  PROVE  /\ hands.scheduled /\ clock - draft.made < DraftLife
         /\ Cardinality(Chosen) = Cardinality(draft.chosen)
         /\ \A o \in Chosen :
            clock - o.at <= IF (World.start - World.now) * 60 - clock < 24 * 60 THEN 5 ELSE 15
<1>1. clock \in Int /\ DraftLife \in Nat /\ draft.made \in Nat /\ stored \subseteq Offer
      /\ \A o, p \in stored : o.id = p.id => o = p
  BY TypedReads, AdviceAssumption DEF JourneyInv, AdviceTypeOK
<1>2. clock - draft.made < DraftLife /\ hands.scheduled
  BY <1>1 DEF Sendable, DraftExpired
<1>3. Made
  BY DEF Sendable, Made
<1>4. Cardinality(Chosen) = Cardinality(draft.chosen)
  <2> DEFINE f == [o \in Chosen |-> o.id]
  <2>1. IsFiniteSet(Chosen)
    <3>1. Chosen \in SUBSET stored
      BY DEF Chosen
    <3>. QED BY <3>1, FS_Subset DEF JourneyInv, Origins
  <2>2. \A i \in draft.chosen : \E o \in Chosen : o.id = i
    BY <1>3 DEF JourneyInv, DraftHolds, Chosen
  <2>3. \A o, p \in Chosen : o.id = p.id => o = p
    BY <1>1 DEF Chosen
  <2>4. f \in Bijection(Chosen, draft.chosen)
    BY <2>2, <2>3 DEF Bijection, Injection, Surjection, IsInjective, Chosen
  <2>5. ExistsBijection(Chosen, draft.chosen)
    BY <2>4 DEF ExistsBijection
  <2>. QED BY <2>1, <2>5, FS_Bijection
<1>5. ASSUME NEW o \in Chosen
      PROVE  clock - o.at <= IF (World.start - World.now) * 60 - clock < 24 * 60 THEN 5 ELSE 15
  <2>1. IsFresh(clock - o.at, (World.start - World.now) * 60 - clock)
    BY DEF Sendable, EvidenceFresh, Fresh
  <2>2. o.at \in Int
    BY <1>1 DEF Chosen, Offer
  <2>3. clock - o.at \in 0 .. FreshnessWindow((World.start - World.now) * 60 - clock)
    BY <2>1 DEF IsFresh
  <2>. QED BY <1>1, <2>2, <2>3 DEF FreshnessWindow
<1>. QED BY <1>2, <1>4, <1>5

\* Nothing is mailed on what has stopped being true: a draft is approved only with the rights
\* of its trend's reads as they are then, and what is sent says nothing today's depth forbids,
\* at prices no older than the event's start asks (approveRecommendation, dispatchSend).
THEOREM MailedStillHoldsHolds == JourneySpec => MailedStillHolds
<1>1. ASSUME JourneyInv, [JourneyNext]_allvars
      PROVE  AdviceNext \/ UNCHANGED <<draft, mail>>
  <2>1. CASE AdviceStep
    BY <2>1 DEF AdviceStep
  <2>2. CASE ResolutionStep
    BY <2>2 DEF ResolutionStep
  <2>3. CASE ComparingStep \/ UNCHANGED allvars
    BY <2>3 DEF ComparingStep, allvars, advising
  <2>. QED BY <1>1, <2>1, <2>2, <2>3 DEF JourneyNext
<1>2. JourneyInv /\ [JourneyNext]_allvars =>
        [draft'.status = "approved" /\ draft.status # "approved" =>
           \A c \in draft.claims : c.kind = "trend_change" /\ c.visible /\ c.evidence # {} =>
             \A d \in c.shows :
               /\ hands.rights[d].status = "approved"
               /\ {"advice", "customer_display"} \subseteq hands.rights[d].uses
               /\ hands.rights[d].derived # "over"]_advising
  BY <1>1, ApprovedTrendStep
<1>3. JourneyInv /\ [JourneyNext]_allvars =>
        [Mails /\ draft.status = "approved" /\ World.mode = "enforce" =>
           LET relied == OperationsForClaims({c.kind : c \in draft.claims})
           IN  /\ hands.blocked => relied \subseteq {"official_lookup"}
               /\ hands.overrides = <<>> =>
                    relied \subseteq OperationsByDepth(DepthFor(DepthRules[World.category],
                                                                World.format))]_advising
  BY <1>1, MailsIsSendable, MailedAsAllowedStep DEF Mails
<1>4. JourneyInv /\ [JourneyNext]_allvars =>
        [Mails /\ draft.status = "approved" =>
           /\ hands.scheduled /\ clock - draft.made < DraftLife
           /\ Cardinality(Chosen) = Cardinality(draft.chosen)
           /\ \A o \in Chosen :
                clock - o.at <= IF (World.start - World.now) * 60 - clock < 24 * 60
                                THEN 5 ELSE 15]_advising
  BY <1>1, MailsIsSendable, MailedFreshStep DEF Mails
<1>. QED BY <1>2, <1>3, <1>4, JourneyInvHolds, PTL
         DEF JourneySpec, MailedStillHolds, ApprovedTrendIsAllowed, MailedAsAllowedToday,
             MailedPricesAreFresh
=============================================================================
