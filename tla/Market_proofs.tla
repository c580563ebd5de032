----------------------------- MODULE Market_proofs -----------------------------
(***************************************************************************)
(* Proofs about module Market, for every number of customers' requests and *)
(* price watches beside the hourly pass, every allowance and every number  *)
(* of retries.                                                             *)
(***************************************************************************)
EXTENDS Market, FiniteSetTheorems, WellFoundedInduction, TLAPS

USE DEF pastVars, lossVars, goneVars

-----------------------------------------------------------------------------
(* The inductive invariant. *)

\* A client that is between two operations.
Resting ==
  {"idle", "enroll", "due", "route", "past", "games", "groups", "listings", "reading"}
\* It has no call then that no row counts.
Settled == \A w \in Worker : work[w].pc \in Resting => work[w].uncounted = 0

\* A reservation is a row ahead of its call.
Holds(c) == IF c.pc = "reading" THEN 1 ELSE 0

\* What a background worker called and what it may still call fit the share, but for what
\* clients took with them; each of its calls is in a row, in its own count or among those.
RoomInShare ==
  \A w \in Background :
    /\ work[w].uncounted + work[w].room <= Share
    /\ made[w] + work[w].room <= Share + lost["background"]
    /\ made[w] + Holds(work[w]) <= rows["background"] + work[w].uncounted + lost["background"]

\* A snapshot that is not passed over, and every one up to n.
Kept(s) == s \in held \cup purged \cup cutOff
Stored(n) == \A s \in 1 .. n : Kept(s)
\* What a poll found leaves no gap behind its last one that the cut did not make.
NoGap(c) == \A s \in 1 .. Max(c.got \cup {c.seen.last}) : s \in c.got \/ Kept(s)
SnapshotsAreKept ==
  /\ Stored(tracked.last)
  /\ \A w \in Worker :
       /\ Stored(work[w].seen.last)
       /\ work[w].pc \in {"store", "mark"} => NoGap(work[w])
       /\ work[w].pc = "mark" => work[w].got \subseteq held \cup purged

\* A game of a search that succeeded is read, was left out or is still to be read.
Listed(w) == IF work[w].pc = "games" THEN work[w].left ELSE {}
GamesAreListed ==
  \A w \in Worker :
    searches[w] = "success" => Past \subseteq history \cup leftOut \cup orphaned \cup Listed(w)

Accounts == CallsCountOnce /\ Settled
IInv == TypeOK /\ Accounts /\ RoomInShare /\ SnapshotsAreKept /\ GamesAreListed

-----------------------------------------------------------------------------
(* The calls that are in flight: what one client's step does to a lane's.  *)

Clientele(l) == {x \in Worker : Lane(x) = l}
Calls(f, S) == UNION {{x} \X (1 .. f[x].uncounted) : x \in S}

LEMMA LaneType == \A w : Lane(w) \in {"customer", "background"} /\ Lane(w) \in Lanes
  BY DEF Lane, Lanes

LEMMA InFlightIsOf ==
  ASSUME NEW l
  PROVE  /\ InFlight(l) = Cardinality(Calls(work, Clientele(l)))
         /\ InFlight(l)' = Cardinality(Calls(work', Clientele(l)))
  BY DEF InFlight, Calls, CallsOf, Clientele, Lane

LEMMA CallsOfOne ==
  ASSUME NEW x, NEW n \in Nat
  PROVE  /\ IsFiniteSet({x} \X (1 .. n))
         /\ Cardinality({x} \X (1 .. n)) = n
<1>1. IsFiniteSet({x}) /\ Cardinality({x}) = 1
  BY FS_Singleton
<1>2. IsFiniteSet(1 .. n) /\ Cardinality(1 .. n) = n
  BY FS_Interval
<1>3. /\ IsFiniteSet({x} \X (1 .. n))
      /\ Cardinality({x} \X (1 .. n)) = Cardinality({x}) * Cardinality(1 .. n)
  <2> DEFINE X == {x}
             N == 1 .. n
  <2>1. IsFiniteSet(X) /\ IsFiniteSet(N)
    BY <1>1, <1>2
  <2> HIDE DEF X, N
  <2>2. /\ IsFiniteSet(X \X N) /\ Cardinality(X \X N) = Cardinality(X) * Cardinality(N)
    BY <2>1, FS_Product
  <2> QED
    BY <2>2 DEF X, N
<1> QED
  BY <1>1, <1>2, <1>3

LEMMA CallsAreFinite ==
  ASSUME IsFiniteSet(Worker), NEW f \in [Worker -> Clients], NEW S \in SUBSET Worker
  PROVE  IsFiniteSet(Calls(f, S)) /\ Cardinality(Calls(f, S)) \in Nat
<1> DEFINE sets == {{x} \X (1 .. f[x].uncounted) : x \in S}
           g == [x \in S |-> {x} \X (1 .. f[x].uncounted)]
<1>1. IsFiniteSet(S)
  BY FS_Subset
<1>2. g \in Surjection(S, sets)
  BY DEF Surjection
<1>3. IsFiniteSet(sets)
  BY <1>1, <1>2, FS_Surjection
<1>4. \A T \in sets : IsFiniteSet(T)
  <2> SUFFICES ASSUME NEW x \in S PROVE IsFiniteSet({x} \X (1 .. f[x].uncounted))
    OBVIOUS
  <2>1. f[x].uncounted \in Nat
    BY DEF Clients
  <2> QED
    BY <2>1, CallsOfOne
<1>5. IsFiniteSet(UNION sets)
  BY <1>3, <1>4, FS_UNION
<1> QED
  BY <1>5, FS_CardinalityType DEF Calls

LEMMA CallsWithout ==
  ASSUME IsFiniteSet(Worker), NEW f \in [Worker -> Clients], NEW S \in SUBSET Worker,
         NEW w \in S
  PROVE  /\ Cardinality(Calls(f, S)) = Cardinality(Calls(f, S \ {w})) + f[w].uncounted
         /\ Cardinality(Calls(f, S \ {w})) \in Nat
<1> DEFINE rest == Calls(f, S \ {w})
           own == {w} \X (1 .. f[w].uncounted)
<1>1. f[w].uncounted \in Nat
  BY DEF Clients
<1>2. IsFiniteSet(own) /\ Cardinality(own) = f[w].uncounted
  BY <1>1, CallsOfOne
<1>3. IsFiniteSet(rest) /\ Cardinality(rest) \in Nat
  BY CallsAreFinite
<1>4. Calls(f, S) = rest \cup own
  BY DEF Calls
<1>5. rest \cap own = {}
  BY DEF Calls
<1>6. Cardinality(rest \cap own) = 0
  BY <1>5, FS_EmptySet
<1> HIDE DEF rest, own
<1>7. Cardinality(rest \cup own) = Cardinality(rest) + Cardinality(own) - Cardinality(rest \cap own)
  BY <1>2, <1>3, FS_Union
<1> QED
  BY <1>1, <1>2, <1>3, <1>4, <1>6, <1>7 DEF rest

\* A step of one worker leaves what the others read and called.
OnlyClient(w) ==
  work' \in [Worker -> Clients] /\ \A v \in Worker : v # w => work'[v] = work[v]

LEMMA InFlightStep ==
  ASSUME IsFiniteSet(Worker), work \in [Worker -> Clients], NEW w \in Worker, OnlyClient(w),
         NEW l \in Lanes
  PROVE  /\ InFlight(l) \in Nat /\ InFlight(l)' \in Nat
         /\ Lane(w) = l =>
              /\ work[w].uncounted <= InFlight(l)
              /\ InFlight(l)' = InFlight(l) - work[w].uncounted + work'[w].uncounted
         /\ Lane(w) # l => InFlight(l)' = InFlight(l)
<1> DEFINE S == Clientele(l)
<1>1. S \in SUBSET Worker /\ work' \in [Worker -> Clients]
  BY DEF Clientele, OnlyClient
<1>2. /\ InFlight(l) = Cardinality(Calls(work, S)) /\ InFlight(l)' = Cardinality(Calls(work', S))
  BY InFlightIsOf
<1>3. InFlight(l) \in Nat /\ InFlight(l)' \in Nat
  BY <1>1, <1>2, CallsAreFinite
<1>4. ASSUME Lane(w) # l PROVE InFlight(l)' = InFlight(l)
  <2>1. w \notin S
    BY <1>4 DEF Clientele
  <2>2. Calls(work', S) = Calls(work, S)
    BY <2>1, <1>1 DEF Calls, OnlyClient
  <2> QED
    BY <1>2, <2>2
<1>5. ASSUME Lane(w) = l
      PROVE  /\ work[w].uncounted <= InFlight(l)
             /\ InFlight(l)' = InFlight(l) - work[w].uncounted + work'[w].uncounted
  <2>1. w \in S
    BY <1>5 DEF Clientele
  <2>2. Calls(work', S \ {w}) = Calls(work, S \ {w})
    BY <1>1 DEF Calls, OnlyClient
  <2>3. /\ Cardinality(Calls(work, S)) = Cardinality(Calls(work, S \ {w})) + work[w].uncounted
        /\ Cardinality(Calls(work, S \ {w})) \in Nat
    BY <1>1, <2>1, CallsWithout
  <2>4. Cardinality(Calls(work', S)) = Cardinality(Calls(work', S \ {w})) + work'[w].uncounted
    BY <1>1, <2>1, CallsWithout
  <2>5. work[w].uncounted \in Nat /\ work'[w].uncounted \in Nat
    BY <1>1 DEF Clients
  <2> HIDE DEF S
  <2> QED
    BY <1>2, <2>2, <2>3, <2>4, <2>5
<1> QED
  BY <1>3, <1>4, <1>5

-----------------------------------------------------------------------------
(* The accounts of one worker's step. *)

\* Those whose reservation is a row, and whose call is still to be made.
Readers(f, l) == {x \in Worker : Lane(x) = l /\ f[x].pc = "reading"}

LEMMA ReservedIsOf ==
  ASSUME NEW l
  PROVE  /\ Reserved(l) = Cardinality(Readers(work, l))
         /\ Reserved(l)' = Cardinality(Readers(work', l))
  BY DEF Reserved, Readers, At, Lane

LEMMA ReadersAreFinite ==
  ASSUME IsFiniteSet(Worker), NEW f, NEW l
  PROVE  IsFiniteSet(Readers(f, l)) /\ Cardinality(Readers(f, l)) \in Nat
<1>1. Readers(f, l) \in SUBSET Worker
  BY DEF Readers
<1> QED
  BY <1>1, FS_Subset, FS_CardinalityType

LEMMA ReadersWithout ==
  ASSUME IsFiniteSet(Worker), NEW f, NEW w \in Worker, NEW l, Lane(w) = l
  PROVE  /\ Cardinality(Readers(f, l)) = Cardinality(Readers(f, l) \ {w}) + Holds(f[w])
         /\ Cardinality(Readers(f, l) \ {w}) \in Nat
<1> DEFINE R == Readers(f, l)
<1>1. IsFiniteSet(R) /\ Cardinality(R) \in Nat
  BY ReadersAreFinite
<1>2. w \in R <=> f[w].pc = "reading"
  BY DEF Readers
<1>3. /\ IsFiniteSet(R \ {w})
      /\ Cardinality(R \ {w}) = IF w \in R THEN Cardinality(R) - 1 ELSE Cardinality(R)
  BY <1>1, FS_RemoveElement
<1>4. Cardinality(R \ {w}) \in Nat
  BY <1>3, FS_CardinalityType
<1> HIDE DEF R
<1> QED
  BY <1>1, <1>2, <1>3, <1>4 DEF Holds, R

LEMMA ReservedStep ==
  ASSUME IsFiniteSet(Worker), NEW w \in Worker, OnlyClient(w), NEW l \in Lanes
  PROVE  /\ Reserved(l) \in Nat /\ Reserved(l)' \in Nat
         /\ Lane(w) = l =>
              /\ Holds(work[w]) <= Reserved(l)
              /\ Reserved(l)' + Holds(work[w]) = Reserved(l) + Holds(work'[w])
         /\ Lane(w) # l => Reserved(l)' = Reserved(l)
<1>1. /\ Reserved(l) = Cardinality(Readers(work, l)) /\ Reserved(l)' = Cardinality(Readers(work', l))
  BY ReservedIsOf
<1>2. Reserved(l) \in Nat /\ Reserved(l)' \in Nat
  BY <1>1, ReadersAreFinite
<1>3. ASSUME Lane(w) # l PROVE Reserved(l)' = Reserved(l)
  <2>1. Readers(work', l) = Readers(work, l)
    BY <1>3 DEF Readers, OnlyClient
  <2> QED
    BY <1>1, <2>1
<1>4. ASSUME Lane(w) = l
      PROVE  /\ Holds(work[w]) <= Reserved(l)
             /\ Reserved(l)' + Holds(work[w]) = Reserved(l) + Holds(work'[w])
  <2>1. Readers(work', l) \ {w} = Readers(work, l) \ {w}
    BY DEF Readers, OnlyClient
  <2>2. /\ Cardinality(Readers(work, l)) = Cardinality(Readers(work, l) \ {w}) + Holds(work[w])
        /\ Cardinality(Readers(work, l) \ {w}) \in Nat
    BY <1>4, ReadersWithout
  <2>3. Cardinality(Readers(work', l)) = Cardinality(Readers(work', l) \ {w}) + Holds(work'[w])
    BY <1>4, ReadersWithout
  <2>4. Holds(work[w]) \in Nat /\ Holds(work'[w]) \in Nat
    BY DEF Holds
  <2> QED
    BY <1>1, <2>1, <2>2, <2>3, <2>4
<1> QED
  BY <1>2, <1>3, <1>4

\* What a step of w must do to rows and calls for the accounts to stay right.
Balanced(w) ==
  /\ \A l \in Lanes \ {Lane(w)} :
       rows'[l] + lost'[l] + spent[l] + unused[l] = rows[l] + lost[l] + spent'[l] + unused'[l]
  /\ LET l == Lane(w) IN
       rows'[l] + work'[w].uncounted + lost'[l] + spent[l] + Holds(work[w]) + unused[l]
         = rows[l] + work[w].uncounted + lost[l] + spent'[l] + Holds(work'[w]) + unused'[l]
  /\ work'[w].pc \in Resting => work'[w].uncounted = 0

\* A balance of rows, calls in flight and lost against calls made, reserved and unused.
LEMMA BalanceMoves ==
  ASSUME NEW r \in Nat, NEW f \in Nat, NEW d \in Nat, NEW s \in Nat, NEW h \in Nat, NEW v \in Nat,
         NEW r1 \in Nat, NEW f1 \in Nat, NEW d1 \in Nat, NEW s1 \in Nat, NEW h1 \in Nat, NEW v1 \in Nat,
         NEW u \in Nat, NEW u1 \in Nat, NEW k \in Nat, NEW k1 \in Nat,
         r + f + d = s + h + v,
         f1 = f - u + u1, h1 + k = h + k1,
         r1 + u1 + d1 + s + k + v = r + u + d + s1 + k1 + v1
  PROVE  r1 + f1 + d1 = s1 + h1 + v1
  OBVIOUS

LEMMA AccountsStep ==
  ASSUME MarketAssumption, TypeOK, Accounts, NEW w \in Worker, OnlyClient(w), Balanced(w), TypeOK'
  PROVE  Accounts'
<1> USE DEF Accounts
<1>1. IsFiniteSet(Worker) /\ work \in [Worker -> Clients]
  BY DEF MarketAssumption, TypeOK
<1>2. Settled'
  BY DEF Settled, OnlyClient, Balanced
<1>3. Holds(work[w]) \in Nat /\ Holds(work'[w]) \in Nat
  BY DEF Holds
<1>4. work[w].uncounted \in Nat /\ work'[w].uncounted \in Nat
  BY <1>1 DEF OnlyClient, Clients
<1>5. ASSUME NEW l \in Lanes
      PROVE  rows'[l] + InFlight(l)' + lost'[l] = spent'[l] + Reserved(l)' + unused'[l]
  <2>1. /\ InFlight(l) \in Nat /\ InFlight(l)' \in Nat
        /\ Lane(w) = l => InFlight(l)' = InFlight(l) - work[w].uncounted + work'[w].uncounted
        /\ Lane(w) # l => InFlight(l)' = InFlight(l)
    BY <1>1, InFlightStep
  <2>2. /\ Reserved(l) \in Nat /\ Reserved(l)' \in Nat
        /\ Lane(w) = l => Reserved(l)' + Holds(work[w]) = Reserved(l) + Holds(work'[w])
        /\ Lane(w) # l => Reserved(l)' = Reserved(l)
    BY <1>1, ReservedStep
  <2>3. rows[l] + InFlight(l) + lost[l] = spent[l] + Reserved(l) + unused[l]
    BY DEF CallsCountOnce
  <2>4. /\ rows[l] \in Nat /\ spent[l] \in Nat /\ lost[l] \in Nat /\ unused[l] \in Nat
        /\ rows'[l] \in Nat /\ spent'[l] \in Nat /\ lost'[l] \in Nat /\ unused'[l] \in Nat
    BY DEF TypeOK
  <2>5. CASE Lane(w) = l
    <3>1. rows'[l] + work'[w].uncounted + lost'[l] + spent[l] + Holds(work[w]) + unused[l]
            = rows[l] + work[w].uncounted + lost[l] + spent'[l] + Holds(work'[w]) + unused'[l]
      BY <2>5 DEF Balanced
    <3>2. InFlight(l)' = InFlight(l) - work[w].uncounted + work'[w].uncounted
      BY <2>1, <2>5
    <3>3. Reserved(l)' + Holds(work[w]) = Reserved(l) + Holds(work'[w])
      BY <2>2, <2>5
    <3>4. InFlight(l) \in Nat /\ InFlight(l)' \in Nat /\ Reserved(l) \in Nat /\ Reserved(l)' \in Nat
      BY <2>1, <2>2
    <3> QED
      BY ONLY <2>3, <2>4, <3>1, <3>2, <3>3, <3>4, <1>3, <1>4, BalanceMoves
  <2>6. CASE Lane(w) # l
    <3>1. rows'[l] + lost'[l] + spent[l] + unused[l] = rows[l] + lost[l] + spent'[l] + unused'[l]
      BY <2>6 DEF Balanced
    <3>2. InFlight(l)' = InFlight(l) /\ Reserved(l)' = Reserved(l)
      BY <2>1, <2>2, <2>6
    <3>3. InFlight(l) \in Nat /\ Reserved(l) \in Nat
      BY <2>1, <2>2
    <3> QED
      BY ONLY <2>3, <2>4, <3>1, <3>2, <3>3
  <2> QED
    BY <2>5, <2>6
<1> QED
  BY <1>2, <1>5 DEF CallsCountOnce

-----------------------------------------------------------------------------
(* What the operations share: one client moves on. *)

LEMMA RestType ==
  ASSUME MarketAssumption
  PROVE  /\ Untracked \in Rows /\ Untracked.last = 0
         /\ \A label \in Labels : [AtRest EXCEPT !.pc = label] \in Clients
<1>1. Untracked \in Rows /\ Untracked.last = 0
  BY DEF MarketAssumption, Untracked, Rows, States, Live
<1> QED
  BY <1>1 DEF AtRest, Clients

LEMMA ClientWith ==
  ASSUME NEW c \in Clients, NEW label \in Labels
  PROVE  /\ \A r \in Rows : [c EXCEPT !.pc = label, !.seen = r] \in Clients
         /\ \A n \in Nat : [c EXCEPT !.pc = label, !.room = n] \in Clients
  BY DEF Clients

LEMMA GotoEffect ==
  ASSUME TypeOK, NEW w \in Worker, NEW label \in Labels, Goto(w, label)
  PROVE  /\ OnlyClient(w)
         /\ work'[w].pc = label /\ work'[w].seen = work[w].seen
         /\ work'[w].uncounted = work[w].uncounted /\ work'[w].room = work[w].room
         /\ work'[w].got = work[w].got /\ work'[w].left = work[w].left
  BY DEF Goto, TypeOK, OnlyClient, Clients

LEMMA LeaveEffect ==
  ASSUME MarketAssumption, TypeOK, NEW w \in Worker, NEW label \in Labels, Leave(w, label)
  PROVE  /\ OnlyClient(w)
         /\ work'[w].pc = label /\ work'[w].seen = Untracked
         /\ work'[w].uncounted = 0 /\ work'[w].room = 0
         /\ work'[w].got = {} /\ work'[w].left = {}
<1>1. [AtRest EXCEPT !.pc = label] \in Clients
  BY RestType
<1> QED
  BY <1>1 DEF Leave, TypeOK, OnlyClient, AtRest

\* What was called is the lane's, and a background worker's own.
Charged(w, lane, n) ==
  /\ spent' \in [Lanes -> Nat] /\ spent'[lane] = spent[lane] + n
  /\ \A l \in Lanes : l # lane => spent'[l] = spent[l]
  /\ made' \in [Background -> Nat]
  /\ lane = "background" => made'[w] = made[w] + n
  /\ lane # "background" => made' = made
  /\ \A v \in Background : v # w => made'[v] = made[v]

LEMMA SpendEffect ==
  ASSUME TypeOK, NEW w \in Worker, NEW lane \in {Lane(w), "history"}, NEW n \in Nat,
         Spend(w, lane, n)
  PROVE  Charged(w, lane, n)
<1>1. lane \in Lanes /\ (lane = "background" => w \in Background)
  BY DEF Lane, Lanes
<1>2. /\ spent' \in [Lanes -> Nat] /\ spent'[lane] = spent[lane] + n
      /\ \A l \in Lanes : l # lane => spent'[l] = spent[l]
  BY <1>1 DEF Spend, TypeOK
<1>3. /\ made' \in [Background -> Nat]
      /\ lane = "background" => made'[w] = made[w] + n
      /\ lane # "background" => made' = made
      /\ \A v \in Background : v # w => made'[v] = made[v]
  BY <1>1 DEF Spend, TypeOK
<1> QED
  BY <1>2, <1>3 DEF Charged

LEMMA AttemptEffect ==
  ASSUME MarketAssumption, TypeOK, NEW w \in Worker, NEW lane \in {Lane(w), "history"}, NEW n,
         NEW label \in Labels, Attempt(w, lane, n, label)
  PROVE  /\ OnlyClient(w) /\ n \in Nat /\ n <= work[w].room
         /\ work'[w].pc = label /\ work'[w].seen = work[w].seen
         /\ work'[w].uncounted = work[w].uncounted + n /\ work'[w].room = work[w].room - n
         /\ work'[w].got = work[w].got /\ work'[w].left = work[w].left
         /\ Charged(w, lane, n)
<1>1. work[w] \in Clients /\ work[w].room \in Nat /\ work[w].uncounted \in Nat
  BY DEF TypeOK, Clients
<1>2. n \in Nat /\ n <= work[w].room
  BY <1>1 DEF Attempt, AtMost, MarketAssumption
<1>3. Charged(w, lane, n)
  BY <1>2, SpendEffect DEF Attempt
<1>4. /\ work'[w] = [work[w] EXCEPT !.pc = label, !.room = @ - n, !.uncounted = @ + n]
      /\ \A v \in Worker : v # w => work'[v] = work[v]
      /\ work' = [work EXCEPT ![w] = work'[w]]
  BY DEF Attempt, TypeOK
<1>5. work'[w] \in Clients
  <2>1. work[w].room - n \in Nat /\ work[w].uncounted + n \in Nat
    BY <1>1, <1>2
  <2>2. work'[w] = [work[w] EXCEPT !.pc = label, !.room = work[w].room - n,
                                   !.uncounted = work[w].uncounted + n]
    BY <1>1, <1>4 DEF Clients
  <2> QED
    BY <1>1, <2>1, <2>2 DEF Clients
<1>6. OnlyClient(w)
  BY <1>4, <1>5 DEF OnlyClient, TypeOK
<1> QED
  BY <1>1, <1>2, <1>3, <1>4, <1>6 DEF Clients

LEMMA CountEffect ==
  ASSUME MarketAssumption, TypeOK, NEW w \in Worker, NEW lane \in Lanes, NEW label \in Labels,
         Count(w, lane, label)
  PROVE  /\ OnlyClient(w)
         /\ work'[w].pc = label /\ work'[w].seen \in {work[w].seen, Untracked}
         /\ work'[w].uncounted = 0 /\ work'[w].room = 0
         /\ work'[w].got = {} /\ work'[w].left = {}
         /\ rows' \in [Lanes -> Nat] /\ rows'[lane] = rows[lane] + work[w].uncounted
         /\ \A l \in Lanes : l # lane => rows'[l] = rows[l]
<1>1. work[w].uncounted \in Nat /\ work[w].seen \in Rows /\ Untracked \in Rows
  BY RestType DEF TypeOK, Clients
<1>2. /\ rows' \in [Lanes -> Nat] /\ rows'[lane] = rows[lane] + work[w].uncounted
      /\ \A l \in Lanes : l # lane => rows'[l] = rows[l]
  BY <1>1 DEF Count, TypeOK
<1> DEFINE seen == IF label = "poll" THEN work[w].seen ELSE Untracked
<1>3. /\ work'[w] = [pc |-> label, seen |-> seen, uncounted |-> 0, room |-> 0, got |-> {}, left |-> {}]
      /\ work' = [work EXCEPT ![w] = work'[w]]
  BY DEF Count, TypeOK, AtRest
<1>4. seen \in Rows /\ seen \in {work[w].seen, Untracked}
  BY <1>1
<1> HIDE DEF seen
<1>5. work'[w] \in Clients
  BY <1>3, <1>4 DEF Clients
<1>6. OnlyClient(w)
  BY <1>3, <1>5 DEF OnlyClient, TypeOK
<1> QED
  BY <1>2, <1>3, <1>4, <1>6

\* A label after which the pass goes on, and a request reads the listings.
LEMMA AfterType ==
  ASSUME NEW w, NEW label
  PROVE  /\ After(w, label) \in {label, "listings"}
         /\ w \in Background => After(w, label) = label
  BY DEF After

-----------------------------------------------------------------------------
(* What a step of one worker must keep, beside the accounts. *)

KeepsShare(w) ==
  /\ rows'["background"] >= rows["background"] /\ lost'["background"] >= lost["background"]
  /\ \A v \in Background : v # w => made'[v] = made[v]
  /\ w \in Background =>
       /\ work'[w].uncounted + work'[w].room <= Share
       /\ made'[w] + work'[w].room <= Share + lost'["background"]
       /\ made'[w] + Holds(work'[w])
            <= rows'["background"] + work'[w].uncounted + lost'["background"]

LEMMA ShareStep ==
  ASSUME MarketAssumption, TypeOK, RoomInShare, NEW w \in Worker, OnlyClient(w), KeepsShare(w),
         TypeOK'
  PROVE  RoomInShare'
<1>1. /\ rows["background"] \in Nat /\ rows'["background"] \in Nat
      /\ lost["background"] \in Nat /\ lost'["background"] \in Nat /\ Share \in Nat
  BY DEF Lanes, TypeOK, MarketAssumption
<1> SUFFICES ASSUME NEW v \in Background, v # w
             PROVE  /\ work'[v].uncounted + work'[v].room <= Share
                    /\ made'[v] + work'[v].room <= Share + lost'["background"]
                    /\ made'[v] + Holds(work'[v])
                         <= rows'["background"] + work'[v].uncounted + lost'["background"]
  BY DEF RoomInShare, KeepsShare
<1>2. v \in Worker /\ work'[v] = work[v] /\ made'[v] = made[v]
  BY DEF MarketAssumption, OnlyClient, KeepsShare
<1>3. /\ work[v].uncounted \in Nat /\ work[v].room \in Nat /\ made[v] \in Nat
      /\ Holds(work[v]) \in Nat
  BY <1>2 DEF TypeOK, Clients, Holds
<1>4. /\ work[v].uncounted + work[v].room <= Share
      /\ made[v] + work[v].room <= Share + lost["background"]
      /\ made[v] + Holds(work[v])
           <= rows["background"] + work[v].uncounted + lost["background"]
  BY DEF RoomInShare
<1>5. rows'["background"] >= rows["background"] /\ lost'["background"] >= lost["background"]
  BY DEF KeepsShare
<1> QED
  BY <1>1, <1>2, <1>3, <1>4, <1>5

KeepsSnapshots(w) ==
  /\ held \cup purged \subseteq held' \cup purged' /\ cutOff \subseteq cutOff'
  /\ Stored(tracked.last)' /\ Stored(work[w].seen.last)'
  /\ work'[w].pc \in {"store", "mark"} => NoGap(work[w])'
  /\ work'[w].pc = "mark" => work'[w].got \subseteq held' \cup purged'

LEMMA SnapshotStep ==
  ASSUME SnapshotsAreKept, NEW w \in Worker, OnlyClient(w), KeepsSnapshots(w)
  PROVE  SnapshotsAreKept'
<1>1. \A s : Kept(s) => Kept(s)'
  BY DEF Kept, KeepsSnapshots
<1> SUFFICES ASSUME NEW v \in Worker
             PROVE  /\ Stored(work[v].seen.last)'
                    /\ work'[v].pc \in {"store", "mark"} => NoGap(work[v])'
                    /\ work'[v].pc = "mark" => work'[v].got \subseteq held' \cup purged'
  BY DEF SnapshotsAreKept, KeepsSnapshots
<1>2. CASE v = w
  BY <1>2 DEF KeepsSnapshots
<1>3. CASE v # w
  <2>1. work'[v] = work[v]
    BY <1>3 DEF OnlyClient
  <2>2. Stored(work[v].seen.last)'
    BY <1>1, <2>1 DEF Stored, SnapshotsAreKept
  <2>3. work'[v].pc \in {"store", "mark"} => NoGap(work[v])'
    BY <1>1, <2>1 DEF NoGap, SnapshotsAreKept
  <2> QED
    BY <2>1, <2>2, <2>3 DEF KeepsSnapshots, SnapshotsAreKept
<1> QED
  BY <1>2, <1>3

\* A step that leaves what was found alone, or what was found behind.
LEMMA SnapshotsAsTheyWere ==
  ASSUME TypeOK, SnapshotsAreKept, NEW w \in Worker, Stored(tracked'.last),
         UNCHANGED <<held, purged>>, cutOff \subseteq cutOff',
         work'[w].seen \in {work[w].seen, tracked, Untracked},
         work'[w].pc \notin {"store", "mark"}
  PROVE  KeepsSnapshots(w)
<1>1. Untracked.last = 0
  BY DEF Untracked
<1>2. Stored(0)
  BY DEF Stored
<1>3. Stored(work'[w].seen.last)
  BY <1>1, <1>2 DEF SnapshotsAreKept
<1>4. Stored(tracked.last)' /\ Stored(work[w].seen.last)'
  BY <1>3 DEF Stored, Kept
<1> QED
  BY <1>4 DEF KeepsSnapshots

KeepsGames(w) ==
  /\ history \cup leftOut \cup orphaned \subseteq history' \cup leftOut' \cup orphaned'
  /\ \A v \in Worker : v # w => searches'[v] = searches[v]
  /\ searches'[w] = "success" =>
       \A g \in Past :
         \/ g \in history' \cup leftOut' \cup orphaned'
         \/ (work'[w].pc = "games" /\ g \in work'[w].left)

LEMMA GamesStep ==
  ASSUME GamesAreListed, NEW w \in Worker, OnlyClient(w), KeepsGames(w)
  PROVE  GamesAreListed'
<1> SUFFICES ASSUME NEW v \in Worker, searches'[v] = "success", NEW g \in Past
             PROVE  g \in history' \cup leftOut' \cup orphaned' \cup Listed(v)'
  BY DEF GamesAreListed
<1>1. CASE v = w
  BY <1>1 DEF KeepsGames, Listed
<1>2. CASE v # w
  <2>1. work'[v] = work[v] /\ searches'[v] = searches[v]
    BY <1>2 DEF OnlyClient, KeepsGames
  <2> QED
    BY <2>1 DEF KeepsGames, GamesAreListed, Listed
<1> QED
  BY <1>1, <1>2

\* All a step of one worker has to show.
WorkerStep(w) ==
  OnlyClient(w) /\ Balanced(w) /\ KeepsShare(w) /\ KeepsSnapshots(w) /\ KeepsGames(w)

LEMMA InvStep ==
  ASSUME MarketAssumption, IInv, NEW w \in Worker, TypeOK', WorkerStep(w)
  PROVE  IInv'
  BY AccountsStep, ShareStep, SnapshotStep, GamesStep DEF IInv, WorkerStep

-----------------------------------------------------------------------------
(* The operations. *)

\* What is known of the worker that acts.
LEMMA InHand ==
  ASSUME MarketAssumption, IInv, NEW w \in Worker
  PROVE  /\ work[w].pc \in Labels /\ work[w].seen \in Rows
         /\ work[w].uncounted \in Nat /\ work[w].room \in Nat
         /\ work[w].got \subseteq 1 .. MaxSnapshots /\ work[w].left \subseteq Past
         /\ work[w].pc \in Resting => work[w].uncounted = 0
         /\ Lane(w) \in Lanes /\ Lane(w) \in {"customer", "background"}
         /\ w \in Background <=> Lane(w) = "background"
         /\ w \in Background => made[w] \in Nat
         /\ \A l \in Lanes :
              rows[l] \in Nat /\ spent[l] \in Nat /\ lost[l] \in Nat /\ unused[l] \in Nat
         /\ Holds(work[w]) \in Nat
         /\ "background" \in Lanes /\ "history" \in Lanes /\ Share \in Nat
<1>1. TypeOK /\ Settled /\ work[w] \in Clients
  BY DEF IInv, Accounts, TypeOK
<1>2. Lane(w) \in Lanes /\ Lane(w) \in {"customer", "background"} /\ (w \in Background <=> Lane(w) = "background")
  BY DEF Lane, Lanes
<1>3. w \in Background => made[w] \in Nat
  BY <1>1 DEF TypeOK
<1>4. \A l \in Lanes :
        rows[l] \in Nat /\ spent[l] \in Nat /\ lost[l] \in Nat /\ unused[l] \in Nat
  BY <1>1 DEF TypeOK
<1>5. "background" \in Lanes /\ "history" \in Lanes /\ Share \in Nat /\ Holds(work[w]) \in Nat
  BY DEF Lanes, MarketAssumption, Holds
<1>6. work[w].pc \in Resting => work[w].uncounted = 0
  BY <1>1 DEF Settled
<1> QED
  BY <1>1, <1>2, <1>3, <1>4, <1>5, <1>6 DEF Clients

\* A step that only moves a client on, with no more uncounted and no more room than before.
LEMMA Quietly ==
  ASSUME MarketAssumption, IInv, NEW w \in Worker, OnlyClient(w),
         UNCHANGED <<held, history, searches, rows, pastVars>>,
         tracked' \in Rows, tracked'.last = tracked.last, world' = world,
         Holds(work[w]) = 0, Holds(work'[w]) = 0,
         work'[w].uncounted = work[w].uncounted, work'[w].room <= work[w].room,
         work'[w].pc \in Resting => work'[w].uncounted = 0,
         work'[w].seen \in {work[w].seen, tracked, Untracked},
         work'[w].pc \notin {"store", "mark"}, work[w].pc # "games"
  PROVE  TypeOK' /\ WorkerStep(w)
<1>1. TypeOK'
  BY DEF IInv, TypeOK, OnlyClient
<1>2. Balanced(w)
  BY InHand DEF Balanced
<1>3. KeepsShare(w)
  <2>1. work'[w].room \in Nat
    BY DEF OnlyClient, Clients
  <2> QED
    BY <2>1, InHand DEF KeepsShare, IInv, RoomInShare
<1>4. KeepsSnapshots(w)
  BY SnapshotsAsTheyWere DEF IInv, SnapshotsAreKept
<1>5. KeepsGames(w)
  BY DEF KeepsGames, IInv, GamesAreListed, Listed
<1> QED
  BY <1>1, <1>2, <1>3, <1>4, <1>5 DEF WorkerStep

LEMMA BeginStep ==
  ASSUME MarketAssumption, IInv, NEW w \in Worker, Begin(w)
  PROVE  TypeOK' /\ WorkerStep(w)
<1>1. TypeOK /\ tracked \in Rows
  BY DEF IInv, TypeOK
<1> DEFINE label == IF w \in Watch THEN "listings" ELSE "enroll"
<1>2. Goto(w, label) /\ work[w].pc = "idle" /\ label \in Labels /\ label \in {"enroll", "listings"}
  BY DEF Begin, At, Labels
<1> HIDE DEF label
<1>3. OnlyClient(w) /\ work'[w].pc = label /\ work'[w].seen = work[w].seen
      /\ work'[w].uncounted = work[w].uncounted /\ work'[w].room = work[w].room
  BY <1>1, <1>2, GotoEffect
<1> QED
  BY <1>1, <1>2, <1>3, Quietly, InHand DEF Begin, Holds, Resting

LEMMA EnrollStep ==
  ASSUME MarketAssumption, IInv, NEW w \in Worker, Enroll(w)
  PROVE  TypeOK' /\ WorkerStep(w)
<1>1. TypeOK /\ tracked \in Rows
  BY DEF IInv, TypeOK
<1> DEFINE label == IF world.open THEN "due" ELSE After(w, "due")
<1>2. /\ Goto(w, label) /\ work[w].pc = "enroll"
      /\ label \in Labels /\ label \in {"due", "listings"}
  BY AfterType DEF Enroll, At, Labels
<1> HIDE DEF label
<1>3. OnlyClient(w) /\ work'[w].pc = label /\ work'[w].seen = work[w].seen
      /\ work'[w].uncounted = work[w].uncounted /\ work'[w].room = work[w].room
  BY <1>1, <1>2, GotoEffect
<1>4. tracked' \in Rows /\ tracked'.last = tracked.last
  BY <1>1 DEF Enroll, Rows, States, Live
<1> QED
  BY <1>1, <1>2, <1>3, <1>4, Quietly, InHand DEF Enroll, Holds, Resting

\* What a client may call fits the lane's part of the day.
LEMMA RoomBound ==
  ASSUME MarketAssumption, IInv, NEW w \in Worker, NEW lane \in Lanes
  PROVE  /\ CallsLeft(lane) \in Nat /\ Room(w, lane) \in Nat
         /\ lane = "background" =>
              \/ Room(w, lane) = 0
              \/ rows["background"] + work[w].uncounted + Room(w, lane) <= Share
<1>1. \A l \in Lanes : rows[l] \in Nat
  BY InHand
<1>2. /\ work[w].uncounted \in Nat /\ Limit \in Nat /\ Share \in Nat /\ HistoryLimit \in Nat
      /\ rows["background"] \in Nat /\ rows["customer"] \in Nat /\ rows["history"] \in Nat
  BY <1>1, InHand DEF MarketAssumption, Lanes
<1>3. CallsLeft(lane) \in Nat /\ (lane = "background" => CallsLeft(lane) <= Minus(Share, rows["background"]))
  BY <1>2 DEF CallsLeft, Minus, AtMost, Lanes
<1> QED
  BY <1>2, <1>3 DEF Room, Minus

\* A background worker that may call n more, of what its rows leave of the share.
LEMMA FreshRoom ==
  ASSUME MarketAssumption, IInv, NEW w \in Background, NEW n \in Nat,
         n = 0 \/ rows["background"] + work[w].uncounted + n <= Share
  PROVE  /\ work[w].uncounted + n <= Share
         /\ made[w] + n <= Share + lost["background"]
<1>1. w \in Worker
  BY DEF MarketAssumption
<1>2. /\ rows["background"] \in Nat /\ lost["background"] \in Nat /\ Share \in Nat
      /\ work[w].uncounted \in Nat /\ work[w].room \in Nat /\ made[w] \in Nat
      /\ Holds(work[w]) \in Nat
  BY <1>1, InHand
<1>3. /\ work[w].uncounted + work[w].room <= Share
      /\ made[w] + work[w].room <= Share + lost["background"]
      /\ made[w] + Holds(work[w]) <= rows["background"] + work[w].uncounted + lost["background"]
  BY DEF IInv, RoomInShare
<1> QED
  BY <1>2, <1>3

\* api: the client may call what is left of the day now.
LEMMA OpenStep ==
  ASSUME MarketAssumption, IInv, NEW w \in Worker, NEW label \in {"poll", "match", "prompt", "groups"},
         work' = [work EXCEPT ![w].pc = label, ![w].room = Room(w, Lane(w))],
         work[w].pc \notin {"reading", "games", "listings", "finish"},
         label = "groups" => work[w].uncounted = 0,
         UNCHANGED <<tracked, held, history, searches, rows, world, pastVars>>
  PROVE  TypeOK' /\ WorkerStep(w)
<1>1. TypeOK
  BY DEF IInv
<1>2. /\ work'[w] = [work[w] EXCEPT !.pc = label, !.room = Room(w, Lane(w))]
      /\ \A v \in Worker : v # w => work'[v] = work[v]
      /\ work' = [work EXCEPT ![w] = work'[w]]
  BY <1>1 DEF TypeOK
<1>3. Room(w, Lane(w)) \in Nat
  BY InHand, RoomBound
<1>4. work'[w] \in Clients
  <2>1. work[w] \in Clients /\ label \in Labels
    BY <1>1 DEF TypeOK, Labels
  <2>2. [work[w] EXCEPT !.pc = label, !.room = Room(w, Lane(w))] \in Clients
    BY <1>3, <2>1, ClientWith
  <2> QED
    BY <1>2, <2>2
<1>5. OnlyClient(w)
  BY <1>1, <1>2, <1>4 DEF OnlyClient, TypeOK
<1>6. /\ work'[w].pc = label /\ work'[w].seen = work[w].seen
      /\ work'[w].uncounted = work[w].uncounted /\ work'[w].room = Room(w, Lane(w))
  BY <1>1, <1>2 DEF TypeOK, Clients
<1>7. TypeOK'
  BY <1>1, <1>5 DEF TypeOK, OnlyClient
<1>8. Balanced(w)
  BY <1>6, InHand DEF Balanced, Holds, Resting
<1>9. KeepsShare(w)
  <2>1. Holds(work[w]) = 0 /\ Holds(work'[w]) = 0
    BY <1>6 DEF Holds
  <2>2. ASSUME w \in Background
        PROVE  /\ work[w].uncounted + Room(w, Lane(w)) <= Share
               /\ made[w] + Room(w, Lane(w)) <= Share + lost["background"]
    BY <1>3, <2>2, InHand, RoomBound, FreshRoom
  <2> QED
    BY <1>6, <2>1, <2>2, InHand DEF KeepsShare, IInv, RoomInShare
<1>10. KeepsSnapshots(w)
  BY <1>1, <1>6, SnapshotsAsTheyWere DEF IInv, SnapshotsAreKept
<1>11. KeepsGames(w)
  BY DEF KeepsGames, IInv, GamesAreListed, Listed
<1> QED
  BY <1>5, <1>7, <1>8, <1>9, <1>10, <1>11 DEF WorkerStep

LEMMA ReadRowStep ==
  ASSUME MarketAssumption, IInv, NEW w \in Worker, ReadRow(w)
  PROVE  TypeOK' /\ WorkerStep(w)
<1>1. TypeOK /\ tracked \in Rows /\ work[w].pc = "due"
  BY DEF IInv, TypeOK, ReadRow, At
<1>2. CASE Leave(w, After(w, "past"))
  <2> DEFINE label == After(w, "past")
  <2>1. label \in Labels /\ label \in {"past", "listings"}
    BY AfterType DEF Labels
  <2> HIDE DEF label
  <2>2. /\ OnlyClient(w) /\ work'[w].pc = label /\ work'[w].seen = Untracked
        /\ work'[w].uncounted = 0 /\ work'[w].room = 0
    BY <1>1, <1>2, <2>1, LeaveEffect DEF label
  <2> QED
    BY <1>1, <2>1, <2>2, Quietly, InHand DEF ReadRow, Holds, Resting
<1>3. CASE work' = [work EXCEPT ![w].pc = "route", ![w].seen = tracked]
  <2>1. /\ work'[w] = [work[w] EXCEPT !.pc = "route", !.seen = tracked]
        /\ \A v \in Worker : v # w => work'[v] = work[v]
        /\ work' = [work EXCEPT ![w] = work'[w]]
    BY <1>1, <1>3 DEF TypeOK
  <2>2. work'[w] \in Clients
    <3>1. work[w] \in Clients /\ "route" \in Labels
      BY <1>1 DEF TypeOK, Labels
    <3>2. [work[w] EXCEPT !.pc = "route", !.seen = tracked] \in Clients
      BY <1>1, <3>1, ClientWith
    <3> QED
      BY <2>1, <3>2
  <2>3. OnlyClient(w)
    BY <1>1, <2>1, <2>2 DEF OnlyClient, TypeOK
  <2>4. /\ work'[w].pc = "route" /\ work'[w].seen = tracked
        /\ work'[w].uncounted = work[w].uncounted /\ work'[w].room = work[w].room
    BY <1>1, <2>1 DEF TypeOK, Clients
  <2> QED
    BY <1>1, <2>3, <2>4, Quietly, InHand DEF ReadRow, Holds, Resting
<1>4. CASE work' = [work EXCEPT ![w].pc = "groups", ![w].room = Room(w, Lane(w))]
  <2>1. work[w].uncounted = 0
    BY <1>1, InHand DEF Resting
  <2> QED
    BY <1>1, <1>4, <2>1, OpenStep DEF ReadRow
<1> QED
  BY <1>2, <1>3, <1>4 DEF ReadRow

LEMMA RouteStep ==
  ASSUME MarketAssumption, IInv, NEW w \in Worker, Route(w)
  PROVE  TypeOK' /\ WorkerStep(w)
<1>1. TypeOK /\ tracked \in Rows /\ work[w].pc = "route" /\ work[w].uncounted = 0
  BY InHand DEF IInv, TypeOK, Route, At, Resting
<1>2. ASSUME NEW label \in {"past", "listings"},
             Leave(w, label), tracked' \in Rows, tracked'.last = tracked.last
      PROVE  TypeOK' /\ WorkerStep(w)
  <2>1. /\ OnlyClient(w) /\ work'[w].pc = label /\ work'[w].seen = Untracked
        /\ work'[w].uncounted = 0 /\ work'[w].room = 0
    BY <1>1, <1>2, LeaveEffect DEF Labels
  <2> QED
    BY <1>1, <1>2, <2>1, Quietly, InHand DEF Route, Holds, Resting
<1>3. CASE w \in Background /\ ~world.open /\ tracked' = [tracked EXCEPT !.state = "paused"] /\ Leave(w, "past")
  <2>1. tracked' \in Rows /\ tracked'.last = tracked.last
    BY <1>1, <1>3 DEF Rows, States, Live
  <2> QED
    BY <1>2, <1>3, <2>1
<1>4. CASE /\ tracked' = IF w \in Background THEN [tracked EXCEPT !.state = "ended"] ELSE tracked
           /\ Leave(w, After(w, "past"))
  <2>1. tracked' \in Rows /\ tracked'.last = tracked.last
    BY <1>1, <1>4 DEF Rows, States, Live
  <2> QED
    BY <1>2, <1>4, <2>1, AfterType
<1>5. CASE work' = [work EXCEPT
               ![w].pc = IF work[w].seen.state = "active" /\ work[w].seen.id THEN "poll" ELSE "match",
               ![w].room = Room(w, Lane(w))] /\ UNCHANGED tracked
  BY <1>1, <1>5, OpenStep DEF Route
<1> QED
  BY <1>3, <1>4, <1>5 DEF Route

\* One request of the client, answered or not.
LEMMA CallStep ==
  ASSUME MarketAssumption, IInv, NEW w \in Worker, NEW n, NEW label \in {"found", "ask", "threw"},
         Attempt(w, Lane(w), n, label), work[w].pc \notin {"reading", "games", "listings", "finish"},
         UNCHANGED <<tracked, held, history, searches, rows, world, lossVars, goneVars, acts>>
  PROVE  TypeOK' /\ WorkerStep(w)
<1>1. TypeOK /\ Lane(w) \in Lanes /\ label \in Labels
  BY LaneType DEF IInv, Labels
<1>2. /\ OnlyClient(w) /\ n \in Nat /\ n <= work[w].room
      /\ work'[w].pc = label /\ work'[w].seen = work[w].seen
      /\ work'[w].uncounted = work[w].uncounted + n /\ work'[w].room = work[w].room - n
      /\ Charged(w, Lane(w), n)
  BY <1>1, AttemptEffect
<1>3. TypeOK'
  BY <1>1, <1>2 DEF TypeOK, OnlyClient, Charged
<1>4. Balanced(w)
  BY <1>2, InHand DEF Balanced, Holds, Resting, Charged
<1>5. KeepsShare(w)
  <2>1. Holds(work[w]) = 0 /\ Holds(work'[w]) = 0
    BY <1>2 DEF Holds
  <2> QED
    BY <1>2, <2>1, InHand DEF KeepsShare, IInv, RoomInShare, Charged
<1>6. KeepsSnapshots(w)
  BY <1>1, <1>2, SnapshotsAsTheyWere DEF IInv, SnapshotsAreKept
<1>7. KeepsGames(w)
  BY DEF KeepsGames, IInv, GamesAreListed, Listed
<1> QED
  BY <1>2, <1>3, <1>4, <1>5, <1>6, <1>7 DEF WorkerStep

\* log: what the operation called is written to its row.
LEMMA CountStep ==
  ASSUME MarketAssumption, IInv, NEW w \in Worker,
         NEW label \in {"idle", "past", "poll", "listings"},
         Count(w, Lane(w), label), work[w].pc \notin {"reading", "games"},
         tracked' \in Rows, Stored(tracked'.last),
         UNCHANGED <<held, history, searches, world, pastVars>>
  PROVE  TypeOK' /\ WorkerStep(w)
<1>1. TypeOK /\ Lane(w) \in Lanes /\ label \in Labels
  BY LaneType DEF IInv, Labels
<1>2. /\ OnlyClient(w)
      /\ work'[w].pc = label /\ work'[w].seen \in {work[w].seen, Untracked}
      /\ work'[w].uncounted = 0 /\ work'[w].room = 0
      /\ rows' \in [Lanes -> Nat] /\ rows'[Lane(w)] = rows[Lane(w)] + work[w].uncounted
      /\ \A l \in Lanes : l # Lane(w) => rows'[l] = rows[l]
  BY <1>1, CountEffect
<1>3. TypeOK'
  BY <1>1, <1>2 DEF TypeOK, OnlyClient
<1>4. Balanced(w)
  BY <1>2, InHand DEF Balanced, Holds, Resting
<1>5. KeepsShare(w)
  <2>1. Holds(work[w]) = 0 /\ Holds(work'[w]) = 0
    BY <1>2 DEF Holds
  <2> QED
    BY <1>2, <2>1, InHand DEF KeepsShare, IInv, RoomInShare
<1>6. KeepsSnapshots(w)
  BY <1>1, <1>2, SnapshotsAsTheyWere DEF IInv
<1>7. KeepsGames(w)
  BY DEF KeepsGames, IInv, GamesAreListed, Listed
<1> QED
  BY <1>2, <1>3, <1>4, <1>5, <1>6, <1>7 DEF WorkerStep

LEMMA SearchStep ==
  ASSUME MarketAssumption, IInv, NEW w \in Worker, Search(w)
  PROVE  TypeOK' /\ WorkerStep(w)
<1>1. work[w].pc = "match"
  BY DEF Search, At
<1>2. PICK label \in {"found", "ask", "threw"} : \E n : Attempt(w, Lane(w), n, label)
  BY DEF Search, Answered, Refused
<1> QED
  BY <1>1, <1>2, CallStep DEF Search

LEMMA FoundStep ==
  ASSUME MarketAssumption, IInv, NEW w \in Worker, Found(w)
  PROVE  TypeOK' /\ WorkerStep(w)
<1>1. tracked \in Rows /\ AtMost(work[w].seen.tries + 1, MaxMatches) \in 0 .. MaxMatches
  BY InHand DEF IInv, TypeOK, AtMost, MarketAssumption, Rows
<1>2. tracked' \in Rows /\ tracked'.last = tracked.last
  BY <1>1 DEF Found, Rows, States, Live
<1> QED
  BY <1>2, CountStep DEF Found, At, IInv, SnapshotsAreKept

LEMMA NotFoundStep ==
  ASSUME MarketAssumption, IInv, NEW w \in Worker, NotFound(w)
  PROVE  TypeOK' /\ WorkerStep(w)
<1>1. TypeOK /\ tracked \in Rows /\ work[w].pc = "ask"
  BY DEF IInv, TypeOK, NotFound, At
<1> DEFINE tries == AtMost(work[w].seen.tries + 1, MaxMatches)
           label == After(w, "past")
<1>2. tries \in 0 .. MaxMatches
  BY InHand DEF AtMost, MarketAssumption, Rows
<1>3. label \in {"past", "listings"} /\ label \in Labels
  BY AfterType DEF Labels
<1> HIDE DEF tries, label
<1>4. CASE /\ work[w].seen.tries = 0 /\ work[w].room > 0
           /\ tracked' = [tracked EXCEPT !.state = "requested", !.tries = tries, !.due = FALSE]
           /\ rows' = [rows EXCEPT ![Lane(w)] = @ + work[w].uncounted + 1]
           /\ Spend(w, Lane(w), 1)
           /\ Leave(w, label)
           /\ UNCHANGED <<held, history, searches, world, lossVars, goneVars, acts>>
  <2>1. tracked' \in Rows /\ tracked'.last = tracked.last
    BY <1>1, <1>2, <1>4 DEF Rows, States, Live
  <2>2. /\ OnlyClient(w) /\ work'[w].pc = label /\ work'[w].seen = Untracked
        /\ work'[w].uncounted = 0 /\ work'[w].room = 0
    BY <1>1, <1>3, <1>4, LeaveEffect
  <2>3. /\ rows' \in [Lanes -> Nat] /\ rows'[Lane(w)] = rows[Lane(w)] + work[w].uncounted + 1
        /\ \A l \in Lanes : l # Lane(w) => rows'[l] = rows[l]
    BY <1>1, <1>4, InHand DEF TypeOK
  <2>4. Charged(w, Lane(w), 1)
    BY <1>1, <1>4, SpendEffect
  <2>5. TypeOK'
    BY <1>1, <1>4, <2>1, <2>2, <2>3, <2>4 DEF TypeOK, OnlyClient, Charged
  <2>6. Balanced(w)
    <3>1. lost' = lost /\ unused' = unused /\ Holds(work[w]) = 0 /\ Holds(work'[w]) = 0
      BY <1>1, <1>3, <1>4, <2>2 DEF Holds
    <3> QED
      BY <2>2, <2>3, <2>4, <3>1, InHand DEF Balanced, Charged
  <2>7. KeepsShare(w)
    <3>1. Holds(work[w]) = 0 /\ Holds(work'[w]) = 0
      BY <1>1, <1>3, <2>2 DEF Holds
    <3> QED
      BY <1>4, <2>2, <2>3, <2>4, <3>1, InHand DEF KeepsShare, IInv, RoomInShare, Charged
  <2>8. KeepsSnapshots(w)
    BY <1>1, <1>3, <1>4, <2>1, <2>2, SnapshotsAsTheyWere DEF IInv, SnapshotsAreKept
  <2>9. KeepsGames(w)
    BY <1>1, <1>4 DEF KeepsGames, IInv, GamesAreListed, Listed
  <2> QED
    BY <2>2, <2>5, <2>6, <2>7, <2>8, <2>9 DEF WorkerStep
<1>5. CASE \E n : /\ Attempt(w, Lane(w), n, "threw")
                  /\ UNCHANGED <<tracked, held, history, searches, rows, world, lossVars, goneVars, acts>>
  BY <1>1, <1>5, CallStep
<1>6. CASE /\ tracked' = [tracked EXCEPT
                !.state = IF tries = MaxMatches THEN "unmatched" ELSE work[w].seen.state,
                !.tries = tries, !.due = FALSE]
           /\ Count(w, Lane(w), label)
           /\ UNCHANGED <<held, history, searches, world, pastVars>>
  <2>1. work[w].seen.state \in States
    BY InHand DEF Rows
  <2>2. tracked' \in Rows /\ tracked'.last = tracked.last
    BY <1>1, <1>2, <1>6, <2>1 DEF Rows, States, Live
  <2> QED
    BY <1>1, <1>3, <1>6, <2>2, CountStep DEF IInv, SnapshotsAreKept
<1> QED
  BY <1>4, <1>5, <1>6 DEF NotFound, tries, label

LEMMA OpenPollStep ==
  ASSUME MarketAssumption, IInv, NEW w \in Worker, OpenPoll(w)
  PROVE  TypeOK' /\ WorkerStep(w)
  BY OpenStep DEF OpenPoll, At

\* Calls that a row of their own counts, made and written in one step.
LEMMA OwnRowStep ==
  ASSUME MarketAssumption, IInv, NEW w \in Worker, OnlyClient(w),
         NEW n \in Nat, n <= work[w].room,
         Spend(w, Lane(w), n), rows' = [rows EXCEPT ![Lane(w)] = @ + n],
         work[w].pc \in {"prompt", "groups"}, work'[w].pc \in {"stats", "listings"},
         work'[w].seen \in {work[w].seen, Untracked},
         work'[w].uncounted = work[w].uncounted, work'[w].room <= work[w].room - n,
         work'[w].pc = "listings" => work'[w].uncounted = 0,
         UNCHANGED <<tracked, held, history, searches, world, lossVars, goneVars, acts>>
  PROVE  TypeOK' /\ WorkerStep(w)
<1>1. TypeOK
  BY DEF IInv
<1>2. Charged(w, Lane(w), n)
  BY <1>1, SpendEffect
<1>3. /\ rows' \in [Lanes -> Nat] /\ rows'[Lane(w)] = rows[Lane(w)] + n
      /\ \A l \in Lanes : l # Lane(w) => rows'[l] = rows[l]
  BY <1>1, InHand DEF TypeOK
<1>4. TypeOK'
  BY <1>1, <1>2, <1>3 DEF TypeOK, OnlyClient, Charged
<1>5. Holds(work[w]) = 0 /\ Holds(work'[w]) = 0
  BY DEF Holds
<1>6. Balanced(w)
  BY <1>2, <1>3, <1>5, InHand DEF Balanced, Resting, Charged
<1>7. KeepsShare(w)
  <2>1. work'[w].room \in Nat
    BY DEF OnlyClient, Clients
  <2>2. \A v \in Background : v # w => made'[v] = made[v]
    BY <1>2 DEF Charged
  <2>3. rows'["background"] >= rows["background"]
    BY <1>3, InHand
  <2>4. ASSUME w \in Background
        PROVE  /\ work'[w].uncounted + work'[w].room <= Share
               /\ made'[w] + work'[w].room <= Share + lost'["background"]
               /\ made'[w] + Holds(work'[w])
                    <= rows'["background"] + work'[w].uncounted + lost'["background"]
    <3>1. made'[w] = made[w] + n /\ rows'["background"] = rows["background"] + n
      BY <1>2, <1>3, <2>4, InHand DEF Charged
    <3>2. /\ work[w].uncounted + work[w].room <= Share
          /\ made[w] + work[w].room <= Share + lost["background"]
          /\ made[w] + Holds(work[w]) <= rows["background"] + work[w].uncounted + lost["background"]
      BY <2>4 DEF IInv, RoomInShare
    <3> QED
      BY <1>5, <2>1, <2>4, <3>1, <3>2, InHand
  <2> QED
    BY <2>2, <2>3, <2>4, InHand DEF KeepsShare
<1>8. KeepsSnapshots(w)
  BY <1>1, SnapshotsAsTheyWere DEF IInv, SnapshotsAreKept
<1>9. KeepsGames(w)
  BY DEF KeepsGames, IInv, GamesAreListed, Listed
<1> QED
  BY <1>4, <1>6, <1>7, <1>8, <1>9 DEF WorkerStep

LEMMA ReadGroupsStep ==
  ASSUME MarketAssumption, IInv, NEW w \in Worker, ReadGroups(w)
  PROVE  TypeOK' /\ WorkerStep(w)
<1>1. TypeOK /\ work[w].pc = "groups" /\ "listings" \in Labels
  BY DEF IInv, ReadGroups, At, Labels
<1>2. PICK n \in 0 .. AtMost(Tries, work[w].room) :
        Spend(w, Lane(w), n) /\ rows' = [rows EXCEPT ![Lane(w)] = @ + n]
  BY DEF ReadGroups
<1>3. n \in Nat /\ n <= work[w].room
  BY InHand DEF AtMost, MarketAssumption
<1>4. /\ OnlyClient(w) /\ work'[w].pc = "listings" /\ work'[w].seen = Untracked
      /\ work'[w].uncounted = 0 /\ work'[w].room = 0
  BY <1>1, LeaveEffect DEF ReadGroups
<1>5. work[w].uncounted = 0 /\ work'[w].room <= work[w].room - n
  BY <1>1, <1>3, <1>4, InHand DEF Resting
<1> QED
  BY <1>1, <1>2, <1>3, <1>4, <1>5, OwnRowStep DEF ReadGroups

LEMMA PromptStep ==
  ASSUME MarketAssumption, IInv, NEW w \in Worker, Prompt(w)
  PROVE  TypeOK' /\ WorkerStep(w)
<1>1. TypeOK /\ tracked \in Rows /\ work[w].pc = "prompt" /\ "stats" \in Labels
  BY DEF IInv, TypeOK, Prompt, At, Labels
<1>2. CASE Goto(w, "stats") /\ UNCHANGED <<rows, spent, made>>
  <2>1. /\ OnlyClient(w) /\ work'[w].pc = "stats" /\ work'[w].seen = work[w].seen
        /\ work'[w].uncounted = work[w].uncounted /\ work'[w].room = work[w].room
    BY <1>1, <1>2, GotoEffect
  <2> QED
    BY <1>1, <1>2, <2>1, Quietly, InHand DEF Prompt, Holds, Resting
<1>3. ASSUME NEW n \in 0 .. AtMost(Tries, work[w].room),
             Spend(w, Lane(w), n),
             rows' = [rows EXCEPT ![Lane(w)] = @ + n],
             work' = [work EXCEPT ![w].pc = "stats", ![w].room = @ - n]
      PROVE  TypeOK' /\ WorkerStep(w)
  <2>1. n \in Nat /\ n <= work[w].room /\ work[w].room - n \in Nat
    BY InHand DEF AtMost, MarketAssumption
  <2>2. /\ work'[w] = [work[w] EXCEPT !.pc = "stats", !.room = work[w].room - n]
        /\ \A v \in Worker : v # w => work'[v] = work[v]
        /\ work' = [work EXCEPT ![w] = work'[w]]
    BY <1>1, <1>3 DEF TypeOK, Clients
  <2>3. work'[w] \in Clients
    <3>1. work[w] \in Clients
      BY <1>1 DEF TypeOK
    <3>2. [work[w] EXCEPT !.pc = "stats", !.room = work[w].room - n] \in Clients
      BY <1>1, <2>1, <3>1, ClientWith
    <3> QED
      BY <2>2, <3>2
  <2>4. OnlyClient(w)
    BY <1>1, <2>2, <2>3 DEF OnlyClient, TypeOK
  <2>5. /\ work'[w].pc = "stats" /\ work'[w].seen = work[w].seen
        /\ work'[w].uncounted = work[w].uncounted /\ work'[w].room = work[w].room - n
    BY <1>1, <2>2 DEF TypeOK, Clients
  <2>6. work'[w].room <= work[w].room - n
    BY <2>1, <2>5
  <2> QED
    BY <1>1, <1>3, <2>1, <2>4, <2>5, <2>6, OwnRowStep DEF Prompt
<1> QED
  BY <1>2, <1>3 DEF Prompt

\* The last of some snapshots is one of them.
LEMMA MaxIsReached ==
  ASSUME NEW N \in Nat, NEW S \in SUBSET (0 .. N), S # {}
  PROVE  Max(S) \in S /\ \A x \in S : x <= Max(S)
<1> DEFINE R == OpToRel(<, Nat)
           Above == {n \in Nat : \A x \in S : x <= n}
<1>1. IsWellFoundedOn(R, Nat)
  BY NatLessThanWellFounded
<1>2. \A m, n \in Nat : m < n => <<m, n>> \in R
  BY DEF OpToRel
<1>3. N \in Above /\ Above \subseteq Nat
  OBVIOUS
<1> HIDE DEF R, Above
<1>4. PICK m \in Above : \A n \in Above : <<n, m>> \notin R
  BY <1>1, <1>3, WFMin
<1>5. m \in Nat /\ \A x \in S : x <= m /\ x \in Nat
  BY <1>4 DEF Above
<1>6. m \in S
  <2> SUFFICES ASSUME m \notin S PROVE FALSE
    OBVIOUS
  <2>1. PICK x \in S : TRUE
    OBVIOUS
  <2>2. x \in Nat /\ x <= m /\ x # m
    BY <1>5, <2>1
  <2>3. m - 1 \in Nat /\ m - 1 < m
    BY <1>5, <2>2
  <2>4. \A y \in S : y <= m - 1
    BY <1>5, <2>3
  <2>5. m - 1 \in Above
    BY <2>3, <2>4 DEF Above
  <2>6. <<m - 1, m>> \in R
    BY <1>2, <1>5, <2>3
  <2> QED
    BY <1>4, <2>5, <2>6
<1> QED
  BY <1>5, <1>6 DEF Max

LEMMA LastFound ==
  ASSUME NEW c \in Clients, MaxSnapshots \in Nat
  PROVE  /\ Max(c.got \cup {c.seen.last}) \in c.got \cup {c.seen.last}
         /\ Max(c.got \cup {c.seen.last}) \in 0 .. MaxSnapshots
<1> DEFINE S == c.got \cup {c.seen.last}
<1>1. S \in SUBSET (0 .. MaxSnapshots) /\ S # {}
  BY DEF Clients, Rows
<1> HIDE DEF S
<1>2. Max(S) \in S
  BY <1>1, MaxIsReached
<1> QED
  BY <1>1, <1>2 DEF S

LEMMA StatsStep ==
  ASSUME MarketAssumption, IInv, NEW w \in Worker, Stats(w)
  PROVE  TypeOK' /\ WorkerStep(w)
<1>1. TypeOK /\ tracked \in Rows /\ work[w].pc = "stats" /\ "store" \in Labels
  BY DEF IInv, TypeOK, Stats, At, Labels
<1> /\ tracked' = tracked /\ held' = held /\ history' = history /\ searches' = searches
    /\ rows' = rows /\ world' = world /\ purged' = purged /\ leftOut' = leftOut
    /\ orphaned' = orphaned /\ lost' = lost /\ unused' = unused /\ acts' = acts
  BY DEF Stats
<1>2. CASE Refused(w, Lane(w), "threw") /\ UNCHANGED cutOff
  <2>1. \E n : Attempt(w, Lane(w), n, "threw")
    BY <1>2 DEF Refused
  <2> QED
    BY <1>1, <1>2, <2>1, CallStep
<1> DEFINE a == work[w].seen.last
           newer == (a + 1) .. world.published
<1>3. ASSUME NEW n \in 1 .. AtMost(Tries, work[w].room), NEW got \in SUBSET newer,
             Spend(w, Lane(w), n),
             work' = [work EXCEPT ![w].pc = "store", ![w].room = @ - n, ![w].uncounted = @ + n,
                                  ![w].got = got],
             cutOff' = cutOff \cup {s \in newer \ got : \E later \in got : s < later}
      PROVE  TypeOK' /\ WorkerStep(w)
  <2>1. /\ n \in Nat /\ n <= work[w].room /\ work[w].room - n \in Nat
        /\ work[w].uncounted + n \in Nat
    BY InHand DEF AtMost, MarketAssumption
  <2>2. a \in Nat /\ world.published \in Nat /\ newer \subseteq 1 .. MaxSnapshots
    BY <1>1, InHand DEF TypeOK, Rows, MarketAssumption
  <2> DEFINE behind == {s \in newer \ got : \E later \in got : s < later}
  <2>3. behind \subseteq newer /\ got \subseteq newer
    OBVIOUS
  <2>4. \A s \in newer : \A later \in got : s < later => s \in got \/ s \in behind
    OBVIOUS
  <2>5. \A s \in Nat : s <= world.published => s \in 1 .. a \/ s \in newer \/ s = 0
    BY <2>2
  <2>6. \A s \in got : s \in Nat /\ s <= world.published
    BY <2>2
  <2> HIDE DEF newer, behind
  <2>7. /\ work'[w] = [work[w] EXCEPT !.pc = "store", !.room = work[w].room - n,
                                      !.uncounted = work[w].uncounted + n, !.got = got]
        /\ \A v \in Worker : v # w => work'[v] = work[v]
        /\ work' = [work EXCEPT ![w] = work'[w]]
    BY <1>1, <1>3 DEF TypeOK, Clients
  <2>8. work'[w] \in Clients
    <3>1. work[w] \in Clients /\ got \subseteq 1 .. MaxSnapshots
      BY <1>1, <2>2, <2>3 DEF TypeOK
    <3> QED
      BY <1>1, <2>1, <2>7, <3>1 DEF Clients
  <2>9. OnlyClient(w)
    BY <1>1, <2>7, <2>8 DEF OnlyClient, TypeOK
  <2>10. /\ work'[w].pc = "store" /\ work'[w].seen = work[w].seen /\ work'[w].got = got
         /\ work'[w].uncounted = work[w].uncounted + n /\ work'[w].room = work[w].room - n
    BY <1>1, <2>7 DEF TypeOK, Clients
  <2>11. Charged(w, Lane(w), n)
    BY <1>1, <1>3, <2>1, SpendEffect
  <2>12. TypeOK'
    <3>1. cutOff' \subseteq 1 .. MaxSnapshots /\ purged' \subseteq 1 .. MaxSnapshots
      BY <1>1, <1>3, <2>2, <2>3 DEF TypeOK, behind
    <3> QED
      BY <1>1, <2>9, <2>11, <3>1 DEF TypeOK, OnlyClient, Charged
  <2>13. Balanced(w)
    BY <1>1, <2>1, <2>10, <2>11, InHand DEF Balanced, Holds, Resting, Charged
  <2>14. KeepsShare(w)
    <3>1. Holds(work[w]) = 0 /\ Holds(work'[w]) = 0
      BY <1>1, <2>10 DEF Holds
    <3> QED
      BY <2>1, <2>10, <2>11, <3>1, InHand DEF KeepsShare, IInv, RoomInShare, Charged
  <2>15. KeepsSnapshots(w)
    <3>1. \A s : Kept(s) => Kept(s)'
      BY <1>3 DEF Kept
    <3>2. Stored(tracked.last) /\ Stored(a)
      BY DEF IInv, SnapshotsAreKept
    <3>3. Stored(tracked.last)' /\ Stored(work[w].seen.last)'
      BY <2>10, <3>1, <3>2 DEF Stored
    <3> DEFINE top == Max(got \cup {a})
    <3>4. top \in got \cup {a} /\ top \in Nat
      BY <2>8, <2>10, LastFound DEF MarketAssumption
    <3> HIDE DEF top
    <3>5. ASSUME NEW s \in 1 .. top
          PROVE  s \in got \/ Kept(s)'
      <4>1. s \in Nat /\ s # 0 /\ s <= top
        BY <3>4
      <4>2. CASE s \in 1 .. a
        BY <3>1, <3>2, <4>2 DEF Stored
      <4>3. CASE s \notin 1 .. a
        <5>1. top \in got /\ top <= world.published
          BY <2>2, <2>6, <3>4, <4>1, <4>3
        <5>2. s \in newer
          BY <2>2, <2>5, <3>4, <4>1, <4>3, <5>1
        <5>3. s = top \/ s < top
          BY <3>4, <4>1
        <5>4. s \in got \/ s \in behind
          BY <2>4, <5>1, <5>2, <5>3
        <5> QED
          BY <1>3, <5>4 DEF Kept, behind
      <4> QED
        BY <4>2, <4>3
    <3>6. NoGap(work[w])'
      BY <2>10, <3>5 DEF NoGap, top
    <3> QED
      BY <1>3, <2>10, <3>3, <3>6 DEF KeepsSnapshots
  <2>16. KeepsGames(w)
    BY <1>1 DEF KeepsGames, IInv, GamesAreListed, Listed
  <2> QED
    BY <2>9, <2>12, <2>13, <2>14, <2>15, <2>16 DEF WorkerStep
<1> QED
  BY <1>2, <1>3 DEF Stats

LEMMA StoreStep ==
  ASSUME MarketAssumption, IInv, NEW w \in Worker, Store(w)
  PROVE  TypeOK' /\ WorkerStep(w)
<1>1. TypeOK /\ tracked \in Rows /\ work[w].pc = "store" /\ "mark" \in Labels
  BY DEF IInv, TypeOK, Store, At, Labels
<1>2. /\ OnlyClient(w) /\ work'[w].pc = "mark" /\ work'[w].seen = work[w].seen
      /\ work'[w].uncounted = work[w].uncounted /\ work'[w].room = work[w].room
      /\ work'[w].got = work[w].got
  BY <1>1, GotoEffect DEF Store
<1>3. TypeOK'
  BY <1>1, <1>2, InHand DEF TypeOK, OnlyClient, Store
<1>4. Balanced(w)
  BY <1>1, <1>2, InHand DEF Balanced, Holds, Resting, Store
<1>5. KeepsShare(w)
  <2>1. Holds(work[w]) = 0 /\ Holds(work'[w]) = 0
    BY <1>1, <1>2 DEF Holds
  <2> QED
    BY <1>2, <2>1, InHand DEF KeepsShare, IInv, RoomInShare, Store
<1>6. KeepsSnapshots(w)
  <2>1. \A s : Kept(s) => Kept(s)'
    BY DEF Kept, Store
  <2>2. Stored(tracked.last)' /\ Stored(work[w].seen.last)'
    BY <1>2, <2>1 DEF IInv, SnapshotsAreKept, Stored, Store
  <2>3. NoGap(work[w])'
    BY <1>1, <1>2, <2>1 DEF IInv, SnapshotsAreKept, NoGap
  <2> QED
    BY <1>2, <2>2, <2>3 DEF KeepsSnapshots, Store
<1>7. KeepsGames(w)
  BY <1>1 DEF Store, KeepsGames, IInv, GamesAreListed, Listed
<1> QED
  BY <1>2, <1>3, <1>4, <1>5, <1>6, <1>7 DEF WorkerStep

LEMMA MarkStep ==
  ASSUME MarketAssumption, IInv, NEW w \in Worker, Mark(w)
  PROVE  TypeOK' /\ WorkerStep(w)
<1>1. TypeOK /\ tracked \in Rows /\ work[w].pc = "mark" /\ "count" \in Labels
  BY DEF IInv, TypeOK, Mark, At, Labels
<1>2. /\ OnlyClient(w) /\ work'[w].pc = "count" /\ work'[w].seen = work[w].seen
      /\ work'[w].uncounted = work[w].uncounted /\ work'[w].room = work[w].room
  BY <1>1, GotoEffect DEF Mark
<1> DEFINE last == Max(work[w].got \cup {work[w].seen.last})
<1>3. last \in 0 .. MaxSnapshots
  BY <1>1, LastFound DEF TypeOK, MarketAssumption
<1>4. Stored(last)
  BY <1>1 DEF IInv, SnapshotsAreKept, NoGap, Stored, Kept
<1>5. tracked' = [tracked EXCEPT !.last = last, !.due = FALSE]
  BY DEF Mark
<1> HIDE DEF last
<1>6. tracked' \in Rows /\ tracked'.last = last
  BY <1>1, <1>3, <1>5 DEF Rows
<1>7. TypeOK'
  BY <1>1, <1>2, <1>6 DEF TypeOK, OnlyClient, Mark
<1>8. Balanced(w)
  BY <1>1, <1>2, InHand DEF Balanced, Holds, Resting, Mark
<1>9. KeepsShare(w)
  <2>1. Holds(work[w]) = 0 /\ Holds(work'[w]) = 0
    BY <1>1, <1>2 DEF Holds
  <2> QED
    BY <1>2, <2>1, InHand DEF KeepsShare, IInv, RoomInShare, Mark
<1>10. KeepsSnapshots(w)
  BY <1>1, <1>2, <1>4, <1>6, SnapshotsAsTheyWere DEF IInv, Mark
<1>11. KeepsGames(w)
  BY <1>1 DEF Mark, KeepsGames, IInv, GamesAreListed, Listed
<1> QED
  BY <1>2, <1>7, <1>8, <1>9, <1>10, <1>11 DEF WorkerStep

LEMMA CountPollStep ==
  ASSUME MarketAssumption, IInv, NEW w \in Worker, CountPoll(w)
  PROVE  TypeOK' /\ WorkerStep(w)
<1>1. tracked' \in Rows /\ tracked'.last = tracked.last
  BY DEF CountPoll, IInv, TypeOK
<1> QED
  BY <1>1, CountStep DEF CountPoll, At, IInv, SnapshotsAreKept

LEMMA ThrewStep ==
  ASSUME MarketAssumption, IInv, NEW w \in Worker, Threw(w)
  PROVE  TypeOK' /\ WorkerStep(w)
<1>1. tracked \in Rows
  BY DEF IInv, TypeOK
<1>2. tracked' \in Rows /\ tracked'.last = tracked.last
  BY <1>1 DEF Threw, Rows
<1> DEFINE label == After(w, "past")
<1>3. label \in {"past", "listings"}
  BY AfterType
<1> HIDE DEF label
<1>4. Count(w, Lane(w), label)
  BY DEF Threw, label
<1> QED
  BY <1>2, <1>3, <1>4, CountStep DEF Threw, At, IInv, SnapshotsAreKept

\* n calls that a row of the lane counts.
Counted(lane, n) ==
  /\ rows' \in [Lanes -> Nat] /\ rows'[lane] = rows[lane] + n
  /\ \A l \in Lanes : l # lane => rows'[l] = rows[l]

LEMMA HistoryCharge ==
  ASSUME TypeOK, NEW w \in Worker, NEW n \in Nat,
         \/ n = 0 /\ UNCHANGED <<rows, spent, made>>
         \/ Spend(w, "history", n) /\ rows' = [rows EXCEPT !["history"] = @ + n]
  PROVE  Charged(w, "history", n) /\ Counted("history", n)
<1>1. "history" \in Lanes /\ rows \in [Lanes -> Nat] /\ spent \in [Lanes -> Nat]
      /\ made \in [Background -> Nat]
  BY DEF TypeOK, Lanes
<1>2. CASE n = 0 /\ UNCHANGED <<rows, spent, made>>
  BY <1>1, <1>2 DEF Charged, Counted
<1>3. CASE Spend(w, "history", n) /\ rows' = [rows EXCEPT !["history"] = @ + n]
  BY <1>1, <1>3, SpendEffect DEF Counted
<1> QED
  BY <1>2, <1>3

\* A step of the back-fill: its calls are counted as they are made, in a lane of their own.
LEMMA BackfillStep ==
  ASSUME MarketAssumption, IInv, NEW w \in Worker, OnlyClient(w), NEW n \in Nat,
         Charged(w, "history", n), Counted("history", n),
         work[w].pc \in {"past", "games"}, work'[w].pc \in {"idle", "listings", "games"},
         work'[w].uncounted = 0, work'[w].room <= work[w].room,
         work'[w].seen \in {work[w].seen, Untracked},
         searches' \in [Worker -> Statuses], history' \subseteq Past, leftOut' \subseteq Past,
         UNCHANGED <<tracked, held, world, lossVars, purged, cutOff, orphaned, acts>>,
         KeepsGames(w)
  PROVE  TypeOK' /\ WorkerStep(w)
<1>1. TypeOK /\ work[w].uncounted = 0
  BY InHand DEF IInv, Resting
<1>2. Holds(work[w]) = 0 /\ Holds(work'[w]) = 0
  BY DEF Holds
<1>3. TypeOK'
  BY <1>1 DEF TypeOK, OnlyClient, Charged, Counted
<1>4. Balanced(w)
  BY <1>1, <1>2, InHand DEF Balanced, Charged, Counted
<1>5. KeepsShare(w)
  <2>1. work'[w].room \in Nat /\ rows'["background"] = rows["background"] /\ made' = made
    BY InHand DEF OnlyClient, Clients, Charged, Counted
  <2> QED
    BY <1>1, <1>2, <2>1, InHand DEF KeepsShare, IInv, RoomInShare
<1>6. KeepsSnapshots(w)
  BY <1>1, SnapshotsAsTheyWere DEF IInv, SnapshotsAreKept
<1> QED
  BY <1>3, <1>4, <1>5, <1>6 DEF WorkerStep

LEMMA SearchPastStep ==
  ASSUME MarketAssumption, IInv, NEW w \in Worker, SearchPast(w)
  PROVE  TypeOK' /\ WorkerStep(w)
<1>1. TypeOK /\ tracked \in Rows /\ work[w].pc = "past"
  BY DEF IInv, TypeOK, SearchPast, At
<1> DEFINE after == After(w, "idle")
           room == Room(w, "history")
<1>2. after \in {"idle", "listings"} /\ after \in Labels
  BY AfterType DEF Labels
<1>3. work[w].uncounted = 0
  BY <1>1, InHand DEF Resting
<1> HIDE DEF after
<1>4. CASE Goto(w, after) /\ UNCHANGED <<searches, rows, spent, made>>
  <2>1. /\ OnlyClient(w) /\ work'[w].pc = after /\ work'[w].seen = work[w].seen
        /\ work'[w].uncounted = work[w].uncounted /\ work'[w].room = work[w].room
    BY <1>1, <1>2, <1>4, GotoEffect
  <2> QED
    BY <1>1, <1>2, <1>3, <1>4, <2>1, Quietly, InHand DEF Holds, Resting, SearchPast
<1>5. ASSUME NEW n \in 1 .. AtMost(Tries, room), NEW ok \in BOOLEAN,
             Spend(w, "history", n), rows' = [rows EXCEPT !["history"] = @ + n],
             work' = [work EXCEPT ![w] =
                       IF ok THEN [AtRest EXCEPT !.pc = "games", !.left = Past \ history]
                             ELSE [AtRest EXCEPT !.pc = after]],
             searches' = IF ok THEN [searches EXCEPT ![w] = "success"] ELSE searches,
             MaySearch(w)
      PROVE  TypeOK' /\ WorkerStep(w)
  <2>1. n \in Nat
    BY RoomBound, InHand DEF AtMost, MarketAssumption
  <2> DEFINE label == IF ok THEN "games" ELSE after
             left == IF ok THEN Past \ history ELSE {}
  <2>2. /\ work'[w] = [pc |-> label, seen |-> Untracked, uncounted |-> 0, room |-> 0,
                       got |-> {}, left |-> left]
        /\ \A v \in Worker : v # w => work'[v] = work[v]
        /\ work' = [work EXCEPT ![w] = work'[w]]
    BY <1>1, <1>5 DEF TypeOK, AtRest
  <2>3. label \in Labels /\ left \subseteq Past /\ label \in {"games", "idle", "listings"}
        /\ (ok <=> label = "games")
    BY <1>2 DEF Labels
  <2> HIDE DEF label, left
  <2>4. work'[w] \in Clients
    BY <2>2, <2>3, RestType DEF Clients
  <2>5. OnlyClient(w)
    BY <1>1, <2>2, <2>4 DEF OnlyClient, TypeOK
  <2>6. Charged(w, "history", n) /\ Counted("history", n)
    BY <1>1, <1>5, <2>1, HistoryCharge
  <2>7. KeepsGames(w)
    BY <1>1, <1>5, <2>2, <2>3 DEF SearchPast, MaySearch, KeepsGames, TypeOK, left
  <2>8. /\ searches' \in [Worker -> Statuses] /\ history' \subseteq Past /\ leftOut' \subseteq Past
        /\ work'[w].room <= work[w].room
    <3>1. history' = history /\ leftOut' = leftOut /\ work'[w].room = 0
      BY <2>2 DEF SearchPast
    <3>2. searches' \in [Worker -> Statuses]
      BY <1>1, <1>5 DEF TypeOK, Statuses
    <3> QED
      BY <1>1, <3>1, <3>2, InHand DEF TypeOK
  <2> QED
    BY <1>1, <2>1, <2>2, <2>3, <2>5, <2>6, <2>7, <2>8, BackfillStep DEF SearchPast
<1> QED
  BY <1>4, <1>5 DEF SearchPast, after

\* The back-fill ends here: every game read, or the allowance spent.
LEMMA BackfillEnds ==
  ASSUME MarketAssumption, IInv, NEW w \in Worker, work[w].pc = "games",
         Leave(w, After(w, "idle")), NEW n \in Nat,
         Charged(w, "history", n), Counted("history", n),
         \/ searches' = [searches EXCEPT ![w] = "partial"]
         \/ searches' = searches /\ Missing(w) = {},
         UNCHANGED <<tracked, held, history, world, lossVars, goneVars, acts>>
  PROVE  TypeOK' /\ WorkerStep(w)
<1>1. TypeOK /\ searches \in [Worker -> Statuses] /\ history \subseteq Past /\ leftOut \subseteq Past
  BY DEF IInv, TypeOK
<1>2. After(w, "idle") \in {"idle", "listings"} /\ After(w, "idle") \in Labels
  BY AfterType DEF Labels
<1>3. /\ OnlyClient(w) /\ work'[w].pc = After(w, "idle") /\ work'[w].seen = Untracked
      /\ work'[w].uncounted = 0 /\ work'[w].room = 0
  BY <1>1, <1>2, LeaveEffect
<1>4. searches[w] = "success" =>
        \A g \in Past : g \in history \cup leftOut \cup orphaned \/ g \in work[w].left
  BY DEF IInv, GamesAreListed, Listed
<1>5. searches' \in [Worker -> Statuses] /\ KeepsGames(w)
  <2>1. CASE searches' = [searches EXCEPT ![w] = "partial"]
    BY <1>1, <2>1 DEF KeepsGames, Statuses
  <2>2. CASE searches' = searches /\ Missing(w) = {}
    BY <1>1, <1>4, <2>2 DEF KeepsGames, Missing
  <2> QED
    BY <2>1, <2>2
<1>6. work'[w].room <= work[w].room
  BY <1>3, InHand
<1> QED
  BY <1>1, <1>2, <1>3, <1>5, <1>6, BackfillStep

LEMMA CutShortStep ==
  ASSUME MarketAssumption, IInv, NEW w \in Worker, CutShort(w)
  PROVE  TypeOK' /\ WorkerStep(w)
<1>1. Charged(w, "history", 0) /\ Counted("history", 0)
  BY HistoryCharge DEF CutShort, IInv
<1>2. /\ work[w].pc = "games" /\ Leave(w, After(w, "idle"))
      /\ searches' = [searches EXCEPT ![w] = "partial"]
      /\ UNCHANGED <<tracked, held, history, world, lossVars, goneVars, acts>>
  BY DEF CutShort, At
<1> QED
  BY <1>1, <1>2, BackfillEnds

LEMMA EndPastStep ==
  ASSUME MarketAssumption, IInv, NEW w \in Worker, EndPast(w)
  PROVE  TypeOK' /\ WorkerStep(w)
<1>1. Charged(w, "history", 0) /\ Counted("history", 0)
  BY HistoryCharge DEF EndPast, IInv
<1> QED
  BY <1>1, BackfillEnds DEF EndPast, At

LEMMA ReadPastStep ==
  ASSUME MarketAssumption, IInv, NEW w \in Worker, ReadPast(w)
  PROVE  TypeOK' /\ WorkerStep(w)
<1>1. TypeOK /\ work[w].pc = "games" /\ work[w].uncounted = 0
  BY InHand DEF IInv, ReadPast, At, Resting
<1>2. /\ searches \in [Worker -> Statuses] /\ history \subseteq Past /\ leftOut \subseteq Past
      /\ work \in [Worker -> Clients] /\ work[w] \in Clients
  BY <1>1 DEF TypeOK
<1>3. searches[w] = "success" =>
        \A g \in Past : g \in history \cup leftOut \cup orphaned \/ g \in work[w].left
  BY <1>1 DEF IInv, GamesAreListed, Listed
<1>4. PICK g \in Missing(w) :
        \/ /\ leftOut' = leftOut \cup {g}
           /\ work' = [work EXCEPT ![w].left = @ \ {g}]
           /\ UNCHANGED <<history, searches, rows, spent, made>>
        \/ \E n \in 1 .. AtMost(Tries, Room(w, "history")) :
             /\ Spend(w, "history", n)
             /\ rows' = [rows EXCEPT !["history"] = @ + n]
             /\ \/ /\ history' = history \cup {g}
                   /\ work' = [work EXCEPT ![w].left = @ \ {g}]
                   /\ UNCHANGED <<searches, leftOut>>
                \/ /\ leftOut' = leftOut \cup {g}
                   /\ work' = [work EXCEPT ![w].left = @ \ {g}]
                   /\ UNCHANGED <<searches, history>>
                \/ /\ n = Room(w, "history")
                   /\ searches' = [searches EXCEPT ![w] = "partial"]
                   /\ Leave(w, After(w, "idle"))
                   /\ UNCHANGED <<history, leftOut>>
  BY DEF ReadPast
<1>5. UNCHANGED <<tracked, held, world, lossVars, purged, cutOff, orphaned, acts>>
  BY DEF ReadPast
<1>6. g \in Past
  BY <1>2 DEF Missing, Clients
<1>7. ASSUME NEW n \in Nat, Charged(w, "history", n), Counted("history", n),
             work' = [work EXCEPT ![w].left = @ \ {g}], UNCHANGED searches,
             history' \subseteq Past, leftOut' \subseteq Past,
             history' \cup leftOut' = history \cup leftOut \cup {g}
      PROVE  TypeOK' /\ WorkerStep(w)
  <2>1. /\ work'[w] = [work[w] EXCEPT !.left = work[w].left \ {g}]
        /\ \A v \in Worker : v # w => work'[v] = work[v]
        /\ work' = [work EXCEPT ![w] = work'[w]]
    BY <1>2, <1>7 DEF Clients
  <2>2. work'[w] \in Clients
    BY <1>2, <2>1 DEF Clients
  <2>3. OnlyClient(w)
    BY <1>2, <2>1, <2>2 DEF OnlyClient
  <2>4. /\ work'[w].pc = "games" /\ work'[w].seen = work[w].seen
        /\ work'[w].uncounted = 0 /\ work'[w].room = work[w].room
        /\ work'[w].left = work[w].left \ {g}
    BY <1>1, <1>2, <2>1 DEF Clients
  <2>5. KeepsGames(w)
    BY <1>3, <1>5, <1>7, <2>4 DEF KeepsGames
  <2>6. work'[w].room <= work[w].room
    BY <2>4, InHand
  <2> QED
    BY <1>1, <1>2, <1>5, <1>7, <2>3, <2>4, <2>5, <2>6, BackfillStep
<1>8. CASE /\ leftOut' = leftOut \cup {g}
           /\ work' = [work EXCEPT ![w].left = @ \ {g}]
           /\ UNCHANGED <<history, searches, rows, spent, made>>
  <2>1. Charged(w, "history", 0) /\ Counted("history", 0)
    BY <1>1, <1>8, HistoryCharge
  <2>2. history' \subseteq Past /\ leftOut' \subseteq Past
        /\ history' \cup leftOut' = history \cup leftOut \cup {g}
    BY <1>2, <1>6, <1>8
  <2> QED
    BY <1>7, <1>8, <2>1, <2>2
<1>9. ASSUME NEW n \in 1 .. AtMost(Tries, Room(w, "history")),
             Spend(w, "history", n), rows' = [rows EXCEPT !["history"] = @ + n],
             \/ /\ history' = history \cup {g}
                /\ work' = [work EXCEPT ![w].left = @ \ {g}]
                /\ UNCHANGED <<searches, leftOut>>
             \/ /\ leftOut' = leftOut \cup {g}
                /\ work' = [work EXCEPT ![w].left = @ \ {g}]
                /\ UNCHANGED <<searches, history>>
             \/ /\ searches' = [searches EXCEPT ![w] = "partial"]
                /\ Leave(w, After(w, "idle"))
                /\ UNCHANGED <<history, leftOut>>
      PROVE  TypeOK' /\ WorkerStep(w)
  <2>1. n \in Nat
    BY RoomBound, InHand DEF AtMost, MarketAssumption
  <2>2. Charged(w, "history", n) /\ Counted("history", n)
    BY <1>1, <1>9, <2>1, HistoryCharge
  <2>3. CASE /\ work' = [work EXCEPT ![w].left = @ \ {g}] /\ UNCHANGED searches
             /\ \/ history' = history \cup {g} /\ leftOut' = leftOut
                \/ leftOut' = leftOut \cup {g} /\ history' = history
    <3>1. history' \subseteq Past /\ leftOut' \subseteq Past
          /\ history' \cup leftOut' = history \cup leftOut \cup {g}
      BY <1>2, <1>6, <2>3
    <3> QED
      BY <1>7, <2>1, <2>2, <2>3, <3>1
  <2>4. CASE /\ searches' = [searches EXCEPT ![w] = "partial"]
             /\ Leave(w, After(w, "idle")) /\ UNCHANGED <<history, leftOut>>
    BY <1>1, <1>5, <2>1, <2>2, <2>4, BackfillEnds
  <2> QED
    BY <1>9, <2>3, <2>4
<1> QED
  BY <1>4, <1>8, <1>9

\* The call is in its row before it is made: rows are ahead of calls by the reservation.
LEMMA ReserveStep ==
  ASSUME MarketAssumption, IInv, NEW w \in Worker, Reserve(w)
  PROVE  TypeOK' /\ WorkerStep(w)
<1>1. TypeOK /\ tracked \in Rows /\ work[w].pc = "listings" /\ "idle" \in Labels /\ "reading" \in Labels
  BY DEF IInv, TypeOK, Reserve, At, Labels
<1> /\ tracked' = tracked /\ held' = held /\ history' = history /\ searches' = searches
    /\ world' = world /\ UNCHANGED pastVars
  BY DEF Reserve
<1>2. work[w].uncounted = 0
  BY <1>1, InHand DEF Resting
<1>3. CASE UNCHANGED rows /\ Leave(w, "idle")
  <2>1. /\ OnlyClient(w) /\ work'[w].pc = "idle" /\ work'[w].seen = Untracked
        /\ work'[w].uncounted = 0 /\ work'[w].room = 0
    BY <1>1, <1>3, LeaveEffect
  <2> QED
    BY <1>1, <1>2, <1>3, <2>1, Quietly, InHand DEF Holds, Resting
<1>4. CASE /\ ToReserve(w) > 0
           /\ rows' = [rows EXCEPT ![Lane(w)] = @ + 1]
           /\ work' = [work EXCEPT ![w].pc = "reading", ![w].room = ToReserve(w)]
  <2>1. /\ ToReserve(w) \in Nat
        /\ w \in Background => rows["background"] + ToReserve(w) <= Share
    BY <1>4, InHand DEF ToReserve, LiveRows, Lanes, Minus, AtMost, MarketAssumption
  <2>2. /\ work'[w] = [work[w] EXCEPT !.pc = "reading", !.room = ToReserve(w)]
        /\ \A v \in Worker : v # w => work'[v] = work[v]
        /\ work' = [work EXCEPT ![w] = work'[w]]
    BY <1>1, <1>4 DEF TypeOK
  <2>3. work'[w] \in Clients
    <3>1. work[w] \in Clients
      BY <1>1 DEF TypeOK
    <3>2. [work[w] EXCEPT !.pc = "reading", !.room = ToReserve(w)] \in Clients
      BY <1>1, <2>1, <3>1, ClientWith
    <3> QED
      BY <2>2, <3>2
  <2>4. OnlyClient(w)
    BY <1>1, <2>2, <2>3 DEF OnlyClient, TypeOK
  <2>5. /\ work'[w].pc = "reading" /\ work'[w].seen = work[w].seen /\ work'[w].uncounted = 0
        /\ work'[w].room = ToReserve(w)
    BY <1>1, <1>2, <2>2 DEF TypeOK, Clients
  <2>6. Counted(Lane(w), 1)
    BY <1>1, <1>4, InHand DEF TypeOK, Counted
  <2>7. TypeOK'
    BY <1>1, <2>4, <2>6 DEF TypeOK, OnlyClient, Counted
  <2>8. Holds(work[w]) = 0 /\ Holds(work'[w]) = 1
    BY <1>1, <2>5 DEF Holds
  <2>9. Balanced(w)
    BY <1>1, <1>2, <2>5, <2>6, <2>8, InHand DEF Balanced, Counted, Resting
  <2>10. KeepsShare(w)
    <3>1. rows'["background"] >= rows["background"]
      BY <2>6, InHand DEF Counted
    <3>2. ASSUME w \in Background
          PROVE  /\ work'[w].uncounted + work'[w].room <= Share
                 /\ made'[w] + work'[w].room <= Share + lost'["background"]
                 /\ made'[w] + Holds(work'[w])
                      <= rows'["background"] + work'[w].uncounted + lost'["background"]
      <4>1. rows'["background"] = rows["background"] + 1
        BY <2>6, <3>2, InHand DEF Counted
      <4>2. /\ work[w].uncounted + ToReserve(w) <= Share
            /\ made[w] + ToReserve(w) <= Share + lost["background"]
        BY <1>2, <2>1, <3>2, FreshRoom, InHand
      <4>3. made[w] + Holds(work[w]) <= rows["background"] + work[w].uncounted + lost["background"]
        BY <3>2 DEF IInv, RoomInShare
      <4> QED
        BY <1>2, <2>1, <2>5, <2>8, <3>2, <4>1, <4>2, <4>3, InHand
    <3> QED
      BY <3>1, <3>2, InHand DEF KeepsShare
  <2>11. KeepsSnapshots(w)
    BY <1>1, <2>5, SnapshotsAsTheyWere DEF IInv, SnapshotsAreKept
  <2>12. KeepsGames(w)
    BY <1>1 DEF KeepsGames, IInv, GamesAreListed, Listed
  <2> QED
    BY <2>4, <2>7, <2>9, <2>10, <2>11, <2>12 DEF WorkerStep
<1> QED
  BY <1>3, <1>4 DEF Reserve

LEMMA ReadListingsStep ==
  ASSUME MarketAssumption, IInv, NEW w \in Worker, ReadListings(w)
  PROVE  TypeOK' /\ WorkerStep(w)
<1>1. TypeOK /\ tracked \in Rows /\ work[w].pc = "reading" /\ "finish" \in Labels
  BY DEF IInv, TypeOK, ReadListings, At, Labels
<1> /\ tracked' = tracked /\ held' = held /\ history' = history /\ searches' = searches
    /\ world' = world /\ rows' = rows /\ UNCHANGED <<lossVars, goneVars, acts>>
  BY DEF ReadListings
<1>2. work[w].uncounted = 0
  BY <1>1, InHand DEF Resting
<1>3. PICK n \in 1 .. AtMost(Tries, work[w].room) :
        /\ Spend(w, Lane(w), n)
        /\ work' = [work EXCEPT ![w].pc = "finish", ![w].room = 0, ![w].uncounted = @ + n - 1]
  BY DEF ReadListings
<1>4. n \in Nat /\ n >= 1 /\ n - 1 \in Nat /\ n <= work[w].room
  BY InHand DEF AtMost, MarketAssumption
<1>5. /\ work'[w] = [work[w] EXCEPT !.pc = "finish", !.room = 0, !.uncounted = n - 1]
      /\ \A v \in Worker : v # w => work'[v] = work[v]
      /\ work' = [work EXCEPT ![w] = work'[w]]
  <2>1. work[w] \in Clients /\ work[w].uncounted + n - 1 = n - 1
    BY <1>1, <1>2, <1>4 DEF TypeOK
  <2>2. work' = [work EXCEPT ![w] = [work[w] EXCEPT !.pc = "finish", !.room = 0,
                                                   !.uncounted = work[w].uncounted + n - 1]]
    BY <1>3, <2>1 DEF Clients
  <2> QED
    BY <1>1, <2>1, <2>2 DEF TypeOK
<1>6. work'[w] \in Clients
  <2>1. work[w] \in Clients /\ 0 \in Nat
    BY <1>1 DEF TypeOK
  <2> QED
    BY <1>1, <1>4, <1>5, <2>1 DEF Clients
<1>7. OnlyClient(w)
  BY <1>1, <1>5, <1>6 DEF OnlyClient, TypeOK
<1>8. /\ work'[w].pc = "finish" /\ work'[w].seen = work[w].seen /\ work'[w].uncounted = n - 1
      /\ work'[w].room = 0
  BY <1>1, <1>5 DEF TypeOK, Clients
<1>9. Charged(w, Lane(w), n)
  BY <1>1, <1>3, <1>4, SpendEffect
<1>10. TypeOK'
  BY <1>1, <1>7, <1>9 DEF TypeOK, OnlyClient, Charged
<1>11. Holds(work[w]) = 1 /\ Holds(work'[w]) = 0
  BY <1>1, <1>8 DEF Holds
<1>12. Balanced(w)
  BY <1>1, <1>2, <1>4, <1>8, <1>9, <1>11, InHand DEF Balanced, Charged, Resting
<1>13. KeepsShare(w)
  <2>1. ASSUME w \in Background
        PROVE  /\ work'[w].uncounted + work'[w].room <= Share
               /\ made'[w] + work'[w].room <= Share + lost'["background"]
               /\ made'[w] + Holds(work'[w])
                    <= rows'["background"] + work'[w].uncounted + lost'["background"]
    <3>1. made'[w] = made[w] + n
      BY <1>9, <2>1, InHand DEF Charged
    <3>2. /\ work[w].uncounted + work[w].room <= Share
          /\ made[w] + work[w].room <= Share + lost["background"]
          /\ made[w] + Holds(work[w]) <= rows["background"] + work[w].uncounted + lost["background"]
      BY <2>1 DEF IInv, RoomInShare
    <3> QED
      BY <1>2, <1>4, <1>8, <1>11, <2>1, <3>1, <3>2, InHand
  <2> QED
    BY <1>9, <2>1, InHand DEF KeepsShare, Charged
<1>14. KeepsSnapshots(w)
  BY <1>1, <1>8, SnapshotsAsTheyWere DEF IInv, SnapshotsAreKept
<1>15. KeepsGames(w)
  BY <1>1 DEF KeepsGames, IInv, GamesAreListed, Listed
<1> QED
  BY <1>7, <1>10, <1>12, <1>13, <1>14, <1>15 DEF WorkerStep

LEMMA FinishStep ==
  ASSUME MarketAssumption, IInv, NEW w \in Worker, Finish(w)
  PROVE  TypeOK' /\ WorkerStep(w)
<1>1. tracked' \in Rows /\ tracked'.last = tracked.last
  BY DEF Finish, IInv, TypeOK
<1> QED
  BY <1>1, CountStep DEF Finish, At, IInv, SnapshotsAreKept

\* The calls it never counted are lost with it, the games it had yet to read are orphaned.
LEMMA CrashStep ==
  ASSUME MarketAssumption, IInv, NEW w \in Worker, Crash(w)
  PROVE  TypeOK' /\ WorkerStep(w)
<1>1. TypeOK /\ "idle" \in Labels
  BY DEF IInv, Labels
<1> DEFINE lane == IF work[w].pc \in {"past", "games"} THEN "history" ELSE Lane(w)
           u == work[w].uncounted
           h == IF At(w, "reading") THEN 1 ELSE 0
<1>2. lane \in {Lane(w), "history"} /\ lane \in Lanes /\ u \in Nat /\ h = Holds(work[w]) /\ h \in Nat
      /\ (lane # Lane(w) => u = 0 /\ h = 0)
  BY InHand DEF Holds, At, Resting
<1>3. PICK n \in UnderWay(w) :
        Spend(w, lane, n) /\ lost' = [lost EXCEPT ![lane] = @ + u + n]
  BY DEF Crash
<1>4. n \in Nat
  <2>1. Room(w, "history") \in Nat /\ work[w].room \in Nat /\ Tries \in Nat
    BY RoomBound, InHand DEF MarketAssumption
  <2>2. AtMost(Tries, work[w].room) \in Nat /\ AtMost(Tries, Room(w, "history")) \in Nat
    BY <2>1 DEF AtMost
  <2>3. UnderWay(w) \in {0 .. AtMost(Tries, work[w].room), 0 .. AtMost(Tries, Room(w, "history")), {0}}
    BY DEF UnderWay
  <2> QED
    BY <2>2, <2>3
<1>5. unused' = [unused EXCEPT ![lane] = @ + h]
  BY DEF Crash
<1> HIDE DEF lane, u, h
<1>6. Charged(w, lane, n)
  BY <1>1, <1>2, <1>3, <1>4, SpendEffect
<1>7. /\ lost' \in [Lanes -> Nat] /\ lost'[lane] = lost[lane] + u + n
      /\ \A l \in Lanes : l # lane => lost'[l] = lost[l]
  BY <1>1, <1>2, <1>3, <1>4 DEF TypeOK
<1>8. /\ unused' \in [Lanes -> Nat] /\ unused'[lane] = unused[lane] + h
      /\ \A l \in Lanes : l # lane => unused'[l] = unused[l]
  BY <1>1, <1>2, <1>5 DEF TypeOK
<1>9. Leave(w, "idle")
  BY DEF Crash, Leave, AtRest
<1>10. /\ OnlyClient(w) /\ work'[w].pc = "idle" /\ work'[w].seen = Untracked
       /\ work'[w].uncounted = 0 /\ work'[w].room = 0
  BY <1>1, <1>9, LeaveEffect
<1>11. TypeOK'
  <2>1. orphaned' \subseteq Past /\ acts' \in 0 .. MaxActs
    BY <1>1, InHand DEF Crash, Act, TypeOK, Missing, MarketAssumption
  <2> QED
    BY <1>1, <1>6, <1>7, <1>8, <1>10, <2>1 DEF TypeOK, OnlyClient, Crash, Charged
<1>12. rows' = rows /\ Holds(work'[w]) = 0
  BY <1>10 DEF Crash, Holds
<1>13. Balanced(w)
  <2>1. \A l \in Lanes \ {Lane(w)} :
          rows'[l] + lost'[l] + spent[l] + unused[l] = rows[l] + lost[l] + spent'[l] + unused'[l]
    BY <1>2, <1>4, <1>6, <1>7, <1>8, <1>12, InHand DEF Charged
  <2>2. rows'[Lane(w)] + work'[w].uncounted + lost'[Lane(w)] + spent[Lane(w)] + Holds(work[w]) + unused[Lane(w)]
         = rows[Lane(w)] + work[w].uncounted + lost[Lane(w)] + spent'[Lane(w)] + Holds(work'[w]) + unused'[Lane(w)]
    <3>1. u = work[w].uncounted
      BY DEF u
    <3>2. CASE lane = Lane(w)
      BY <1>2, <1>4, <1>6, <1>7, <1>8, <1>10, <1>12, <3>1, <3>2, InHand DEF Charged
    <3>3. CASE lane # Lane(w)
      BY <1>2, <1>6, <1>7, <1>8, <1>10, <1>12, <3>1, <3>3, InHand DEF Charged
    <3> QED
      BY <3>2, <3>3
  <2> QED
    BY <1>10, <2>1, <2>2 DEF Balanced
<1>14. KeepsShare(w)
  <2>1. lost'["background"] >= lost["background"]
    BY <1>2, <1>4, <1>7, InHand
  <2>2. ASSUME w \in Background
        PROVE  /\ made'[w] <= Share + lost'["background"]
               /\ made'[w] <= rows["background"] + lost'["background"]
    <3>1. /\ made[w] + work[w].room <= Share + lost["background"]
          /\ made[w] + Holds(work[w]) <= rows["background"] + work[w].uncounted + lost["background"]
      BY <2>2 DEF IInv, RoomInShare
    <3>2. Lane(w) = "background" /\ u = work[w].uncounted
      BY <2>2, InHand DEF u
    <3>3. CASE lane = "background"
      <4>1. made'[w] = made[w] + n /\ lost'["background"] = lost["background"] + u + n
        BY <1>6, <1>7, <3>3 DEF Charged
      <4> QED
        BY <1>2, <1>4, <2>2, <3>1, <3>2, <4>1, InHand
    <3>4. CASE lane # "background"
      <4>1. made' = made /\ lost'["background"] = lost["background"] /\ u = 0
        BY <1>2, <1>6, <1>7, <3>2, <3>4, InHand DEF Charged
      <4> QED
        BY <1>2, <2>2, <3>1, <3>2, <4>1, InHand
    <3> QED
      BY <3>3, <3>4
  <2>3. \A v \in Background : v # w => made'[v] = made[v]
    BY <1>6 DEF Charged
  <2>4. w \in Background => made'[w] \in Nat
    BY <1>6 DEF Charged
  <2> QED
    BY <1>7, <1>10, <1>12, <2>1, <2>2, <2>3, <2>4, InHand DEF KeepsShare
<1>15. KeepsSnapshots(w)
  BY <1>1, <1>10, SnapshotsAsTheyWere DEF IInv, SnapshotsAreKept, Crash
<1>16. KeepsGames(w)
  BY DEF KeepsGames, IInv, GamesAreListed, Listed, Crash, Missing
<1> QED
  BY <1>10, <1>11, <1>13, <1>14, <1>15, <1>16 DEF WorkerStep

LEMMA WorkersKeepInv ==
  ASSUME MarketAssumption, IInv, NEW w \in Worker,
         \/ Begin(w) \/ Enroll(w) \/ ReadRow(w) \/ ReadGroups(w) \/ Route(w)
         \/ Search(w) \/ Found(w) \/ NotFound(w)
         \/ OpenPoll(w) \/ Prompt(w) \/ Stats(w) \/ Poll(w) \/ CountPoll(w) \/ Threw(w)
         \/ SearchPast(w) \/ CutShort(w) \/ ReadPast(w) \/ EndPast(w)
         \/ Reserve(w) \/ ReadListings(w) \/ Finish(w)
         \/ Crash(w)
  PROVE  IInv'
<1>1. TypeOK' /\ WorkerStep(w)
  BY BeginStep, EnrollStep, ReadRowStep, ReadGroupsStep, RouteStep, SearchStep, FoundStep,
     NotFoundStep, OpenPollStep, PromptStep, StatsStep, StoreStep, MarkStep, CountPollStep,
     ThrewStep, SearchPastStep, CutShortStep, ReadPastStep, EndPastStep, ReserveStep,
     ReadListingsStep, FinishStep, CrashStep DEF Poll
<1> QED
  BY <1>1, InvStep

-----------------------------------------------------------------------------
(* The world, and the day. *)

\* Nothing of the tracker's changes but what was stored, and where it went.
LEMMA WorldStep ==
  ASSUME IInv, TypeOK', UNCHANGED <<rows, work, spent, made, lossVars, cutOff, orphaned, searches>>,
         tracked'.last = tracked.last,
         held \cup purged \subseteq held' \cup purged',
         history \cup leftOut \subseteq history' \cup leftOut'
  PROVE  IInv'
<1>1. Accounts'
  BY DEF IInv, Accounts, CallsCountOnce, Settled, InFlight, CallsOf, Reserved, At, Lane
<1>2. RoomInShare'
  BY DEF IInv, RoomInShare
<1>3. SnapshotsAreKept'
  <2>1. \A s : Kept(s) => Kept(s)'
    BY DEF Kept
  <2>2. Stored(tracked.last)' /\ \A w \in Worker : Stored(work[w].seen.last)'
    BY <2>1 DEF IInv, SnapshotsAreKept, Stored
  <2>3. \A w \in Worker : work[w].pc \in {"store", "mark"} => NoGap(work[w])'
    BY <2>1 DEF IInv, SnapshotsAreKept, NoGap
  <2> QED
    BY <2>2, <2>3 DEF IInv, SnapshotsAreKept
<1>4. GamesAreListed'
  BY DEF IInv, GamesAreListed, Listed
<1> QED
  BY <1>1, <1>2, <1>3, <1>4 DEF IInv

LEMMA OutsideKeepsInv ==
  ASSUME MarketAssumption, IInv, Publish \/ WorldChanges \/ FallsDue \/ Purge
  PROVE  IInv'
<1>1. TypeOK
  BY DEF IInv
<1>2. Act => acts' \in 0 .. MaxActs
  BY <1>1 DEF Act, TypeOK, MarketAssumption
<1>3. CASE Publish \/ WorldChanges
  <2>1. world' \in [published : 0 .. MaxSnapshots, licence : BOOLEAN, open : BOOLEAN, began : BOOLEAN]
    <3>1. MaxSnapshots \in Nat
      BY DEF MarketAssumption
    <3>2. CASE Publish
      BY <1>1, <3>1, <3>2 DEF Publish, TypeOK
    <3>3. CASE WorldChanges
      BY <1>1, <3>3 DEF WorldChanges, TypeOK
    <3> QED
      BY <1>3, <3>2, <3>3
  <2>2. TypeOK'
    BY <1>1, <1>2, <1>3, <2>1 DEF Publish, WorldChanges, TypeOK
  <2> QED
    BY <1>3, <2>2, WorldStep DEF Publish, WorldChanges
<1>4. CASE FallsDue
  <2>1. tracked' \in Rows /\ tracked'.last = tracked.last
    BY <1>1, <1>4 DEF FallsDue, TypeOK, Rows
  <2>2. TypeOK'
    BY <1>1, <1>2, <1>4, <2>1 DEF FallsDue, TypeOK
  <2> QED
    BY <1>4, <2>1, <2>2, WorldStep DEF FallsDue
<1>5. CASE Purge
  <2>1. TypeOK'
    BY <1>1, <1>5 DEF Purge, TypeOK
  <2> QED
    BY <1>5, <2>1, WorldStep DEF Purge
<1> QED
  BY <1>3, <1>4, <1>5

LEMMA AtRestType ==
  ASSUME MarketAssumption
  PROVE  AtRest \in Clients /\ AtRest.seen.last = 0 /\ Holds(AtRest) = 0
<1>1. [AtRest EXCEPT !.pc = "idle"] = AtRest /\ "idle" \in Labels
  BY DEF AtRest, Labels
<1> QED
  BY <1>1, RestType DEF AtRest, Holds

\* At midnight the rows count nothing, and what was called and not counted is the new day's.
LEMMA NewDayKeepsInv ==
  ASSUME MarketAssumption, IInv, NewDay
  PROVE  IInv'
<1>1. TypeOK /\ IsFiniteSet(Worker)
  BY DEF IInv, MarketAssumption
<1>2. AtRest \in Clients
  BY AtRestType
<1>3. \A w \in Worker :
        work'[w] = IF work[w].pc \in {"reading", "finish"} THEN AtRest ELSE work[w]
  BY DEF NewDay
<1>4. work' \in [Worker -> Clients]
  BY <1>1, <1>2 DEF NewDay, TypeOK
<1>5. \A l \in Lanes : InFlight(l)' \in Nat
  <2> SUFFICES ASSUME NEW l \in Lanes PROVE InFlight(l)' \in Nat
    OBVIOUS
  <2>1. Clientele(l) \in SUBSET Worker
    BY DEF Clientele
  <2> QED
    BY <1>1, <1>4, <2>1, InFlightIsOf, CallsAreFinite
<1>6. /\ rows' \in [Lanes -> Nat] /\ lost' \in [Lanes -> Nat] /\ unused' \in [Lanes -> Nat]
      /\ \A l \in Lanes : rows'[l] = 0 /\ lost'[l] = 0 /\ unused'[l] = 0
  BY DEF NewDay, NoCalls
<1>7. spent' \in [Lanes -> Nat] /\ \A l \in Lanes : spent'[l] = InFlight(l)'
  <2>1. spent' = [l \in Lanes |-> InFlight(l)']
    BY DEF NewDay
  <2> QED
    BY <1>5, <2>1
<1>8. made' \in [Background -> Nat] /\ \A w \in Background : made'[w] = work'[w].uncounted
  <2>1. \A w \in Background : work'[w].uncounted \in Nat
    BY <1>4 DEF MarketAssumption, Clients
  <2> QED
    BY <2>1 DEF NewDay
<1>9. acts' \in 0 .. MaxActs
  BY <1>1 DEF NewDay, Act, TypeOK, MarketAssumption
<1>10. TypeOK'
  BY <1>1, <1>4, <1>6, <1>7, <1>8, <1>9 DEF TypeOK, NewDay
<1>11. \A l \in Lanes : Reserved(l)' = 0
  <2> SUFFICES ASSUME NEW l \in Lanes PROVE Reserved(l)' = 0
    OBVIOUS
  <2>1. Readers(work', l) = {}
    BY <1>3 DEF Readers, AtRest
  <2> QED
    BY <2>1, ReservedIsOf, FS_EmptySet
<1>12. Accounts'
  <2>1. Settled'
    BY <1>3 DEF Settled, IInv, Accounts, AtRest
  <2> QED
    BY <1>5, <1>6, <1>7, <1>11, <2>1 DEF Accounts, CallsCountOnce
<1>13. RoomInShare'
  <2> SUFFICES ASSUME NEW w \in Background
               PROVE  /\ work'[w].uncounted + work'[w].room <= Share
                      /\ Holds(work'[w]) = 0
    <3>1. "background" \in Lanes /\ Share \in Nat
      BY DEF Lanes, MarketAssumption
    <3>2. \A w \in Background : work'[w].uncounted \in Nat /\ work'[w].room \in Nat
      BY <1>4 DEF MarketAssumption, Clients
    <3>3. \A w \in Background : Holds(work[w])' = Holds(work'[w])
      BY DEF Holds
    <3> QED
      BY <1>6, <1>8, <3>1, <3>2, <3>3 DEF RoomInShare
  <2>1. w \in Worker /\ Share \in Nat
    BY DEF MarketAssumption
  <2>2. CASE work'[w] = AtRest
    BY <2>1, <2>2, AtRestType DEF AtRest
  <2>3. CASE work[w].pc \notin {"reading", "finish"} /\ work'[w] = work[w]
    BY <2>1, <2>3 DEF IInv, RoomInShare, Holds
  <2> QED
    BY <1>3, <2>1, <2>2, <2>3
<1>14. SnapshotsAreKept'
  <2>1. \A s : Kept(s) => Kept(s)'
    BY DEF Kept, NewDay
  <2>2. Stored(tracked.last)'
    BY <2>1 DEF SnapshotsAreKept, Stored, IInv, NewDay
  <2> SUFFICES ASSUME NEW w \in Worker
               PROVE  /\ Stored(work[w].seen.last)'
                      /\ work'[w].pc \in {"store", "mark"} => NoGap(work[w])'
                      /\ work'[w].pc = "mark" => work'[w].got \subseteq held' \cup purged'
    BY <2>2 DEF SnapshotsAreKept
  <2>3. CASE work'[w] = AtRest
    BY <2>3, AtRestType DEF AtRest, Stored
  <2>4. CASE work'[w] = work[w]
    <3>1. Stored(work[w].seen.last)'
      BY <2>1, <2>4 DEF IInv, SnapshotsAreKept, Stored
    <3>2. work[w].pc \in {"store", "mark"} => NoGap(work[w])'
      BY <2>1, <2>4 DEF IInv, SnapshotsAreKept, NoGap
    <3> QED
      BY <2>4, <3>1, <3>2 DEF IInv, SnapshotsAreKept, NewDay
  <2> QED
    BY <1>3, <2>3, <2>4
<1>15. GamesAreListed'
  BY <1>3 DEF GamesAreListed, Listed, IInv, NewDay
<1> QED
  BY <1>10, <1>12, <1>13, <1>14, <1>15 DEF IInv

-----------------------------------------------------------------------------
(* The theorems. *)

LEMMA InvInit == MarketAssumption /\ Init => IInv
<1> SUFFICES ASSUME MarketAssumption, Init PROVE IInv
  OBVIOUS
<1>1. AtRest \in Clients /\ Untracked \in Rows /\ Untracked.last = 0
  BY RestType, AtRestType
<1>2. work = [w \in Worker |-> AtRest] /\ \A w \in Worker : work[w] = AtRest
  BY DEF Init
<1>3. \A l \in Lanes : rows[l] = 0 /\ spent[l] = 0 /\ lost[l] = 0 /\ unused[l] = 0
  BY DEF Init, NoCalls
<1>4. TypeOK
  <2>1. world \in [published : 0 .. MaxSnapshots, licence : BOOLEAN, open : BOOLEAN, began : BOOLEAN]
    <3>1. world \in [published : 0 .. MaxSnapshots, licence : {TRUE}, open : BOOLEAN, began : {FALSE}]
      BY DEF Init
    <3> QED
      BY <3>1
  <2>2. /\ rows \in [Lanes -> Nat] /\ spent \in [Lanes -> Nat] /\ searches \in [Worker -> Statuses]
        /\ lost \in [Lanes -> Nat] /\ unused \in [Lanes -> Nat] /\ made \in [Background -> Nat]
    BY DEF Init, NoCalls, Statuses
  <2>3. acts \in 0 .. MaxActs
    BY DEF Init, MarketAssumption
  <2> QED
    BY <1>1, <1>2, <2>1, <2>2, <2>3 DEF Init, TypeOK
<1>5. \A l \in Lanes : InFlight(l) = 0 /\ Reserved(l) = 0
  <2> SUFFICES ASSUME NEW l \in Lanes PROVE InFlight(l) = 0 /\ Reserved(l) = 0
    OBVIOUS
  <2>1. Calls(work, Clientele(l)) = {}
    BY <1>2 DEF Calls, Clientele, AtRest
  <2>2. Readers(work, l) = {}
    BY <1>2 DEF Readers, AtRest
  <2> QED
    BY <2>1, <2>2, InFlightIsOf, ReservedIsOf, FS_EmptySet
<1>6. Accounts
  BY <1>2, <1>3, <1>5 DEF Accounts, CallsCountOnce, Settled, AtRest
<1>7. RoomInShare
  <2>1. \A w \in Background : work[w] = AtRest /\ made[w] = 0
    BY <1>2 DEF Init, MarketAssumption
  <2> QED
    BY <1>3, <2>1, AtRestType DEF RoomInShare, AtRest, MarketAssumption, Lanes
<1>8. SnapshotsAreKept
  BY <1>1, <1>2 DEF SnapshotsAreKept, Stored, AtRest, Init
<1>9. GamesAreListed
  BY DEF GamesAreListed, Init
<1> QED
  BY <1>4, <1>6, <1>7, <1>8, <1>9 DEF IInv

LEMMA InvNext == MarketAssumption /\ IInv /\ [Next]_vars => IInv'
<1> SUFFICES ASSUME MarketAssumption, IInv, [Next]_vars PROVE IInv'
  OBVIOUS
<1>1. CASE UNCHANGED vars
  BY <1>1, WorldStep DEF vars, IInv, TypeOK
<1>2. CASE Next
  BY <1>2, WorkersKeepInv, OutsideKeepsInv, NewDayKeepsInv DEF Next
<1> QED
  BY <1>1, <1>2

\* The inductive invariant: the types, the accounts of every lane, the room of each background
\* worker within the share, and what a poll and a search of past games may not pass over.
THEOREM MarketInvariant == Spec => []IInv
<1>1. Init => IInv
  BY MarketAssumption, InvInit
<1>2. IInv /\ [Next]_vars => IInv'
  BY MarketAssumption, InvNext
<1> QED
  BY <1>1, <1>2, PTL DEF Spec

LEMMA ShareIsKept ==
  ASSUME MarketAssumption, IInv
  PROVE  BackgroundKeepsToItsShare
<1> SUFFICES ASSUME NEW w \in Background PROVE made[w] <= Share + lost["background"]
  BY DEF BackgroundKeepsToItsShare
<1>1. made[w] \in Nat /\ work[w].room \in Nat /\ lost["background"] \in Nat /\ Share \in Nat
  BY InHand DEF MarketAssumption
<1>2. made[w] + work[w].room <= Share + lost["background"]
  BY DEF IInv, RoomInShare
<1> QED
  BY <1>1, <1>2

\* Every paid call is counted once, retries and failures included, or died with its client;
\* and the hourly pass and each price watch call no more than the background's share of the
\* day beyond those, whatever runs beside them (api, callsLeft, log, reserve and finish).
THEOREM AllowanceHolds == Spec => []AllowanceInv
<1>1. IInv => AllowanceInv
  BY MarketAssumption, ShareIsKept DEF IInv, Accounts, AllowanceInv
<1> QED
  BY <1>1, MarketInvariant, PTL

\* No snapshot up to the one the row remembers was passed over but by the cut of an answer,
\* and no past game of a search that succeeded but by a failure of its own or the death of
\* its back-fill (poll, storeSeriesPoints, backfillHistory).
THEOREM NothingPassedOver == Spec => []NothingIsPassedOver
<1>1. IInv => NothingIsPassedOver
  <2> SUFFICES ASSUME IInv PROVE NothingIsPassedOver
    OBVIOUS
  <2>1. NoSnapshotIsPassedOver
    BY DEF IInv, SnapshotsAreKept, Stored, Kept, NoSnapshotIsPassedOver
  <2>2. NoGameIsForgotten
    BY DEF IInv, GamesAreListed, Listed, NoGameIsForgotten, At
  <2> QED
    BY <2>1, <2>2 DEF NothingIsPassedOver
<1> QED
  BY <1>1, MarketInvariant, PTL

=============================================================================
