----------------------------- MODULE Budget_proofs -----------------------------
(***************************************************************************)
(* Proofs about module Budget, for every number of dispatchers, requests   *)
(* and revisions, every limit and every estimate.                          *)
(***************************************************************************)
EXTENDS Budget, FiniteSetTheorems, TLAPS

USE DEF pastVars

-----------------------------------------------------------------------------
(* The inductive invariant. *)

\* The lock: one reservation of a request at a time.
OneReserver ==
  \A v, w \in Worker :
    /\ work[v].pc \in Reserving /\ work[w].pc \in Reserving
    /\ work[v].scope[1] = work[w].scope[1]
    => v = w

\* The workers that hold an open row of a day, that are calling, that are about to give a
\* reservation back, and that found room in a day.
Holders(f, s, d) == {w \in Worker : f[w].pc \in {"call", "settle"} /\ f[w].scope = s /\ f[w].day = d}
Callers(f, s) == {w \in Worker : f[w].pc = "call" /\ f[w].scope = s}
Givers(f, s) == {w \in Worker : f[w].pc = "release" /\ f[w].scope = s}
Admitted(f, d) == {w \in Worker : f[w].pc = "insert" /\ f[w].day = d}

RowsAreHeld == \A s \in Scope, d \in Day : Cardinality(Holders(work, s, d)) <= ledger[s][d].open
CallsAreMade == \A s \in Scope : Cardinality(Callers(work, s)) <= made[s]

\* The books of a day begin with the day.
NothingAhead ==
  /\ \A s \in Scope, d \in Day : d > today => ledger[s][d] = NoRows /\ excess[s][d] = 0
  /\ \A w \in Worker : work[w].day <= today

\* Under the lock there is room for the estimate that is about to be written.
RoomInHard ==
  \A w \in Worker, s \in Scope :
    work[w].pc \in Reserving /\ work[w].scope = s => SpentOn(s) + Est <= Hard + Sum(excess[s])

\* What a day's books took beyond the estimates.
Beyond(k) == Sum([s \in Scope |-> excess[s][k]])

\* The day's books, with the estimates of those that found room in it.
RoomInDay ==
  \A k \in Day : k = today =>
    SpentSince(k) + Est * Cardinality(Admitted(work, k))
      <= Daily + Est * (Cardinality(Request) - 1) + Beyond(k)

Held == RowsAreHeld /\ CallsAreMade
Booked == EveryCallCountsOnce /\ NothingAhead
Limits == SpendWithinHard /\ RoomInHard /\ RoomInDay
IInv == TypeOK /\ OneReserver /\ Held /\ Booked /\ Limits

-----------------------------------------------------------------------------
(* Sums, and what one changed value does to them. *)

LEMMA UnitsOfOne ==
  ASSUME NEW x, NEW n \in Nat
  PROVE  IsFiniteSet({x} \X (1 .. n)) /\ Cardinality({x} \X (1 .. n)) = n
<1> DEFINE X == {x}
           N == 1 .. n
<1>1. IsFiniteSet(X) /\ Cardinality(X) = 1
  BY FS_Singleton
<1>2. IsFiniteSet(N) /\ Cardinality(N) = n
  BY FS_Interval
<1> HIDE DEF X, N
<1>3. /\ IsFiniteSet(X \X N) /\ Cardinality(X \X N) = Cardinality(X) * Cardinality(N)
  BY <1>1, <1>2, FS_Product
<1>4. Cardinality(X \X N) = n
  BY <1>1, <1>2, <1>3
<1> QED
  BY <1>3, <1>4 DEF X, N

Units(f, S) == UNION {{x} \X (1 .. f[x]) : x \in S}

LEMMA UnitsAreFinite ==
  ASSUME NEW S, IsFiniteSet(S), NEW f, \A x \in S : f[x] \in Nat
  PROVE  IsFiniteSet(Units(f, S)) /\ Cardinality(Units(f, S)) \in Nat
<1> DEFINE sets == {{x} \X (1 .. f[x]) : x \in S}
           g == [x \in S |-> {x} \X (1 .. f[x])]
<1>1. g \in Surjection(S, sets)
  BY DEF Surjection
<1>2. IsFiniteSet(sets)
  BY <1>1, FS_Surjection
<1>3. \A T \in sets : IsFiniteSet(T)
  <2> SUFFICES ASSUME NEW x \in S PROVE IsFiniteSet({x} \X (1 .. f[x]))
    OBVIOUS
  <2> QED
    BY UnitsOfOne
<1>4. IsFiniteSet(UNION sets)
  BY <1>2, <1>3, FS_UNION
<1> QED
  BY <1>4, FS_CardinalityType DEF Units

LEMMA UnitsWithout ==
  ASSUME NEW S, IsFiniteSet(S), NEW f, \A x \in S : f[x] \in Nat, NEW a \in S
  PROVE  /\ Cardinality(Units(f, S)) = Cardinality(Units(f, S \ {a})) + f[a]
         /\ Cardinality(Units(f, S \ {a})) \in Nat
<1> DEFINE rest == Units(f, S \ {a})
           own == {a} \X (1 .. f[a])
<1>1. IsFiniteSet(own) /\ Cardinality(own) = f[a]
  BY UnitsOfOne
<1>2. IsFiniteSet(S \ {a})
  BY FS_RemoveElement
<1>3. IsFiniteSet(rest) /\ Cardinality(rest) \in Nat
  BY <1>2, UnitsAreFinite
<1>4. Units(f, S) = rest \cup own /\ rest \cap own = {}
  BY DEF Units
<1>5. Cardinality(rest \cap own) = 0
  BY <1>4, FS_EmptySet
<1> HIDE DEF rest, own
<1>6. Cardinality(rest \cup own) = Cardinality(rest) + Cardinality(own) - Cardinality(rest \cap own)
  BY <1>1, <1>3, FS_Union
<1> QED
  BY <1>1, <1>3, <1>4, <1>5, <1>6 DEF rest

LEMMA SumType ==
  ASSUME NEW S, IsFiniteSet(S), NEW f \in [S -> Nat]
  PROVE  Sum(f) \in Nat /\ Sum(f) = Cardinality(Units(f, S))
<1>1. DOMAIN f = S /\ \A x \in S : f[x] \in Nat
  OBVIOUS
<1>2. Sum(f) = Cardinality(Units(f, S))
  BY <1>1 DEF Sum, Units
<1>3. Cardinality(Units(f, S)) \in Nat
  BY <1>1, UnitsAreFinite
<1> QED
  BY <1>2, <1>3

LEMMA SumOfNone ==
  ASSUME NEW S, NEW f \in [S -> Nat], \A x \in S : f[x] = 0
  PROVE  Sum(f) = 0
<1>1. Units(f, S) = {}
  BY DEF Units
<1> QED
  BY <1>1, FS_EmptySet DEF Sum, Units

LEMMA SumStep ==
  ASSUME NEW S, IsFiniteSet(S), NEW f \in [S -> Nat], NEW g \in [S -> Nat], NEW a \in S,
         \A x \in S : x # a => g[x] = f[x]
  PROVE  /\ Sum(f) \in Nat /\ Sum(g) \in Nat
         /\ Sum(g) = Sum(f) - f[a] + g[a]
<1>1. Units(g, S \ {a}) = Units(f, S \ {a})
  BY DEF Units
<1>2. /\ Cardinality(Units(f, S)) = Cardinality(Units(f, S \ {a})) + f[a]
      /\ Cardinality(Units(f, S \ {a})) \in Nat
  BY UnitsWithout
<1>3. Cardinality(Units(g, S)) = Cardinality(Units(g, S \ {a})) + g[a]
  BY UnitsWithout
<1>4. /\ Sum(f) \in Nat /\ Sum(f) = Cardinality(Units(f, S))
      /\ Sum(g) \in Nat /\ Sum(g) = Cardinality(Units(g, S))
  BY SumType
<1>5. f[a] \in Nat /\ g[a] \in Nat
  OBVIOUS
<1> QED
  BY <1>1, <1>2, <1>3, <1>4, <1>5

\* A finite set counts as many without w, and w itself.
LEMMA CountWithout ==
  ASSUME NEW S, IsFiniteSet(S), NEW w
  PROVE  /\ Cardinality(S) \in Nat /\ Cardinality(S \ {w}) \in Nat
         /\ Cardinality(S) = Cardinality(S \ {w}) + (IF w \in S THEN 1 ELSE 0)
<1>1. IsFiniteSet(S \ {w})
  BY FS_RemoveElement
<1>2. Cardinality(S) \in Nat /\ Cardinality(S \ {w}) \in Nat
  BY <1>1, FS_CardinalityType
<1>3. CASE w \in S
  <2>1. Cardinality(S \ {w}) = Cardinality(S) - 1
    BY <1>3, FS_RemoveElement
  <2> QED
    BY <1>2, <1>3, <2>1
<1>4. CASE w \notin S
  <2>1. S \ {w} = S
    BY <1>4
  <2> QED
    BY <1>2, <1>4, <2>1
<1> QED
  BY <1>3, <1>4

\* A set of workers that only w may join or leave.
LEMMA CountStep ==
  ASSUME IsFiniteSet(Worker), NEW A \in SUBSET Worker, NEW B \in SUBSET Worker, NEW w \in Worker,
         A \ {w} = B \ {w}
  PROVE  /\ Cardinality(A) \in Nat /\ Cardinality(B) \in Nat
         /\ Cardinality(A) + (IF w \in B THEN 1 ELSE 0) = Cardinality(B) + (IF w \in A THEN 1 ELSE 0)
<1>1. IsFiniteSet(A) /\ IsFiniteSet(B)
  BY FS_Subset
<1>2. /\ Cardinality(A) \in Nat /\ Cardinality(A \ {w}) \in Nat
      /\ Cardinality(A) = Cardinality(A \ {w}) + (IF w \in A THEN 1 ELSE 0)
  BY <1>1, CountWithout
<1>3. /\ Cardinality(B) \in Nat
      /\ Cardinality(B) = Cardinality(B \ {w}) + (IF w \in B THEN 1 ELSE 0)
  BY <1>1, CountWithout
<1>4. Cardinality(A \ {w}) = Cardinality(B \ {w})
  OBVIOUS
<1> QED
  BY <1>2, <1>3, <1>4

-----------------------------------------------------------------------------
(* The books, and what one changed row does to them. *)

Net(r) == Spend(r) - Refunds(r)
Counted(r) == r.open + r.settled - r.released

LEMMA RowType ==
  ASSUME BudgetAssumption, NEW r \in Row
  PROVE  /\ r.open \in Nat /\ r.settled \in Nat /\ r.spent \in Nat /\ r.released \in Nat
         /\ r.open + r.settled \in Nat /\ Spend(r) \in Nat /\ Refunds(r) \in Nat
         /\ Net(r) \in Int /\ Counted(r) \in Int
<1>1. r.open \in Nat /\ r.settled \in Nat /\ r.spent \in Nat /\ r.released \in Nat
  BY DEF Row
<1>2. \A n \in Nat : n * Est \in Nat
  BY DEF BudgetAssumption
<1>3. Spend(r) \in Nat /\ Refunds(r) \in Nat
  BY <1>1, <1>2 DEF Spend, Refunds
<1> QED
  BY <1>1, <1>3 DEF Net, Counted

LEMMA Finite ==
  ASSUME BudgetAssumption
  PROVE  /\ IsFiniteSet(Worker) /\ IsFiniteSet(Day) /\ IsFiniteSet(Scope)
         /\ \A k \in Day : IsFiniteSet(Scope \X (k .. Days))
<1>1. IsFiniteSet(Scope)
  BY FS_Product DEF BudgetAssumption, Scope
<1>2. IsFiniteSet(Day)
  BY FS_Interval DEF BudgetAssumption, Day
<1>3. ASSUME NEW k \in Day PROVE IsFiniteSet(Scope \X (k .. Days))
  <2>1. IsFiniteSet(k .. Days)
    BY FS_Interval DEF BudgetAssumption, Day
  <2> QED
    BY <1>1, <2>1, FS_Product
<1> QED
  BY <1>1, <1>2, <1>3 DEF BudgetAssumption

\* A step that writes one row of the books at most.
OnlyRow(s, d) ==
  /\ ledger' \in [Scope -> [Day -> Row]]
  /\ \A t \in Scope, e \in Day : t # s \/ e # d => ledger'[t][e] = ledger[t][e]

LEMMA SpentOnStep ==
  ASSUME BudgetAssumption, TypeOK, NEW s \in Scope, NEW d \in Day, OnlyRow(s, d), NEW t \in Scope
  PROVE  /\ SpentOn(t) \in Int /\ SpentOn(t)' \in Int
         /\ SpentOn(t)' = IF t = s THEN SpentOn(t) + Net(ledger'[s][d]) - Net(ledger[s][d])
                           ELSE SpentOn(t)
<1> DEFINE f == [e \in Day |-> Spend(ledger[t][e])]
           g == [e \in Day |-> Spend(ledger'[t][e])]
           p == [e \in Day |-> Refunds(ledger[t][e])]
           q == [e \in Day |-> Refunds(ledger'[t][e])]
<1>1. \A e \in Day : ledger[t][e] \in Row /\ ledger'[t][e] \in Row
  BY DEF TypeOK, OnlyRow
<1>2. /\ f \in [Day -> Nat] /\ g \in [Day -> Nat] /\ p \in [Day -> Nat] /\ q \in [Day -> Nat]
  BY <1>1, RowType
<1>3. \A e \in Day : e # d => g[e] = f[e] /\ q[e] = p[e]
  BY DEF OnlyRow
<1>4. t # s => g[d] = f[d] /\ q[d] = p[d]
  BY DEF OnlyRow
<1>5. /\ f[d] = Spend(ledger[t][d]) /\ g[d] = Spend(ledger'[t][d])
      /\ p[d] = Refunds(ledger[t][d]) /\ q[d] = Refunds(ledger'[t][d])
  OBVIOUS
<1>6. SpentOn(t) = Sum(f) - Sum(p) /\ SpentOn(t)' = Sum(g) - Sum(q)
  BY DEF SpentOn, Spend, Refunds
<1> HIDE DEF f, g, p, q
<1>7. Sum(f) \in Nat /\ Sum(g) \in Nat /\ Sum(g) = Sum(f) - f[d] + g[d]
  BY <1>2, <1>3, Finite, SumStep
<1>8. Sum(p) \in Nat /\ Sum(q) \in Nat /\ Sum(q) = Sum(p) - p[d] + q[d]
  BY <1>2, <1>3, Finite, SumStep
<1>9. /\ f[d] \in Nat /\ g[d] \in Nat /\ p[d] \in Nat /\ q[d] \in Nat
  BY <1>2
<1> QED
  BY <1>4, <1>5, <1>6, <1>7, <1>8, <1>9 DEF Net

LEMMA CallsStep ==
  ASSUME BudgetAssumption, TypeOK, NEW s \in Scope, NEW d \in Day, OnlyRow(s, d), NEW t \in Scope
  PROVE  /\ Calls(t) \in Int /\ Calls(t)' \in Int
         /\ Calls(t)' = IF t = s THEN Calls(t) + Counted(ledger'[s][d]) - Counted(ledger[s][d])
                         ELSE Calls(t)
<1> DEFINE f == [e \in Day |-> ledger[t][e].open + ledger[t][e].settled]
           g == [e \in Day |-> ledger'[t][e].open + ledger'[t][e].settled]
           p == [e \in Day |-> ledger[t][e].released]
           q == [e \in Day |-> ledger'[t][e].released]
<1>1. \A e \in Day : ledger[t][e] \in Row /\ ledger'[t][e] \in Row
  BY DEF TypeOK, OnlyRow
<1>2. /\ f \in [Day -> Nat] /\ g \in [Day -> Nat] /\ p \in [Day -> Nat] /\ q \in [Day -> Nat]
  BY <1>1, RowType
<1>3. \A e \in Day : e # d => g[e] = f[e] /\ q[e] = p[e]
  BY DEF OnlyRow
<1>4. t # s => g[d] = f[d] /\ q[d] = p[d]
  BY DEF OnlyRow
<1>5. /\ f[d] = ledger[t][d].open + ledger[t][d].settled
      /\ g[d] = ledger'[t][d].open + ledger'[t][d].settled
      /\ p[d] = ledger[t][d].released /\ q[d] = ledger'[t][d].released
  OBVIOUS
<1>6. Calls(t) = Sum(f) - Sum(p) /\ Calls(t)' = Sum(g) - Sum(q)
  BY DEF Calls
<1> HIDE DEF f, g, p, q
<1>7. Sum(f) \in Nat /\ Sum(g) \in Nat /\ Sum(g) = Sum(f) - f[d] + g[d]
  BY <1>2, <1>3, Finite, SumStep
<1>8. Sum(p) \in Nat /\ Sum(q) \in Nat /\ Sum(q) = Sum(p) - p[d] + q[d]
  BY <1>2, <1>3, Finite, SumStep
<1>9. /\ f[d] \in Nat /\ g[d] \in Nat /\ p[d] \in Nat /\ q[d] \in Nat
  BY <1>2
<1>10. /\ Counted(ledger[t][d]) = f[d] - p[d] /\ Counted(ledger'[t][d]) = g[d] - q[d]
  <2>1. ledger[t][d] \in Row /\ ledger'[t][d] \in Row
    BY <1>1
  <2> QED
    BY <1>5, <1>9, <2>1, RowType DEF Counted
<1> QED
  BY <1>4, <1>6, <1>7, <1>8, <1>9, <1>10

LEMMA SpentSinceStep ==
  ASSUME BudgetAssumption, TypeOK, NEW s \in Scope, NEW d \in Day, OnlyRow(s, d), NEW k \in Day
  PROVE  /\ SpentSince(k) \in Int /\ SpentSince(k)' \in Int
         /\ SpentSince(k)' = IF d >= k THEN SpentSince(k) + Net(ledger'[s][d]) - Net(ledger[s][d])
                              ELSE SpentSince(k)
<1> DEFINE D == Scope \X (k .. Days)
           a == <<s, d>>
           f == [x \in D |-> Spend(ledger[x[1]][x[2]])]
           g == [x \in D |-> Spend(ledger'[x[1]][x[2]])]
           p == [x \in D |-> Refunds(ledger[x[1]][x[2]])]
           q == [x \in D |-> Refunds(ledger'[x[1]][x[2]])]
<1>1. \A x \in D : x[1] \in Scope /\ x[2] \in Day /\ x = <<x[1], x[2]>>
  BY DEF Day, BudgetAssumption
<1>2. \A x \in D : ledger[x[1]][x[2]] \in Row /\ ledger'[x[1]][x[2]] \in Row
  BY <1>1 DEF TypeOK, OnlyRow
<1>3. /\ f \in [D -> Nat] /\ g \in [D -> Nat] /\ p \in [D -> Nat] /\ q \in [D -> Nat]
  BY <1>2, RowType
<1>4. \A x \in D : x # a => g[x] = f[x] /\ q[x] = p[x]
  BY <1>1 DEF OnlyRow
<1>5. SpentSince(k) = Sum(f) - Sum(p) /\ SpentSince(k)' = Sum(g) - Sum(q)
  BY DEF SpentSince, Spend, Refunds
<1>6. IsFiniteSet(D)
  BY Finite
<1>7. CASE d >= k
  <2>1. a \in D
    BY <1>7 DEF Day, BudgetAssumption
  <2>2. /\ f[a] = Spend(ledger[s][d]) /\ g[a] = Spend(ledger'[s][d])
        /\ p[a] = Refunds(ledger[s][d]) /\ q[a] = Refunds(ledger'[s][d])
    BY <2>1
  <2>3. /\ f[a] \in Nat /\ g[a] \in Nat /\ p[a] \in Nat /\ q[a] \in Nat
    BY <1>3, <2>1
  <2> HIDE DEF D, a, f, g, p, q
  <2>4. Sum(f) \in Nat /\ Sum(g) \in Nat /\ Sum(g) = Sum(f) - f[a] + g[a]
    BY <1>3, <1>4, <1>6, <2>1, SumStep
  <2>5. Sum(p) \in Nat /\ Sum(q) \in Nat /\ Sum(q) = Sum(p) - p[a] + q[a]
    BY <1>3, <1>4, <1>6, <2>1, SumStep
  <2> QED
    BY <1>5, <1>7, <2>2, <2>3, <2>4, <2>5 DEF Net
<1>8. CASE ~(d >= k)
  <2>1. \A x \in D : x # a
    BY <1>1, <1>8 DEF Day, BudgetAssumption
  <2>2. g = f /\ q = p
    BY <1>3, <1>4, <2>1
  <2>3. Sum(f) \in Nat /\ Sum(p) \in Nat
    <3> HIDE DEF D, f, p
    <3> QED
      BY <1>3, <1>6, SumType
  <2> QED
    BY <1>5, <1>8, <2>2, <2>3
<1> QED
  BY <1>7, <1>8

\* A step that writes one of the excesses at most.
OnlyExcess(s, d) ==
  /\ excess' \in [Scope -> [Day -> Nat]]
  /\ \A t \in Scope, e \in Day : t # s \/ e # d => excess'[t][e] = excess[t][e]

LEMMA ExcessStep ==
  ASSUME BudgetAssumption, TypeOK, NEW s \in Scope, NEW d \in Day, OnlyExcess(s, d)
  PROVE  /\ \A t \in Scope :
              /\ Sum(excess[t]) \in Nat /\ Sum(excess'[t]) \in Nat
              /\ Sum(excess'[t]) = IF t = s THEN Sum(excess[s]) - excess[s][d] + excess'[s][d]
                                   ELSE Sum(excess[t])
         /\ \A k \in Day :
              /\ Beyond(k) \in Nat /\ Beyond(k)' \in Nat
              /\ Beyond(k)' = IF d = k THEN Beyond(k) - excess[s][d] + excess'[s][d] ELSE Beyond(k)
<1>1. ASSUME NEW t \in Scope
      PROVE  /\ Sum(excess[t]) \in Nat /\ Sum(excess'[t]) \in Nat
             /\ Sum(excess'[t]) = IF t = s THEN Sum(excess[s]) - excess[s][d] + excess'[s][d]
                                  ELSE Sum(excess[t])
  <2>1. excess[t] \in [Day -> Nat] /\ excess'[t] \in [Day -> Nat]
    BY DEF TypeOK, OnlyExcess
  <2>2. \A e \in Day : e # d => excess'[t][e] = excess[t][e]
    BY DEF OnlyExcess
  <2>3. /\ Sum(excess[t]) \in Nat /\ Sum(excess'[t]) \in Nat
        /\ Sum(excess'[t]) = Sum(excess[t]) - excess[t][d] + excess'[t][d]
    BY <2>1, <2>2, Finite, SumStep
  <2>4. t # s => excess'[t][d] = excess[t][d]
    BY DEF OnlyExcess
  <2>5. excess[t][d] \in Nat /\ excess'[t][d] \in Nat
    BY <2>1
  <2> QED
    BY <2>3, <2>4, <2>5
<1>2. ASSUME NEW k \in Day
      PROVE  /\ Beyond(k) \in Nat /\ Beyond(k)' \in Nat
             /\ Beyond(k)' = IF d = k THEN Beyond(k) - excess[s][d] + excess'[s][d] ELSE Beyond(k)
  <2> DEFINE f == [t \in Scope |-> excess[t][k]]
             g == [t \in Scope |-> excess'[t][k]]
  <2>1. f \in [Scope -> Nat] /\ g \in [Scope -> Nat]
    BY DEF TypeOK, OnlyExcess
  <2>2. \A t \in Scope : t # s => g[t] = f[t]
    BY DEF OnlyExcess
  <2>3. f[s] = excess[s][k] /\ g[s] = excess'[s][k] /\ (d # k => g[s] = f[s])
    BY DEF OnlyExcess
  <2>4. f[s] \in Nat /\ g[s] \in Nat
    BY <2>1
  <2> HIDE DEF f, g
  <2>5. Sum(f) \in Nat /\ Sum(g) \in Nat /\ Sum(g) = Sum(f) - f[s] + g[s]
    BY <2>1, <2>2, Finite, SumStep
  <2>6. /\ Sum(f) \in Nat /\ Sum(g) \in Nat
        /\ Sum(g) = IF d = k THEN Sum(f) - excess[s][d] + excess'[s][d] ELSE Sum(f)
    BY <2>3, <2>4, <2>5
  <2> QED
    BY <2>6 DEF f, g, Beyond
<1> QED
  BY <1>1, <1>2

-----------------------------------------------------------------------------
(* What the operations share: one worker moves on. *)

OnlyWorker(w) ==
  work' \in [Worker -> Job] /\ \A v \in Worker : v # w => work'[v] = work[v]

LEMMA RestType ==
  ASSUME BudgetAssumption
  PROVE  AtRest \in Job /\ AtRest.pc = "idle" /\ AtRest.day = 0
<1>1. \E s : s \in Scope
  <2>1. PICK r \in Request, v \in Revision : TRUE
    BY DEF BudgetAssumption
  <2>2. <<r, v>> \in Scope
    BY DEF Scope
  <2> QED
    BY <2>2
<1>2. (CHOOSE s \in Scope : TRUE) \in Scope
  BY <1>1
<1>3. 0 \in Day /\ 0 \in 0 .. MaxTries
  BY DEF BudgetAssumption, Day
<1> QED
  BY <1>2, <1>3 DEF AtRest, Job, Labels, Kinds

\* Done with a call: at rest, at the next call, or at the event's next attempt.
Away(w) ==
  /\ OnlyWorker(w) /\ ended' \in [Worker -> Ends]
  /\ work'[w].pc \in {"idle", "ask", "judge", "handoff"} /\ work'[w].day = 0

LEMMA EndAway ==
  ASSUME BudgetAssumption, TypeOK, NEW w \in Worker, NEW how \in Ends, End(w, how)
  PROVE  Away(w)
<1>1. AtRest \in Job /\ AtRest.pc = "idle" /\ AtRest.day = 0
  BY RestType
<1>2. OnlyWorker(w) /\ work'[w] = AtRest
  BY <1>1 DEF End, TypeOK, OnlyWorker
<1>3. ended' \in [Worker -> Ends]
  BY DEF End, TypeOK
<1> QED
  BY <1>1, <1>2, <1>3 DEF Away

LEMMA JobParts ==
  ASSUME NEW j \in Job
  PROVE  /\ j.pc \in Labels /\ j.kind \in Kinds /\ j.scope \in Scope /\ j.day \in Day
         /\ j.left \in Nat /\ j.tries \in 0 .. MaxTries
  BY DEF Job

LEMMA AnotherAway ==
  ASSUME BudgetAssumption, TypeOK, NEW w \in Worker, Another(w), work[w].left > 1
  PROVE  Away(w)
<1>1. work[w] \in Job /\ work[w].left - 1 \in Nat /\ 0 \in Day /\ "ask" \in Labels
  BY JobParts DEF TypeOK, BudgetAssumption, Day, Labels
<1> DEFINE j == [work[w] EXCEPT !.pc = "ask", !.left = work[w].left - 1, !.day = 0]
<1>2. work' = [work EXCEPT ![w] = j] /\ ended' = ended
  BY <1>1 DEF Another, TypeOK, Job
<1>3. j \in Job /\ j.pc = "ask" /\ j.day = 0
  BY <1>1 DEF Job
<1> HIDE DEF j
<1>4. OnlyWorker(w) /\ work'[w] = j
  BY <1>2, <1>3 DEF TypeOK, OnlyWorker
<1> QED
  BY <1>2, <1>3, <1>4 DEF Away, TypeOK

LEMMA MoreOrEndAway ==
  ASSUME BudgetAssumption, TypeOK, NEW w \in Worker, NEW how \in Ends, MoreOrEnd(w, how)
  PROVE  Away(w)
  BY EndAway, AnotherAway DEF MoreOrEnd

LEMMA AgainAway ==
  ASSUME BudgetAssumption, TypeOK, NEW w \in Worker, Again(w)
  PROVE  Away(w)
<1> DEFINE first == First(work[w].kind)
           left == CallsOf(work[w].kind)
           tries == IF work[w].tries < MaxTries THEN work[w].tries + 1 ELSE work[w].tries
           j == [work[w] EXCEPT !.tries = tries, !.pc = first, !.left = left, !.day = 0]
<1>1. work[w] \in Job /\ tries \in 0 .. MaxTries /\ 0 \in Day
  BY JobParts DEF TypeOK, BudgetAssumption, Day
<1>2. first \in Labels /\ first \in {"ask", "judge"} /\ left \in Nat
  BY DEF First, CallsOf, Labels, BudgetAssumption
<1>3. work' = [work EXCEPT ![w] = j] /\ ended' = ended
  BY DEF Again, TypeOK, Job
<1> HIDE DEF first, left, tries
<1>4. j \in Job /\ j.pc = first /\ j.day = 0
  BY <1>1, <1>2 DEF Job
<1> HIDE DEF j
<1>5. OnlyWorker(w) /\ work'[w] = j
  BY <1>3, <1>4 DEF TypeOK, OnlyWorker
<1> QED
  BY <1>2, <1>3, <1>4, <1>5 DEF Away, TypeOK

LEMMA ThrowAway ==
  ASSUME BudgetAssumption, TypeOK, NEW w \in Worker, Throw(w)
  PROVE  Away(w)
<1>1. CASE work[w].tries + 1 < MaxTries
  BY <1>1, AgainAway DEF Throw
<1>2. CASE ~(work[w].tries + 1 < MaxTries)
  <2> DEFINE j == [work[w] EXCEPT !.pc = "handoff", !.day = 0]
  <2>1. work[w] \in Job /\ 0 \in Day
    BY JobParts DEF TypeOK, BudgetAssumption, Day
  <2>2. work' = [work EXCEPT ![w] = j] /\ ended' = ended
    BY <1>2 DEF Throw, TypeOK, Job
  <2>3. j \in Job /\ j.pc = "handoff" /\ j.day = 0
    BY <2>1 DEF Job, Labels
  <2> HIDE DEF j
  <2>4. OnlyWorker(w) /\ work'[w] = j
    BY <2>2, <2>3 DEF TypeOK, OnlyWorker
  <2> QED
    BY <2>2, <2>3, <2>4 DEF Away, TypeOK
<1> QED
  BY <1>1, <1>2

LEMMA OverBudgetAway ==
  ASSUME BudgetAssumption, TypeOK, NEW w \in Worker, OverBudget(w)
  PROVE  Away(w)
  BY EndAway DEF OverBudget, Ends

LEMMA GotoEffect ==
  ASSUME TypeOK, NEW w \in Worker, NEW label \in Labels, Goto(w, label)
  PROVE  /\ OnlyWorker(w)
         /\ work'[w].pc = label /\ work'[w].scope = work[w].scope /\ work'[w].day = work[w].day
  BY DEF Goto, TypeOK, OnlyWorker, Job

-----------------------------------------------------------------------------
(* What a step of one worker must show, invariant by invariant. *)

Is(b) == IF b THEN 1 ELSE 0

KeepsLock(w) ==
  work'[w].pc \in Reserving =>
    /\ work'[w].scope = work[w].scope
    /\ work[w].pc \in Reserving \/ ~Locked(w)

LEMMA LockStep ==
  ASSUME OneReserver, NEW w \in Worker, OnlyWorker(w), KeepsLock(w)
  PROVE  OneReserver'
<1> SUFFICES ASSUME NEW u \in Worker, NEW v \in Worker, u # v,
                    work'[u].pc \in Reserving, work'[v].pc \in Reserving,
                    work'[u].scope[1] = work'[v].scope[1]
             PROVE  FALSE
  BY DEF OneReserver
<1>1. CASE u # w /\ v # w
  BY <1>1 DEF OneReserver, OnlyWorker
<1>2. CASE u = w
  <2>1. work'[v] = work[v] /\ work'[w].scope = work[w].scope
    BY <1>2 DEF OnlyWorker, KeepsLock
  <2> QED
    BY <1>2, <2>1 DEF OneReserver, KeepsLock, Locked
<1>3. CASE v = w
  <2>1. work'[u] = work[u] /\ work'[w].scope = work[w].scope
    BY <1>3 DEF OnlyWorker, KeepsLock
  <2> QED
    BY <1>3, <2>1 DEF OneReserver, KeepsLock, Locked
<1> QED
  BY <1>1, <1>2, <1>3

KeepsHeld(w) ==
  /\ \A s \in Scope, d \in Day :
       ledger'[s][d].open + Is(w \in Holders(work, s, d))
         >= ledger[s][d].open + Is(w \in Holders(work', s, d))
  /\ \A s \in Scope :
       made'[s] + Is(w \in Callers(work, s)) >= made[s] + Is(w \in Callers(work', s))

LEMMA HeldStep ==
  ASSUME BudgetAssumption, TypeOK, TypeOK', Held, NEW w \in Worker, OnlyWorker(w), KeepsHeld(w)
  PROVE  Held'
<1>1. IsFiniteSet(Worker)
  BY DEF BudgetAssumption
<1>2. ASSUME NEW s \in Scope, NEW d \in Day
      PROVE  Cardinality(Holders(work', s, d)) <= ledger'[s][d].open
  <2> DEFINE A == Holders(work, s, d)
             B == Holders(work', s, d)
  <2>1. A \in SUBSET Worker /\ B \in SUBSET Worker /\ A \ {w} = B \ {w}
    BY DEF Holders, OnlyWorker
  <2>2. /\ ledger'[s][d].open + Is(w \in A) >= ledger[s][d].open + Is(w \in B)
        /\ Cardinality(A) <= ledger[s][d].open
    BY DEF KeepsHeld, Held, RowsAreHeld
  <2>3. ledger[s][d].open \in Nat /\ ledger'[s][d].open \in Nat
    BY DEF TypeOK, Row
  <2> HIDE DEF A, B
  <2>4. /\ Cardinality(A) \in Nat /\ Cardinality(B) \in Nat
        /\ Cardinality(A) + (IF w \in B THEN 1 ELSE 0) = Cardinality(B) + (IF w \in A THEN 1 ELSE 0)
    BY <1>1, <2>1, CountStep
  <2>5. Cardinality(B) <= ledger'[s][d].open
    BY <2>2, <2>3, <2>4 DEF Is
  <2> QED
    BY <2>5 DEF B
<1>3. ASSUME NEW s \in Scope PROVE Cardinality(Callers(work', s)) <= made'[s]
  <2> DEFINE A == Callers(work, s)
             B == Callers(work', s)
  <2>1. A \in SUBSET Worker /\ B \in SUBSET Worker /\ A \ {w} = B \ {w}
    BY DEF Callers, OnlyWorker
  <2>2. /\ made'[s] + Is(w \in A) >= made[s] + Is(w \in B)
        /\ Cardinality(A) <= made[s]
    BY DEF KeepsHeld, Held, CallsAreMade
  <2>3. made[s] \in Nat /\ made'[s] \in Nat
    BY DEF TypeOK
  <2> HIDE DEF A, B
  <2>4. /\ Cardinality(A) \in Nat /\ Cardinality(B) \in Nat
        /\ Cardinality(A) + (IF w \in B THEN 1 ELSE 0) = Cardinality(B) + (IF w \in A THEN 1 ELSE 0)
    BY <1>1, <2>1, CountStep
  <2>5. Cardinality(B) <= made'[s]
    BY <2>2, <2>3, <2>4 DEF Is
  <2> QED
    BY <2>5 DEF B
<1> QED
  BY <1>2, <1>3 DEF Held, RowsAreHeld, CallsAreMade, Holders, Callers

KeepsBooks(w) ==
  \A s \in Scope :
    /\ Calls(s) \in Int /\ Calls(s)' \in Int
    /\ Calls(s)' + made[s] + Is(w \in Givers(work, s)) = Calls(s) + made'[s] + Is(w \in Givers(work', s))

LEMMA BooksStep ==
  ASSUME BudgetAssumption, TypeOK, TypeOK', EveryCallCountsOnce, NEW w \in Worker, OnlyWorker(w),
         KeepsBooks(w)
  PROVE  EveryCallCountsOnce'
<1> SUFFICES ASSUME NEW s \in Scope PROVE Calls(s)' = Placed(s)'
  BY DEF EveryCallCountsOnce
<1> DEFINE A == Givers(work, s)
           B == Givers(work', s)
<1>1. A \in SUBSET Worker /\ B \in SUBSET Worker /\ A \ {w} = B \ {w}
  BY DEF Givers, OnlyWorker
<1>2. Placed(s) = made[s] + Cardinality(A) /\ Placed(s)' = made'[s] + Cardinality(B)
  BY DEF Placed, Givers, At
<1>3. /\ Calls(s) = Placed(s) /\ Calls(s) \in Int /\ Calls(s)' \in Int
      /\ Calls(s)' + made[s] + Is(w \in A) = Calls(s) + made'[s] + Is(w \in B)
  BY DEF EveryCallCountsOnce, KeepsBooks
<1>4. made[s] \in Nat /\ made'[s] \in Nat
  BY DEF TypeOK
<1> HIDE DEF A, B
<1>5. /\ Cardinality(A) \in Nat /\ Cardinality(B) \in Nat
      /\ Cardinality(A) + (IF w \in B THEN 1 ELSE 0) = Cardinality(B) + (IF w \in A THEN 1 ELSE 0)
  BY <1>1, CountStep DEF BudgetAssumption
<1> QED
  BY <1>2, <1>3, <1>4, <1>5 DEF Is

KeepsHard(w) ==
  /\ \A s \in Scope :
       /\ SpentOn(s) \in Int /\ SpentOn(s)' \in Int
       /\ Sum(excess[s]) \in Nat /\ Sum(excess'[s]) \in Nat
       /\ \/ SpentOn(s)' + Sum(excess[s]) <= SpentOn(s) + Sum(excess'[s])
          \/ /\ s = work[w].scope /\ work[w].pc = "insert" /\ work'[w].pc \notin Reserving
             /\ SpentOn(s)' = SpentOn(s) + Est /\ Sum(excess'[s]) = Sum(excess[s])
  /\ work'[w].pc \in Reserving =>
       /\ work'[w].scope = work[w].scope
       /\ \/ work[w].pc \in Reserving
          \/ \A s \in Scope : s = work[w].scope => SpentOn(s) + Est <= Hard + Sum(excess[s])

LEMMA HardStep ==
  ASSUME BudgetAssumption, TypeOK, OneReserver, SpendWithinHard, RoomInHard,
         NEW w \in Worker, OnlyWorker(w), KeepsHard(w)
  PROVE  SpendWithinHard' /\ RoomInHard'
<1>1. Est \in Nat /\ Hard \in Nat
  BY DEF BudgetAssumption
<1>2. work[w].pc = "insert" => work[w].pc \in Reserving
  BY DEF Reserving
<1>3. \A v \in Worker : work[v].scope \in Scope
  BY DEF TypeOK, Job
<1>4. ASSUME NEW s \in Scope PROVE SpentOn(s)' <= Hard + Sum(excess'[s])
  <2>1. SpentOn(s) <= Hard + Sum(excess[s])
    BY DEF SpendWithinHard
  <2>2. s = work[w].scope /\ work[w].pc = "insert" => SpentOn(s) + Est <= Hard + Sum(excess[s])
    BY <1>2 DEF RoomInHard
  <2> QED
    BY <1>1, <2>1, <2>2 DEF KeepsHard
<1>5. ASSUME NEW v \in Worker, NEW s \in Scope, work'[v].pc \in Reserving, work'[v].scope = s
      PROVE  SpentOn(s)' + Est <= Hard + Sum(excess'[s])
  <2>1. work[v].scope = s
    BY <1>5 DEF OnlyWorker, KeepsHard
  <2>2. SpentOn(s) + Est <= Hard + Sum(excess[s])
    BY <1>5, <2>1 DEF OnlyWorker, KeepsHard, RoomInHard
  <2>3. SpentOn(s)' + Sum(excess[s]) <= SpentOn(s) + Sum(excess'[s])
    <3>1. CASE v = w
      BY <1>5, <3>1 DEF KeepsHard
    <3>2. CASE v # w
      <4>1. work[v].pc \in Reserving
        BY <1>5, <3>2 DEF OnlyWorker
      <4>2. ~(s = work[w].scope /\ work[w].pc = "insert")
        BY <1>2, <2>1, <3>2, <4>1 DEF OneReserver
      <4> QED
        BY <4>2 DEF KeepsHard
    <3> QED
      BY <3>1, <3>2
  <2>4. /\ SpentOn(s) \in Int /\ SpentOn(s)' \in Int
        /\ Sum(excess[s]) \in Nat /\ Sum(excess'[s]) \in Nat
    BY DEF KeepsHard
  <2> QED
    BY <1>1, <2>2, <2>3, <2>4
<1>6. SpendWithinHard'
  BY <1>4 DEF SpendWithinHard
<1>7. RoomInHard'
  BY <1>5 DEF RoomInHard
<1> QED
  BY <1>6, <1>7

LEMMA EstTimes ==
  ASSUME BudgetAssumption
  PROVE  \A m, n \in Int :
           /\ Est * n \in Int /\ Est * (n + 1) = Est * n + Est /\ Est * (n - 1) = Est * n - Est
           /\ m <= n => Est * m <= Est * n
           /\ n >= 0 => Est * n >= 0
<1> SUFFICES ASSUME NEW m \in Int, NEW n \in Int
             PROVE  /\ Est * n \in Int /\ Est * (n + 1) = Est * n + Est
                    /\ Est * (n - 1) = Est * n - Est
                    /\ m <= n => Est * m <= Est * n
                    /\ n >= 0 => Est * n >= 0
  OBVIOUS
<1>1. Est \in Nat
  BY DEF BudgetAssumption
<1>2. Est * n \in Int /\ Est * (n + 1) = Est * n + Est /\ Est * (n - 1) = Est * n - Est
  BY <1>1
<1>3. n >= 0 => Est * n >= 0
  BY <1>1
<1>4. ASSUME m <= n PROVE Est * m <= Est * n
  <2>1. n - m \in Nat /\ n = m + (n - m)
    BY <1>4
  <2>2. \A i \in Nat : Est * i >= 0 /\ Est * (m + i) = Est * m + Est * i
    BY <1>1
  <2>3. Est * n = Est * m + Est * (n - m) /\ Est * (n - m) >= 0
    BY <2>1, <2>2
  <2> QED
    BY <1>1, <2>1, <2>3
<1> QED
  BY <1>2, <1>3, <1>4

\* Those that found room in a day hold the locks of different requests.
LEMMA AdmittedBound ==
  ASSUME BudgetAssumption, TypeOK, OneReserver, NEW k \in Day
  PROVE  /\ Cardinality(Admitted(work, k)) \in Nat /\ Cardinality(Request) \in Nat
         /\ Cardinality(Admitted(work, k)) <= Cardinality(Request)
<1> DEFINE A == Admitted(work, k)
           f == [w \in A |-> work[w].scope[1]]
<1>1. A \in SUBSET Worker
  BY DEF Admitted
<1>2. IsFiniteSet(A) /\ IsFiniteSet(Request)
  BY <1>1, FS_Subset DEF BudgetAssumption
<1>3. Cardinality(A) \in Nat /\ Cardinality(Request) \in Nat
  BY <1>2, FS_CardinalityType
<1>4. \A w \in A : work[w].pc \in Reserving /\ work[w].scope[1] \in Request
  BY <1>1 DEF Admitted, Reserving, TypeOK, Job, Scope
<1>5. \A v, w \in A : work[v].scope[1] = work[w].scope[1] => v = w
  BY <1>1, <1>4 DEF OneReserver
<1>6. f \in Injection(A, Request)
  BY <1>4, <1>5 DEF Injection, IsInjective
<1> HIDE DEF A, f
<1>7. Cardinality(A) <= Cardinality(Request)
  BY <1>2, <1>6, FS_Injection
<1> QED
  BY <1>3, <1>7 DEF A

KeepsDay(w) ==
  \A k \in Day : k = today =>
    /\ SpentSince(k) \in Int /\ SpentSince(k)' \in Int
    /\ Beyond(k) \in Nat /\ Beyond(k)' \in Nat
    /\ \/ /\ SpentSince(k)' + Beyond(k) <= SpentSince(k) + Beyond(k)'
          /\ w \in Admitted(work', k) => w \in Admitted(work, k)
       \/ /\ SpentSince(k)' = SpentSince(k) + Est /\ Beyond(k)' = Beyond(k)
          /\ w \in Admitted(work, k) /\ w \notin Admitted(work', k)
       \/ /\ SpentSince(k)' = SpentSince(k) /\ Beyond(k)' = Beyond(k)
          /\ SpentSince(k) + Est <= Daily

LEMMA DayStep ==
  ASSUME BudgetAssumption, TypeOK, TypeOK', OneReserver', RoomInDay, today' = today,
         NEW w \in Worker, OnlyWorker(w), KeepsDay(w)
  PROVE  RoomInDay'
<1> SUFFICES ASSUME NEW k \in Day, k = today
             PROVE  SpentSince(k)' + Est * Cardinality(Admitted(work', k))
                      <= Daily + Est * (Cardinality(Request) - 1) + Beyond(k)'
  BY DEF RoomInDay, Admitted
<1> DEFINE A == Admitted(work, k)
           B == Admitted(work', k)
           m == Cardinality(A)
           n == Cardinality(B)
           r == Cardinality(Request)
<1>1. Est \in Nat /\ Daily \in Nat
  BY DEF BudgetAssumption
<1>2. A \in SUBSET Worker /\ B \in SUBSET Worker /\ A \ {w} = B \ {w}
  BY DEF Admitted, OnlyWorker
<1>3. n \in Nat /\ r \in Nat /\ n <= r
  <2>1. BudgetAssumption /\ (TypeOK /\ OneReserver)'
    OBVIOUS
  <2>2. (/\ Cardinality(Admitted(work, k)) \in Nat /\ Cardinality(Request) \in Nat
         /\ Cardinality(Admitted(work, k)) <= Cardinality(Request))'
    BY <2>1, AdmittedBound, PTL
  <2> QED
    BY <2>2 DEF Admitted
<1>4. SpentSince(k) + Est * m <= Daily + Est * (r - 1) + Beyond(k)
  BY DEF RoomInDay
<1>5. /\ SpentSince(k) \in Int /\ SpentSince(k)' \in Int
      /\ Beyond(k) \in Nat /\ Beyond(k)' \in Nat
  BY DEF KeepsDay
<1>6. \/ /\ SpentSince(k)' + Beyond(k) <= SpentSince(k) + Beyond(k)' /\ (w \in B => w \in A)
      \/ /\ SpentSince(k)' = SpentSince(k) + Est /\ Beyond(k)' = Beyond(k)
         /\ w \in A /\ w \notin B
      \/ /\ SpentSince(k)' = SpentSince(k) /\ SpentSince(k) + Est <= Daily
  BY DEF KeepsDay
<1> HIDE DEF A, B
<1>7. m \in Nat /\ m + (IF w \in B THEN 1 ELSE 0) = n + (IF w \in A THEN 1 ELSE 0)
  BY <1>2, CountStep DEF BudgetAssumption
<1> HIDE DEF m, n, r
<1>8. /\ Est * m \in Int /\ Est * n \in Int /\ Est * (r - 1) \in Int
      /\ n <= m => Est * n <= Est * m
      /\ m = n + 1 => Est * m = Est * n + Est
      /\ Est * (n - 1) = Est * n - Est /\ Est * (n - 1) <= Est * (r - 1)
  BY <1>3, <1>7, EstTimes
<1>9. SpentSince(k)' + Est * n <= Daily + Est * (r - 1) + Beyond(k)'
  <2>1. CASE SpentSince(k)' + Beyond(k) <= SpentSince(k) + Beyond(k)' /\ (w \in B => w \in A)
    <3>1. n <= m
      BY <1>3, <1>7, <2>1
    <3> QED
      BY <1>1, <1>4, <1>5, <1>8, <2>1, <3>1
  <2>2. CASE /\ SpentSince(k)' = SpentSince(k) + Est /\ Beyond(k)' = Beyond(k)
             /\ w \in A /\ w \notin B
    <3>1. m = n + 1
      BY <1>3, <1>7, <2>2
    <3> QED
      BY <1>1, <1>4, <1>5, <1>8, <2>2, <3>1
  <2>3. CASE SpentSince(k)' = SpentSince(k) /\ SpentSince(k) + Est <= Daily
    <3>1. Est * n - Est <= Est * (r - 1)
      BY <1>8
    <3> QED
      BY <1>1, <1>5, <1>8, <2>3, <3>1
  <2> QED
    BY <1>6, <2>1, <2>2, <2>3
<1> QED
  BY <1>9 DEF B, n, r

-----------------------------------------------------------------------------
(* A step of one worker that writes at most one row of the books. *)

History ==
  /\ today' = today /\ over' = over
  /\ ended' \in [Worker -> Ends] /\ made' \in [Scope -> Nat]
  /\ begun' \in 0 .. MaxWork /\ faults' \in 0 .. MaxFaults

\* What the step adds to the books of revision s on day d.
Adds(s, d, net, calls, extra) ==
  /\ Net(ledger'[s][d]) = Net(ledger[s][d]) + net
  /\ Counted(ledger'[s][d]) = Counted(ledger[s][d]) + calls
  /\ excess'[s][d] = excess[s][d] + extra

LEMMA Effect ==
  ASSUME BudgetAssumption, TypeOK, NEW s \in Scope, NEW d \in Day, OnlyRow(s, d), OnlyExcess(s, d),
         NEW net \in Int, NEW calls \in Int, NEW extra \in Nat, Adds(s, d, net, calls, extra)
  PROVE  /\ \A t \in Scope :
              /\ SpentOn(t) \in Int /\ SpentOn(t)' = SpentOn(t) + (IF t = s THEN net ELSE 0)
              /\ Calls(t) \in Int /\ Calls(t)' = Calls(t) + (IF t = s THEN calls ELSE 0)
              /\ Sum(excess[t]) \in Nat
              /\ Sum(excess'[t]) = Sum(excess[t]) + (IF t = s THEN extra ELSE 0)
         /\ \A k \in Day :
              /\ SpentSince(k) \in Int
              /\ SpentSince(k)' = SpentSince(k) + (IF d >= k THEN net ELSE 0)
              /\ Beyond(k) \in Nat /\ Beyond(k)' = Beyond(k) + (IF d = k THEN extra ELSE 0)
<1>1. ledger[s][d] \in Row /\ ledger'[s][d] \in Row
  BY DEF TypeOK, OnlyRow
<1>2. /\ Net(ledger[s][d]) \in Int /\ Counted(ledger[s][d]) \in Int
      /\ Net(ledger'[s][d]) \in Int /\ Counted(ledger'[s][d]) \in Int
  BY <1>1, RowType
<1>3. excess[s][d] \in Nat /\ excess'[s][d] \in Nat
  BY DEF TypeOK, OnlyExcess
<1>4. /\ Net(ledger'[s][d]) = Net(ledger[s][d]) + net
      /\ Counted(ledger'[s][d]) = Counted(ledger[s][d]) + calls
      /\ excess'[s][d] = excess[s][d] + extra
  BY DEF Adds
<1>5. ASSUME NEW t \in Scope
      PROVE  /\ SpentOn(t) \in Int /\ SpentOn(t)' = SpentOn(t) + (IF t = s THEN net ELSE 0)
             /\ Calls(t) \in Int /\ Calls(t)' = Calls(t) + (IF t = s THEN calls ELSE 0)
             /\ Sum(excess[t]) \in Nat
             /\ Sum(excess'[t]) = Sum(excess[t]) + (IF t = s THEN extra ELSE 0)
  <2>1. /\ SpentOn(t) \in Int
        /\ SpentOn(t)' = IF t = s THEN SpentOn(t) + Net(ledger'[s][d]) - Net(ledger[s][d])
                          ELSE SpentOn(t)
    BY SpentOnStep
  <2>2. /\ Calls(t) \in Int
        /\ Calls(t)' = IF t = s THEN Calls(t) + Counted(ledger'[s][d]) - Counted(ledger[s][d])
                        ELSE Calls(t)
    BY CallsStep
  <2>3. /\ Sum(excess[t]) \in Nat
        /\ Sum(excess'[t]) = IF t = s THEN Sum(excess[s]) - excess[s][d] + excess'[s][d]
                              ELSE Sum(excess[t])
    BY ExcessStep
  <2> QED
    BY <1>2, <1>3, <1>4, <2>1, <2>2, <2>3
<1>6. ASSUME NEW k \in Day
      PROVE  /\ SpentSince(k) \in Int
             /\ SpentSince(k)' = SpentSince(k) + (IF d >= k THEN net ELSE 0)
             /\ Beyond(k) \in Nat /\ Beyond(k)' = Beyond(k) + (IF d = k THEN extra ELSE 0)
  <2>1. /\ SpentSince(k) \in Int
        /\ SpentSince(k)' = IF d >= k THEN SpentSince(k) + Net(ledger'[s][d]) - Net(ledger[s][d])
                             ELSE SpentSince(k)
    BY SpentSinceStep
  <2>2. /\ Beyond(k) \in Nat
        /\ Beyond(k)' = IF d = k THEN Beyond(k) - excess[s][d] + excess'[s][d] ELSE Beyond(k)
    BY ExcessStep
  <2> QED
    BY <1>2, <1>3, <1>4, <2>1, <2>2
<1> QED
  BY <1>5, <1>6

LEMMA WorkerStep ==
  ASSUME BudgetAssumption, IInv, NEW w \in Worker, OnlyWorker(w), History,
         NEW s \in Scope, NEW d \in Day, d <= today, OnlyRow(s, d), OnlyExcess(s, d),
         work'[w].day <= today,
         KeepsLock(w), KeepsHeld(w), KeepsBooks(w), KeepsHard(w), KeepsDay(w)
  PROVE  IInv'
<1> USE DEF IInv, Booked, Limits
<1>1. TypeOK'
  <2>1. today \in Day
    BY DEF TypeOK
  <2> QED
    BY <2>1 DEF TypeOK, History, OnlyRow, OnlyExcess, OnlyWorker
<1>2. OneReserver'
  BY LockStep
<1>3. Held'
  BY <1>1, HeldStep
<1>4. EveryCallCountsOnce'
  BY <1>1, BooksStep
<1>5. NothingAhead'
  <2>1. today' = today /\ today \in Int /\ Day \subseteq Int
    BY DEF TypeOK, History, Day, BudgetAssumption
  <2>2. ASSUME NEW t \in Scope, NEW e \in Day, e > today
        PROVE  ledger'[t][e] = NoRows /\ excess'[t][e] = 0
    <3>1. e # d
      BY <2>1, <2>2
    <3> QED
      BY <2>2, <3>1 DEF NothingAhead, OnlyRow, OnlyExcess
  <2>3. \A v \in Worker : work'[v].day <= today
    BY DEF NothingAhead, OnlyWorker
  <2> QED
    BY <2>1, <2>2, <2>3 DEF NothingAhead, NoRows
<1>6. SpendWithinHard' /\ RoomInHard'
  BY HardStep
<1>7. RoomInDay'
  BY <1>1, <1>2, DayStep DEF History
<1> QED
  BY <1>1, <1>2, <1>3, <1>4, <1>5, <1>6, <1>7

\* A step that leaves the books alone.
LEMMA QuietBooks ==
  ASSUME BudgetAssumption, TypeOK, ledger' = ledger, excess' = excess
  PROVE  /\ \A t \in Scope :
              /\ SpentOn(t) \in Int /\ SpentOn(t)' = SpentOn(t)
              /\ Calls(t) \in Int /\ Calls(t)' = Calls(t)
              /\ Sum(excess[t]) \in Nat /\ Sum(excess'[t]) = Sum(excess[t])
         /\ \A k \in Day :
              /\ SpentSince(k) \in Int /\ SpentSince(k)' = SpentSince(k)
              /\ Beyond(k) \in Nat /\ Beyond(k)' = Beyond(k)
<1>1. PICK s : s \in Scope
  <2>1. AtRest \in Job
    BY RestType
  <2> QED
    BY <2>1, JobParts
<1> DEFINE d == 0
<1>2. d \in Day
  BY DEF Day, BudgetAssumption
<1>3. OnlyRow(s, d) /\ OnlyExcess(s, d)
  BY DEF TypeOK, OnlyRow, OnlyExcess
<1>4. Adds(s, d, 0, 0, 0)
  <2>1. ledger[s][d] \in Row /\ excess[s][d] \in Nat
    BY <1>1, <1>2 DEF TypeOK
  <2> QED
    BY <2>1, RowType DEF Adds
<1> HIDE DEF d
<1> QED
  BY <1>1, <1>2, <1>3, <1>4, Effect

LEMMA QuietStep ==
  ASSUME BudgetAssumption, IInv, NEW w \in Worker, OnlyWorker(w), History,
         ledger' = ledger, excess' = excess, work'[w].day <= today, KeepsLock(w),
         \A s \in Scope, d \in Day : w \in Holders(work', s, d) => w \in Holders(work, s, d),
         \A s \in Scope :
           /\ made'[s] + Is(w \in Callers(work, s)) >= made[s] + Is(w \in Callers(work', s))
           /\ made[s] + Is(w \in Givers(work, s)) = made'[s] + Is(w \in Givers(work', s)),
         work'[w].pc \in Reserving =>
           \/ work[w].pc \in Reserving
           \/ \A s \in Scope : s = work[w].scope => SpentOn(s) + Est <= Hard + Sum(excess[s]),
         \A k \in Day : k = today /\ w \in Admitted(work', k) /\ w \notin Admitted(work, k) =>
           SpentSince(k) + Est <= Daily
  PROVE  IInv'
<1>1. TypeOK
  BY DEF IInv
<1>2. PICK s : s \in Scope
  BY <1>1 DEF TypeOK, Job
<1> DEFINE d == 0
<1>3. d \in Day /\ d <= today
  BY <1>1 DEF Day, BudgetAssumption, TypeOK
<1>4. OnlyRow(s, d) /\ OnlyExcess(s, d)
  BY <1>1 DEF TypeOK, OnlyRow, OnlyExcess
<1>6. /\ \A t \in Scope :
           /\ SpentOn(t) \in Int /\ SpentOn(t)' = SpentOn(t)
           /\ Calls(t) \in Int /\ Calls(t)' = Calls(t)
           /\ Sum(excess[t]) \in Nat /\ Sum(excess'[t]) = Sum(excess[t])
      /\ \A k \in Day :
           /\ SpentSince(k) \in Int /\ SpentSince(k)' = SpentSince(k)
           /\ Beyond(k) \in Nat /\ Beyond(k)' = Beyond(k)
  BY <1>1, QuietBooks
<1>7. KeepsHeld(w)
  <2>1. \A t \in Scope, e \in Day : ledger[t][e].open \in Nat
    BY <1>1 DEF TypeOK, Row
  <2> QED
    BY <2>1 DEF KeepsHeld, Is
<1>8. KeepsBooks(w)
  <2>1. \A t \in Scope : made[t] \in Nat /\ made'[t] \in Nat
    BY <1>1 DEF TypeOK, History
  <2>2. \A t \in Scope : Is(w \in Givers(work, t)) \in Nat /\ Is(w \in Givers(work', t)) \in Nat
    BY DEF Is
  <2> QED
    BY <1>6, <2>1, <2>2 DEF KeepsBooks
<1>9. KeepsHard(w)
  BY <1>6 DEF KeepsHard, KeepsLock
<1>10. KeepsDay(w)
  <2> SUFFICES ASSUME NEW k \in Day, k = today
               PROVE  \/ w \in Admitted(work', k) => w \in Admitted(work, k)
                      \/ SpentSince(k) + Est <= Daily
    BY <1>6 DEF KeepsDay
  <2> QED
    OBVIOUS
<1> QED
  BY <1>2, <1>3, <1>4, <1>7, <1>8, <1>9, <1>10, WorkerStep

\* A step by which a worker is done with a call, and the books are as they were.
LEMMA AwayStep ==
  ASSUME BudgetAssumption, IInv, NEW w \in Worker, Away(w), History,
         ledger' = ledger, excess' = excess,
         \A s \in Scope : made'[s] = made[s] + Is(w \in Givers(work, s))
  PROVE  IInv'
<1>1. OnlyWorker(w) /\ work'[w].pc \in {"idle", "ask", "judge", "handoff"} /\ work'[w].day = 0
  BY DEF Away
<1>2. work'[w].day <= today
  BY <1>1 DEF IInv, TypeOK, Day, BudgetAssumption
<1>3. work'[w].pc \notin Reserving
  BY <1>1 DEF Reserving
<1>4. KeepsLock(w)
  BY <1>3 DEF KeepsLock
<1>5. /\ \A s \in Scope, d \in Day : w \notin Holders(work', s, d)
      /\ \A s \in Scope : w \notin Callers(work', s) /\ w \notin Givers(work', s)
      /\ \A k \in Day : w \notin Admitted(work', k)
  BY <1>1 DEF Holders, Callers, Givers, Admitted
<1>6. \A s \in Scope :
        /\ made'[s] + Is(w \in Callers(work, s)) >= made[s] + Is(w \in Callers(work', s))
        /\ made[s] + Is(w \in Givers(work, s)) = made'[s] + Is(w \in Givers(work', s))
  <2>1. \A s \in Scope : made[s] \in Nat
    BY DEF IInv, TypeOK
  <2> QED
    BY <1>5, <2>1 DEF Is
<1> QED
  BY <1>1, <1>2, <1>3, <1>4, <1>5, <1>6, QuietStep

\* The same from anywhere but a release.
LEMMA LeaveStep ==
  ASSUME BudgetAssumption, IInv, NEW w \in Worker, Away(w), work[w].pc # "release",
         UNCHANGED <<ledger, today, over, made, excess>>, begun' \in 0 .. MaxWork, faults' = faults
  PROVE  IInv'
<1>1. History
  BY DEF History, Away, IInv, TypeOK
<1>2. \A s \in Scope : made'[s] = made[s] + Is(w \in Givers(work, s))
  <2>1. \A s \in Scope : made[s] \in Nat /\ w \notin Givers(work, s)
    BY DEF IInv, TypeOK, Givers
  <2> QED
    BY <2>1 DEF Is
<1> QED
  BY <1>1, <1>2, AwayStep

-----------------------------------------------------------------------------
(* The steps that leave the books alone, one by one. *)

LEMMA ReserveStep ==
  ASSUME BudgetAssumption, IInv, NEW w \in Worker, Reserve(w)
  PROVE  IInv'
<1>1. TypeOK /\ work[w] \in Job
  BY DEF IInv, TypeOK
<1>2. /\ UNCHANGED <<ledger, today, over, made, excess, begun, faults>>
      /\ work[w].pc = "ask" /\ ~Locked(w)
  BY DEF Reserve, At
<1> DEFINE s == work[w].scope
<1>3. CASE OverBudget(w)
  <2>1. Away(w)
    BY <1>1, <1>3, OverBudgetAway
  <2> QED
    BY <1>1, <1>2, <2>1, LeaveStep DEF TypeOK
<1>4. CASE /\ ~(Calls(s) + 1 > MaxCalls \/ SpentOn(s) + Est > Hard)
           /\ work' = [work EXCEPT ![w].pc = "day", ![w].day = today] /\ ended' = ended
  <2> DEFINE j == [work[w] EXCEPT !.pc = "day", !.day = today]
  <2>1. today \in Day /\ s \in Scope
    BY <1>1, JobParts DEF TypeOK
  <2>2. work' = [work EXCEPT ![w] = j]
    BY <1>1, <1>4 DEF TypeOK, Job
  <2>3. j \in Job /\ j.pc = "day" /\ j.day = today /\ j.scope = s
    BY <1>1, <2>1 DEF Job, Labels
  <2> HIDE DEF j
  <2>4. OnlyWorker(w) /\ work'[w] = j
    BY <1>1, <2>2, <2>3 DEF TypeOK, OnlyWorker
  <2>5. work'[w].pc = "day" /\ work'[w].day = today /\ work'[w].scope = s
    BY <2>3, <2>4
  <2>6. History
    BY <1>1, <1>2, <1>4 DEF History, TypeOK
  <2>7. KeepsLock(w)
    BY <1>2, <2>5 DEF KeepsLock
  <2>8. /\ \A t \in Scope, d \in Day : w \notin Holders(work', t, d)
        /\ \A t \in Scope : w \notin Callers(work', t) /\ w \notin Givers(work', t)
        /\ \A t \in Scope : w \notin Callers(work, t) /\ w \notin Givers(work, t)
        /\ \A k \in Day : w \notin Admitted(work', k)
    BY <1>2, <2>5 DEF Holders, Callers, Givers, Admitted
  <2>9. \A t \in Scope :
          /\ made'[t] + Is(w \in Callers(work, t)) >= made[t] + Is(w \in Callers(work', t))
          /\ made[t] + Is(w \in Givers(work, t)) = made'[t] + Is(w \in Givers(work', t))
    <3>1. \A t \in Scope : made[t] \in Nat /\ made'[t] = made[t]
      BY <1>1, <1>2 DEF TypeOK
    <3> QED
      BY <2>8, <3>1 DEF Is
  <2>10. SpentOn(s) + Est <= Hard + Sum(excess[s])
    <3>1. SpentOn(s) \in Int /\ Sum(excess[s]) \in Nat
      BY <1>1, <1>2, <2>1, QuietBooks
    <3> QED
      BY <1>4, <3>1 DEF BudgetAssumption
  <2>11. work'[w].day <= today
    BY <2>1, <2>5 DEF Day, BudgetAssumption
  <2> QED
    BY <1>2, <2>4, <2>6, <2>7, <2>8, <2>9, <2>10, <2>11, QuietStep
<1> QED
  BY <1>3, <1>4 DEF Reserve

LEMMA ReadDayStep ==
  ASSUME BudgetAssumption, IInv, NEW w \in Worker, ReadDay(w)
  PROVE  IInv'
<1>1. TypeOK /\ work[w] \in Job
  BY DEF IInv, TypeOK
<1>2. /\ UNCHANGED <<ledger, today, over, made, excess, begun, faults>>
      /\ work[w].pc = "day"
  BY DEF ReadDay, At
<1>3. CASE OverBudget(w)
  <2>1. Away(w)
    BY <1>1, <1>3, OverBudgetAway
  <2> QED
    BY <1>1, <1>2, <2>1, LeaveStep DEF TypeOK
<1>4. CASE ~(DayTotal(w) + Est > Daily) /\ Goto(w, "insert") /\ ended' = ended
  <2>1. /\ OnlyWorker(w) /\ work'[w].pc = "insert"
        /\ work'[w].scope = work[w].scope /\ work'[w].day = work[w].day
    BY <1>1, <1>4, GotoEffect DEF Labels
  <2>2. History
    BY <1>1, <1>2, <1>4 DEF History, TypeOK
  <2>3. KeepsLock(w) /\ work[w].pc \in Reserving
    BY <1>2, <2>1 DEF KeepsLock, Reserving
  <2>4. /\ \A t \in Scope, d \in Day : w \notin Holders(work', t, d)
        /\ \A t \in Scope : w \notin Callers(work', t) /\ w \notin Givers(work', t)
        /\ \A t \in Scope : w \notin Callers(work, t) /\ w \notin Givers(work, t)
    BY <1>2, <2>1 DEF Holders, Callers, Givers
  <2>5. \A t \in Scope :
          /\ made'[t] + Is(w \in Callers(work, t)) >= made[t] + Is(w \in Callers(work', t))
          /\ made[t] + Is(w \in Givers(work, t)) = made'[t] + Is(w \in Givers(work', t))
    <3>1. \A t \in Scope : made[t] \in Nat /\ made'[t] = made[t]
      BY <1>1, <1>2 DEF TypeOK
    <3> QED
      BY <2>4, <3>1 DEF Is
  <2>6. ASSUME NEW k \in Day, w \in Admitted(work', k) PROVE SpentSince(k) + Est <= Daily
    <3>1. work[w].day = k
      BY <2>1, <2>6 DEF Admitted
    <3>2. SpentSince(k) \in Int
      BY <1>1, <1>2, QuietBooks
    <3> QED
      BY <1>4, <3>1, <3>2 DEF DayTotal, BudgetAssumption
  <2>7. work'[w].day <= today
    BY <2>1 DEF IInv, Booked, NothingAhead
  <2> QED
    BY <1>2, <2>1, <2>2, <2>3, <2>4, <2>5, <2>6, <2>7, QuietStep
<1> QED
  BY <1>3, <1>4 DEF ReadDay

\* From a call or a check to what follows it.
LEMMA MoveStep ==
  ASSUME BudgetAssumption, IInv, NEW w \in Worker, NEW label \in {"settle", "release", "record"},
         Goto(w, label), History, ledger' = ledger, excess' = excess,
         label = "settle" => work[w].pc = "call",
         \A s \in Scope :
           /\ made'[s] + Is(w \in Callers(work, s)) >= made[s]
           /\ made[s] + Is(w \in Givers(work, s))
                = made'[s] + (IF label = "release" /\ work[w].scope = s THEN 1 ELSE 0)
  PROVE  IInv'
<1>1. TypeOK
  BY DEF IInv
<1>2. /\ OnlyWorker(w) /\ work'[w].pc = label
      /\ work'[w].scope = work[w].scope /\ work'[w].day = work[w].day
  BY <1>1, GotoEffect DEF Labels
<1>3. work'[w].pc \notin Reserving /\ KeepsLock(w)
  BY <1>2 DEF Reserving, KeepsLock
<1>4. /\ \A s \in Scope, d \in Day : w \in Holders(work', s, d) => w \in Holders(work, s, d)
      /\ \A s \in Scope : w \notin Callers(work', s)
      /\ \A s \in Scope : w \in Givers(work', s) <=> (label = "release" /\ work[w].scope = s)
      /\ \A k \in Day : w \notin Admitted(work', k)
  BY <1>2 DEF Holders, Callers, Givers, Admitted
<1>5. \A s \in Scope :
        /\ made'[s] + Is(w \in Callers(work, s)) >= made[s] + Is(w \in Callers(work', s))
        /\ made[s] + Is(w \in Givers(work, s)) = made'[s] + Is(w \in Givers(work', s))
  <2>1. \A s \in Scope : made[s] \in Nat
    BY <1>1 DEF TypeOK
  <2> QED
    BY <1>4, <2>1 DEF Is
<1>6. work'[w].day <= today
  BY <1>2 DEF IInv, Booked, NothingAhead
<1> QED
  BY <1>2, <1>3, <1>4, <1>5, <1>6, QuietStep

LEMMA AnsweredStep ==
  ASSUME BudgetAssumption, IInv, NEW w \in Worker, Answered(w)
  PROVE  IInv'
<1>1. /\ UNCHANGED <<ledger, today, ended, over, made, excess, begun, faults>>
      /\ work[w].pc = "call" /\ Goto(w, "settle")
  BY DEF Answered, At
<1>2. History
  BY <1>1 DEF History, IInv, TypeOK
<1>3. \A s \in Scope :
        /\ made'[s] + Is(w \in Callers(work, s)) >= made[s]
        /\ made[s] + Is(w \in Givers(work, s))
             = made'[s] + (IF "settle" = "release" /\ work[w].scope = s THEN 1 ELSE 0)
  <2>1. \A s \in Scope : made[s] \in Nat /\ made'[s] = made[s] /\ w \notin Givers(work, s)
    BY <1>1 DEF IInv, TypeOK, Givers
  <2> QED
    BY <2>1 DEF Is
<1> QED
  BY <1>1, <1>2, <1>3, MoveStep

LEMMA FailedStep ==
  ASSUME BudgetAssumption, IInv, NEW w \in Worker, Failed(w)
  PROVE  IInv'
<1>1. /\ UNCHANGED <<ledger, today, ended, over, excess, begun, faults>>
      /\ made' = [made EXCEPT ![work[w].scope] = @ - 1]
      /\ work[w].pc = "call" /\ Goto(w, "release")
  BY DEF Failed, At
<1> DEFINE s == work[w].scope
<1>2. TypeOK /\ s \in Scope /\ made \in [Scope -> Nat]
  BY DEF IInv, TypeOK, Job
<1>3. made[s] >= 1
  <2>1. w \in Callers(work, s)
    BY <1>1 DEF Callers
  <2> DEFINE C == Callers(work, s)
  <2>2. IsFiniteSet(C)
    BY FS_Subset DEF BudgetAssumption, Callers
  <2>3. Cardinality(C) # 0 /\ Cardinality(C) \in Nat
    <3> HIDE DEF C
    <3> QED
      BY <2>1, <2>2, FS_EmptySet, FS_CardinalityType DEF C
  <2>4. Cardinality(C) <= made[s]
    BY <1>2 DEF IInv, Held, CallsAreMade
  <2> QED
    BY <1>2, <2>3, <2>4
<1>4. /\ made' \in [Scope -> Nat] /\ made'[s] = made[s] - 1
      /\ \A t \in Scope : t # s => made'[t] = made[t]
  BY <1>1, <1>2, <1>3
<1>5. History
  BY <1>1, <1>2, <1>4 DEF History, TypeOK
<1>6. \A t \in Scope :
        /\ made'[t] + Is(w \in Callers(work, t)) >= made[t]
        /\ made[t] + Is(w \in Givers(work, t))
             = made'[t] + (IF "release" = "release" /\ work[w].scope = t THEN 1 ELSE 0)
  <2> SUFFICES ASSUME NEW t \in Scope
               PROVE  /\ made'[t] + Is(w \in Callers(work, t)) >= made[t]
                      /\ made[t] + Is(w \in Givers(work, t))
                           = made'[t] + (IF work[w].scope = t THEN 1 ELSE 0)
    OBVIOUS
  <2>1. made[t] \in Nat /\ Is(w \in Givers(work, t)) = 0
    BY <1>1, <1>2 DEF Givers, Is
  <2>2. CASE t = s
    <3>1. Is(w \in Callers(work, t)) = 1
      BY <1>1, <2>2 DEF Callers, Is
    <3> QED
      BY <1>4, <2>1, <2>2, <3>1
  <2>3. CASE t # s
    <3>1. Is(w \in Callers(work, t)) = 0
      BY <2>3 DEF Callers, Is
    <3> QED
      BY <1>4, <2>1, <2>3, <3>1
  <2> QED
    BY <2>2, <2>3
<1> QED
  BY <1>1, <1>5, <1>6, MoveStep

LEMMA BadAnswerStep ==
  ASSUME BudgetAssumption, IInv, NEW w \in Worker, BadAnswer(w)
  PROVE  IInv'
<1>1. /\ UNCHANGED <<ledger, today, over, made, excess, begun, faults>>
      /\ work[w].pc = "call"
  BY DEF BadAnswer, At
<1>2. TypeOK /\ begun \in 0 .. MaxWork
  BY DEF IInv, TypeOK
<1>3. End(w, "person") \/ MoreOrEnd(w, "without") \/ End(w, "without")
  BY DEF BadAnswer
<1>4. Away(w)
  BY <1>2, <1>3, EndAway, MoreOrEndAway DEF Ends
<1> QED
  BY <1>1, <1>2, <1>4, LeaveStep

LEMMA JudgeStep ==
  ASSUME BudgetAssumption, IInv, NEW w \in Worker, Judge(w)
  PROVE  IInv'
<1>1. /\ UNCHANGED <<ledger, today, over, made, excess, begun, faults>>
      /\ work[w].pc = "judge"
  BY DEF Judge, At
<1>2. TypeOK /\ begun \in 0 .. MaxWork
  BY DEF IInv, TypeOK
<1>3. CASE End(w, "person")
  <2>1. Away(w)
    BY <1>2, <1>3, EndAway DEF Ends
  <2> QED
    BY <1>1, <1>2, <2>1, LeaveStep
<1>4. CASE Goto(w, "record") /\ ended' = ended
  <2>1. History
    BY <1>1, <1>2, <1>4 DEF History, TypeOK
  <2>2. \A s \in Scope :
          /\ made'[s] + Is(w \in Callers(work, s)) >= made[s]
          /\ made[s] + Is(w \in Givers(work, s))
               = made'[s] + (IF "record" = "release" /\ work[w].scope = s THEN 1 ELSE 0)
    <3>1. \A s \in Scope : made[s] \in Nat /\ made'[s] = made[s] /\ w \notin Givers(work, s)
      BY <1>1, <1>2 DEF TypeOK, Givers
    <3> QED
      BY <3>1 DEF Is
  <2> QED
    BY <1>1, <1>4, <2>1, <2>2, MoveStep
<1> QED
  BY <1>3, <1>4 DEF Judge

LEMMA HandOffStep ==
  ASSUME BudgetAssumption, IInv, NEW w \in Worker, HandOff(w)
  PROVE  IInv'
<1>1. /\ UNCHANGED <<ledger, today, over, made, excess, begun, faults>>
      /\ work[w].pc = "handoff"
  BY DEF HandOff, At
<1>2. TypeOK /\ begun \in 0 .. MaxWork
  BY DEF IInv, TypeOK
<1>3. End(w, "person") \/ End(w, "lapsed") \/ End(w, "lost")
  BY DEF HandOff
<1>4. Away(w)
  BY <1>2, <1>3, EndAway DEF Ends
<1> QED
  BY <1>1, <1>2, <1>4, LeaveStep

LEMMA BeginStep ==
  ASSUME BudgetAssumption, IInv, NEW w \in Worker, Begin(w)
  PROVE  IInv'
<1>1. /\ UNCHANGED <<ledger, today, over, made, excess, faults>>
      /\ work[w].pc = "idle" /\ begun < MaxWork /\ begun' = begun + 1
      /\ ended' = [ended EXCEPT ![w] = "none"]
  BY DEF Begin, At
<1>2. TypeOK
  BY DEF IInv
<1>3. PICK k \in Kinds, s \in Scope :
        work' = [work EXCEPT ![w] =
          [AtRest EXCEPT !.pc = First(k), !.kind = k, !.scope = s, !.left = CallsOf(k)]]
  BY DEF Begin
<1> DEFINE first == First(k)
           left == CallsOf(k)
           j == [AtRest EXCEPT !.pc = first, !.kind = k, !.scope = s, !.left = left]
<1>4. first \in Labels /\ first \in {"ask", "judge"} /\ left \in Nat
  BY DEF First, CallsOf, Labels, BudgetAssumption
<1> HIDE DEF first, left
<1>5. j \in Job /\ j.pc = first /\ j.day = 0
  BY <1>4, RestType DEF Job
<1>6. work' = [work EXCEPT ![w] = j]
  BY <1>3 DEF first, left
<1> HIDE DEF j
<1>7. OnlyWorker(w) /\ work'[w] = j
  BY <1>2, <1>5, <1>6 DEF TypeOK, OnlyWorker
<1>8. ended' \in [Worker -> Ends] /\ begun' \in 0 .. MaxWork
  BY <1>1, <1>2 DEF TypeOK, Ends, BudgetAssumption
<1>9. Away(w)
  BY <1>4, <1>5, <1>7, <1>8 DEF Away
<1> QED
  BY <1>1, <1>8, <1>9, LeaveStep

LEMMA CrashStep ==
  ASSUME BudgetAssumption, IInv, NEW w \in Worker, Crash(w)
  PROVE  IInv'
<1>1. /\ UNCHANGED <<ledger, today, over, excess, begun>>
      /\ End(w, "lost") \/ Again(w)
      /\ faults < MaxFaults /\ faults' = faults + 1
      /\ made' = IF At(w, "release") THEN [made EXCEPT ![work[w].scope] = @ + 1] ELSE made
  BY DEF Crash
<1>2. TypeOK /\ made \in [Scope -> Nat]
  BY DEF IInv, TypeOK
<1>3. Away(w)
  BY <1>1, <1>2, EndAway, AgainAway DEF Ends
<1>4. made' \in [Scope -> Nat] /\ \A s \in Scope : made'[s] = made[s] + Is(w \in Givers(work, s))
  <2>1. CASE At(w, "release")
    <3>1. \A s \in Scope : w \in Givers(work, s) <=> s = work[w].scope
      BY <2>1 DEF At, Givers
    <3>2. work[w].scope \in Scope /\ made' = [made EXCEPT ![work[w].scope] = made[work[w].scope] + 1]
      BY <1>1, <1>2, <2>1 DEF TypeOK, Job
    <3>3. \A s \in Scope : Is(w \in Givers(work, s)) = IF s = work[w].scope THEN 1 ELSE 0
      BY <3>1 DEF Is
    <3> QED
      BY <1>2, <3>2, <3>3
  <2>2. CASE ~At(w, "release")
    <3>1. \A s \in Scope : w \notin Givers(work, s)
      BY <2>2 DEF At, Givers
    <3> QED
      BY <1>1, <1>2, <2>2, <3>1 DEF Is
  <2> QED
    BY <2>1, <2>2
<1>5. History
  BY <1>1, <1>2, <1>3, <1>4 DEF History, Away, TypeOK, BudgetAssumption
<1> QED
  BY <1>1, <1>3, <1>4, <1>5, AwayStep

-----------------------------------------------------------------------------
(* The steps that write a row of the books. *)

LEMMA RowEdit ==
  ASSUME TypeOK, NEW s \in Scope, NEW d \in Day, NEW r \in Row,
         ledger' = [ledger EXCEPT ![s][d] = r]
  PROVE  OnlyRow(s, d) /\ ledger'[s][d] = r
  BY DEF TypeOK, OnlyRow

LEMMA ExcessEdit ==
  ASSUME TypeOK, NEW s \in Scope, NEW d \in Day, NEW n \in Nat,
         excess' = [excess EXCEPT ![s][d] = @ + n]
  PROVE  OnlyExcess(s, d) /\ excess'[s][d] = excess[s][d] + n
  BY DEF TypeOK, OnlyExcess

LEMMA NoExcess ==
  ASSUME TypeOK, NEW s \in Scope, NEW d \in Day, excess' = excess
  PROVE  OnlyExcess(s, d) /\ excess'[s][d] = excess[s][d] + 0
  BY DEF TypeOK, OnlyExcess

LEMMA EstOf ==
  ASSUME BudgetAssumption
  PROVE  \A n \in Nat : n * Est \in Nat /\ (n + 1) * Est = n * Est + Est
  BY DEF BudgetAssumption

\* What a worker's step and a written row leave to be shown of the day.
LEMMA DayOfRow ==
  ASSUME BudgetAssumption, IInv, NEW w \in Worker, today' = today,
         NEW s \in Scope, NEW d \in Day, d <= today, OnlyRow(s, d), OnlyExcess(s, d),
         NEW net \in Int, NEW calls \in Int, NEW extra \in Nat, Adds(s, d, net, calls, extra),
         \A k \in Day : w \notin Admitted(work', k),
         \/ net <= extra
         \/ net = Est /\ extra = 0 /\ w \in Admitted(work, d)
  PROVE  KeepsDay(w)
<1> SUFFICES ASSUME NEW k \in Day, k = today
             PROVE  /\ SpentSince(k) \in Int /\ SpentSince(k)' \in Int
                    /\ Beyond(k) \in Nat /\ Beyond(k)' \in Nat
                    /\ \/ SpentSince(k)' + Beyond(k) <= SpentSince(k) + Beyond(k)'
                       \/ /\ SpentSince(k)' = SpentSince(k) + Est /\ Beyond(k)' = Beyond(k)
                          /\ w \in Admitted(work, k)
  BY DEF KeepsDay
<1>1. /\ SpentSince(k) \in Int
      /\ SpentSince(k)' = SpentSince(k) + (IF d >= k THEN net ELSE 0)
      /\ Beyond(k) \in Nat /\ Beyond(k)' = Beyond(k) + (IF d = k THEN extra ELSE 0)
  BY Effect DEF IInv
<1>2. d \in Int /\ k \in Int
  BY DEF Day, BudgetAssumption
<1>3. d >= k <=> d = k
  BY <1>2
<1> QED
  BY <1>1, <1>3 DEF BudgetAssumption

Opens(s, d) == ledger' = [ledger EXCEPT ![s][d].open = @ + 1]

LEMMA InsertWrites ==
  ASSUME BudgetAssumption, TypeOK, NEW s \in Scope, NEW d \in Day,
         Opens(s, d), excess' = excess
  PROVE  /\ OnlyRow(s, d) /\ OnlyExcess(s, d) /\ Adds(s, d, Est, 1, 0)
         /\ ledger'[s][d].open = ledger[s][d].open + 1
<1> DEFINE old == ledger[s][d]
           edited == [old EXCEPT !.open = old.open + 1]
<1>1. ledger' = [ledger EXCEPT ![s][d] = edited]
  BY DEF TypeOK, Opens
<1>2. old \in Row
  BY DEF TypeOK
<1> HIDE DEF old
<1>3. /\ edited \in Row /\ edited.open = old.open + 1 /\ edited.settled = old.settled
      /\ edited.spent = old.spent /\ edited.released = old.released
  BY <1>2 DEF Row
<1> HIDE DEF edited
<1>4. OnlyRow(s, d) /\ ledger'[s][d] = edited
  BY <1>1, <1>3, RowEdit
<1>5. OnlyExcess(s, d) /\ excess'[s][d] = excess[s][d] + 0
  BY NoExcess
<1>6. /\ old.open \in Nat /\ old.settled \in Nat /\ old.released \in Nat /\ old.spent \in Nat
      /\ Spend(old) \in Nat /\ Refunds(old) \in Nat /\ Est \in Nat
  BY <1>2, RowType DEF BudgetAssumption
<1>7. Spend(edited) = Spend(old) + Est /\ Refunds(edited) = Refunds(old)
  BY <1>3, <1>6, EstOf DEF Spend, Refunds
<1> QED
  BY <1>3, <1>4, <1>5, <1>6, <1>7 DEF Adds, Net, Counted, old

Settles(s, d, n) ==
  ledger' = [ledger EXCEPT ![s][d].open = @ - 1, ![s][d].settled = @ + 1, ![s][d].spent = @ + n]
Overruns(s, d, n) == excess' = [excess EXCEPT ![s][d] = @ + n]

LEMMA SettleWrites ==
  ASSUME BudgetAssumption, TypeOK, NEW s \in Scope, NEW d \in Day, NEW n \in Nat, NEW extra \in Nat,
         Settles(s, d, n), Overruns(s, d, extra), ledger[s][d].open >= 1
  PROVE  /\ OnlyRow(s, d) /\ OnlyExcess(s, d) /\ Adds(s, d, n - Est, 0, extra)
         /\ ledger'[s][d].open = ledger[s][d].open - 1
<1> DEFINE old == ledger[s][d]
           edited == [old EXCEPT !.open = old.open - 1, !.settled = old.settled + 1,
                                 !.spent = old.spent + n]
<1>1. old \in Row /\ ledger \in [Scope -> [Day -> Row]]
  BY DEF TypeOK
<1>2. ledger' = [ledger EXCEPT ![s][d] = edited]
  BY <1>1 DEF Settles, Row
<1>3. old.open >= 1
  OBVIOUS
<1> HIDE DEF old
<1>4. /\ edited \in Row /\ edited.open = old.open - 1 /\ edited.settled = old.settled + 1
      /\ edited.spent = old.spent + n /\ edited.released = old.released
  <2>1. /\ edited.open = old.open - 1 /\ edited.settled = old.settled + 1
        /\ edited.spent = old.spent + n /\ edited.released = old.released
    BY <1>1 DEF Row
  <2>2. /\ old.open - 1 \in Nat /\ old.settled + 1 \in Nat /\ old.spent + n \in Nat
    BY <1>1, <1>3, RowType
  <2>3. edited \in Row
    BY <1>1, <2>2 DEF Row
  <2> QED
    BY <2>1, <2>3
<1> HIDE DEF edited
<1>5. OnlyRow(s, d) /\ ledger'[s][d] = edited
  BY <1>2, <1>4, RowEdit
<1>6. OnlyExcess(s, d) /\ excess'[s][d] = excess[s][d] + extra
  BY ExcessEdit DEF Overruns
<1>7. /\ old.open \in Nat /\ old.settled \in Nat /\ old.released \in Nat /\ old.spent \in Nat
      /\ edited.open \in Nat /\ edited.open + 1 = old.open
      /\ Spend(old) \in Nat /\ Refunds(old) \in Nat /\ Est \in Nat
  BY <1>1, <1>4, RowType DEF BudgetAssumption
<1>8. Spend(edited) = Spend(old) + n - Est /\ Refunds(edited) = Refunds(old)
  <2>1. old.open * Est = edited.open * Est + Est /\ edited.open * Est \in Nat
    BY <1>7, EstOf
  <2> QED
    BY <1>4, <1>7, <2>1 DEF Spend, Refunds
<1> QED
  BY <1>4, <1>5, <1>6, <1>7, <1>8 DEF Adds, Net, Counted, old

Gives(s, d) == ledger' = [ledger EXCEPT ![s][d].released = @ + 1]

LEMMA ReleaseWrites ==
  ASSUME BudgetAssumption, TypeOK, NEW s \in Scope, NEW d \in Day, Gives(s, d), excess' = excess
  PROVE  /\ OnlyRow(s, d) /\ OnlyExcess(s, d) /\ Adds(s, d, 0 - Est, -1, 0)
         /\ ledger'[s][d].open = ledger[s][d].open
<1> DEFINE old == ledger[s][d]
           edited == [old EXCEPT !.released = old.released + 1]
<1>1. old \in Row
  BY DEF TypeOK
<1>2. ledger' = [ledger EXCEPT ![s][d] = edited]
  BY DEF TypeOK, Gives
<1> HIDE DEF old
<1>3. /\ edited \in Row /\ edited.released = old.released + 1 /\ edited.settled = old.settled
      /\ edited.spent = old.spent /\ edited.open = old.open
  BY <1>1 DEF Row
<1> HIDE DEF edited
<1>4. OnlyRow(s, d) /\ ledger'[s][d] = edited
  BY <1>2, <1>3, RowEdit
<1>5. OnlyExcess(s, d) /\ excess'[s][d] = excess[s][d] + 0
  BY NoExcess
<1>6. /\ old.open \in Nat /\ old.settled \in Nat /\ old.released \in Nat /\ old.spent \in Nat
      /\ Spend(old) \in Nat /\ Refunds(old) \in Nat /\ Est \in Nat
  BY <1>1, RowType DEF BudgetAssumption
<1>7. Spend(edited) = Spend(old) /\ Refunds(edited) = Refunds(old) + Est
  BY <1>3, <1>6, EstOf DEF Spend, Refunds
<1> QED
  BY <1>3, <1>4, <1>5, <1>6, <1>7 DEF Adds, Net, Counted, old

Records(s, d, n) == ledger' = [ledger EXCEPT ![s][d].settled = @ + 1, ![s][d].spent = @ + n]

LEMMA RecordWrites ==
  ASSUME BudgetAssumption, TypeOK, NEW s \in Scope, NEW d \in Day, NEW n \in Nat,
         Records(s, d, n), Overruns(s, d, n)
  PROVE  /\ OnlyRow(s, d) /\ OnlyExcess(s, d) /\ Adds(s, d, n, 1, n)
         /\ ledger'[s][d].open = ledger[s][d].open
<1> DEFINE old == ledger[s][d]
           edited == [old EXCEPT !.settled = old.settled + 1, !.spent = old.spent + n]
<1>1. old \in Row /\ ledger \in [Scope -> [Day -> Row]]
  BY DEF TypeOK
<1>2. ledger' = [ledger EXCEPT ![s][d] = edited]
  BY <1>1 DEF Records, Row
<1> HIDE DEF old
<1>3. /\ edited \in Row /\ edited.open = old.open /\ edited.settled = old.settled + 1
      /\ edited.spent = old.spent + n /\ edited.released = old.released
  <2>1. /\ edited.open = old.open /\ edited.settled = old.settled + 1
        /\ edited.spent = old.spent + n /\ edited.released = old.released
    BY <1>1 DEF Row
  <2>2. old.settled + 1 \in Nat /\ old.spent + n \in Nat
    BY <1>1, RowType
  <2>3. edited \in Row
    BY <1>1, <2>2 DEF Row
  <2> QED
    BY <2>1, <2>3
<1> HIDE DEF edited
<1>4. OnlyRow(s, d) /\ ledger'[s][d] = edited
  BY <1>2, <1>3, RowEdit
<1>5. OnlyExcess(s, d) /\ excess'[s][d] = excess[s][d] + n
  BY ExcessEdit DEF Overruns
<1>6. /\ old.open \in Nat /\ old.settled \in Nat /\ old.released \in Nat /\ old.spent \in Nat
      /\ Spend(old) \in Nat /\ Refunds(old) \in Nat
      /\ old.open * Est \in Nat
  BY <1>1, RowType, EstOf
<1>7. Spend(edited) = Spend(old) + n /\ Refunds(edited) = Refunds(old)
  BY <1>3, <1>6 DEF Spend, Refunds
<1>8. Net(edited) = Net(old) + n /\ Counted(edited) = Counted(old) + 1
  BY <1>3, <1>6, <1>7 DEF Net, Counted
<1> QED
  BY <1>3, <1>4, <1>5, <1>8 DEF Adds, old

LEMMA InsertStep ==
  ASSUME BudgetAssumption, IInv, NEW w \in Worker, Insert(w)
  PROVE  IInv'
<1>1. /\ UNCHANGED <<today, ended, over, excess, begun, faults>>
      /\ work[w].pc = "insert" /\ Goto(w, "call")
      /\ Opens(work[w].scope, work[w].day)
      /\ made' = [made EXCEPT ![work[w].scope] = @ + 1]
  BY DEF Insert, At, Opens
<1> DEFINE s == work[w].scope
           d == work[w].day
<1>2. TypeOK /\ s \in Scope /\ d \in Day /\ d <= today
  BY DEF IInv, TypeOK, Job, Booked, NothingAhead
<1>3. /\ OnlyRow(s, d) /\ OnlyExcess(s, d) /\ Adds(s, d, Est, 1, 0)
      /\ ledger'[s][d].open = ledger[s][d].open + 1
  BY <1>1, <1>2, InsertWrites
<1>4. /\ OnlyWorker(w) /\ work'[w].pc = "call"
      /\ work'[w].scope = s /\ work'[w].day = d
  BY <1>1, <1>2, GotoEffect DEF Labels
<1>5. /\ made \in [Scope -> Nat] /\ made' \in [Scope -> Nat] /\ made'[s] = made[s] + 1
      /\ \A t \in Scope : t # s => made'[t] = made[t]
  BY <1>1, <1>2 DEF TypeOK
<1>6. History
  BY <1>1, <1>2, <1>5 DEF History, TypeOK
<1>7. KeepsLock(w)
  BY <1>4 DEF KeepsLock, Reserving
<1>8. KeepsHeld(w)
  <2>1. \A t \in Scope, e \in Day : ledger[t][e].open \in Nat
    BY <1>2 DEF TypeOK, Row
  <2>2. ASSUME NEW t \in Scope, NEW e \in Day
        PROVE  ledger'[t][e].open + Is(w \in Holders(work, t, e))
                 >= ledger[t][e].open + Is(w \in Holders(work', t, e))
    <3>1. CASE t = s /\ e = d
      <4>1. ledger'[t][e].open = ledger[t][e].open + 1
        BY <1>3, <3>1
      <4> QED
        BY <2>1, <4>1 DEF Is
    <3>2. CASE ~(t = s /\ e = d)
      <4>1. ledger'[t][e] = ledger[t][e]
        BY <1>3, <3>2 DEF OnlyRow
      <4>2. w \notin Holders(work', t, e)
        BY <1>4, <3>2 DEF Holders
      <4> QED
        BY <2>1, <4>1, <4>2 DEF Is
    <3> QED
      BY <3>1, <3>2
  <2>3. ASSUME NEW t \in Scope
        PROVE  made'[t] + Is(w \in Callers(work, t)) >= made[t] + Is(w \in Callers(work', t))
    <3>1. CASE t = s
      BY <1>5, <3>1 DEF Is
    <3>2. CASE t # s
      <4>1. w \notin Callers(work', t)
        BY <1>4, <3>2 DEF Callers
      <4> QED
        BY <1>5, <3>2, <4>1 DEF Is
    <3> QED
      BY <3>1, <3>2
  <2> QED
    BY <2>2, <2>3 DEF KeepsHeld
<1>9. KeepsBooks(w)
  <2>1. \A t \in Scope : w \notin Givers(work, t) /\ w \notin Givers(work', t)
    BY <1>1, <1>4 DEF Givers
  <2>2. \A t \in Scope :
          Calls(t) \in Int /\ Calls(t)' = Calls(t) + (IF t = s THEN 1 ELSE 0)
    BY <1>2, <1>3, Effect DEF BudgetAssumption
  <2> QED
    BY <1>5, <2>1, <2>2 DEF KeepsBooks, Is
<1>10. KeepsHard(w)
  <2>1. \A t \in Scope :
          /\ SpentOn(t) \in Int /\ SpentOn(t)' = SpentOn(t) + (IF t = s THEN Est ELSE 0)
          /\ Sum(excess[t]) \in Nat /\ Sum(excess'[t]) = Sum(excess[t])
    BY <1>1, <1>2, <1>3, Effect DEF BudgetAssumption
  <2>2. work'[w].pc \notin Reserving
    BY <1>4 DEF Reserving
  <2> QED
    BY <1>1, <2>1, <2>2 DEF KeepsHard, BudgetAssumption
<1>11. KeepsDay(w)
  <2>1. w \in Admitted(work, d) /\ \A k \in Day : w \notin Admitted(work', k)
    BY <1>1, <1>4 DEF Admitted
  <2> QED
    BY <1>1, <1>2, <1>3, <2>1, DayOfRow DEF BudgetAssumption
<1> QED
  BY <1>2, <1>3, <1>4, <1>6, <1>7, <1>8, <1>9, <1>10, <1>11, WorkerStep

\* A step by which a worker is done with a call, and writes a row.
LEMMA AwayWrites ==
  ASSUME BudgetAssumption, IInv, NEW w \in Worker, Away(w), History,
         NEW s \in Scope, NEW d \in Day, d <= today, OnlyRow(s, d), OnlyExcess(s, d),
         NEW net \in Int, NEW calls \in Int, NEW extra \in Nat, Adds(s, d, net, calls, extra),
         net <= extra,
         ledger'[s][d].open + Is(w \in Holders(work, s, d)) >= ledger[s][d].open,
         \A t \in Scope :
           /\ made'[t] >= made[t]
           /\ made'[t] = made[t] + Is(w \in Givers(work, t)) + (IF t = s THEN calls ELSE 0)
  PROVE  IInv'
<1>1. OnlyWorker(w) /\ work'[w].pc \in {"idle", "ask", "judge", "handoff"} /\ work'[w].day = 0
  BY DEF Away
<1>2. TypeOK /\ work'[w].day <= today
  BY <1>1 DEF IInv, TypeOK, Day, BudgetAssumption
<1>3. work'[w].pc \notin Reserving
  BY <1>1 DEF Reserving
<1>4. KeepsLock(w)
  BY <1>3 DEF KeepsLock
<1>5. /\ \A t \in Scope, e \in Day : w \notin Holders(work', t, e)
      /\ \A t \in Scope : w \notin Callers(work', t) /\ w \notin Givers(work', t)
      /\ \A k \in Day : w \notin Admitted(work', k)
  BY <1>1 DEF Holders, Callers, Givers, Admitted
<1>6. \A t \in Scope : made[t] \in Nat /\ made'[t] \in Nat
  BY <1>2 DEF TypeOK, History
<1>7. KeepsHeld(w)
  <2>1. \A t \in Scope, e \in Day : ledger[t][e].open \in Nat
    BY <1>2 DEF TypeOK, Row
  <2>2. \A t \in Scope, e \in Day : t # s \/ e # d => ledger'[t][e] = ledger[t][e]
    BY DEF OnlyRow
  <2> QED
    BY <1>5, <1>6, <2>1, <2>2 DEF KeepsHeld, Is
<1>8. \A t \in Scope :
        /\ SpentOn(t) \in Int /\ SpentOn(t)' = SpentOn(t) + (IF t = s THEN net ELSE 0)
        /\ Calls(t) \in Int /\ Calls(t)' = Calls(t) + (IF t = s THEN calls ELSE 0)
        /\ Sum(excess[t]) \in Nat
        /\ Sum(excess'[t]) = Sum(excess[t]) + (IF t = s THEN extra ELSE 0)
  BY <1>2, Effect
<1>9. KeepsBooks(w)
  BY <1>5, <1>6, <1>8 DEF KeepsBooks, Is
<1>10. KeepsHard(w)
  BY <1>3, <1>8 DEF KeepsHard
<1>11. KeepsDay(w)
  BY <1>5, DayOfRow DEF History
<1> QED
  BY <1>1, <1>2, <1>4, <1>7, <1>9, <1>10, <1>11, WorkerStep

LEMMA SettleStep ==
  ASSUME BudgetAssumption, IInv, NEW w \in Worker, Settle(w)
  PROVE  IInv'
<1>1. UNCHANGED <<today, over, made, begun, faults>> /\ work[w].pc = "settle"
  BY DEF Settle, At
<1>2. PICK n \in Actual :
        /\ Settles(work[w].scope, work[w].day, n)
        /\ Overruns(work[w].scope, work[w].day, IF n > Est THEN n - Est ELSE 0)
  BY DEF Settle, Settles, Overruns, RowOf
<1>3. MoreOrEnd(w, "without") \/ End(w, "model")
  BY DEF Settle
<1> DEFINE s == work[w].scope
           d == work[w].day
           extra == IF n > Est THEN n - Est ELSE 0
<1>4. TypeOK /\ s \in Scope /\ d \in Day /\ d <= today
  BY DEF IInv, TypeOK, Job, Booked, NothingAhead
<1>5. n \in Nat /\ Est \in Nat /\ extra \in Nat /\ n - Est \in Int /\ n - Est <= extra
  BY DEF BudgetAssumption
<1>6. w \in Holders(work, s, d)
  BY <1>1 DEF Holders
<1>7. ledger[s][d].open >= 1
  <2> DEFINE H == Holders(work, s, d)
  <2>1. IsFiniteSet(H)
    BY FS_Subset DEF BudgetAssumption, Holders
  <2>2. Cardinality(H) # 0 /\ Cardinality(H) \in Nat
    <3> HIDE DEF H
    <3> QED
      BY <1>6, <2>1, FS_EmptySet, FS_CardinalityType DEF H
  <2>3. Cardinality(H) <= ledger[s][d].open
    BY <1>4 DEF IInv, Held, RowsAreHeld
  <2>4. ledger[s][d].open \in Nat
    BY <1>4 DEF TypeOK, Row
  <2> QED
    BY <2>2, <2>3, <2>4
<1> HIDE DEF extra
<1>8. /\ OnlyRow(s, d) /\ OnlyExcess(s, d) /\ Adds(s, d, n - Est, 0, extra)
      /\ ledger'[s][d].open = ledger[s][d].open - 1
  BY <1>2, <1>4, <1>5, <1>7, SettleWrites DEF extra
<1>9. Away(w)
  BY <1>3, <1>4, EndAway, MoreOrEndAway DEF Ends
<1>10. History
  BY <1>1, <1>4, <1>9 DEF History, Away, TypeOK
<1>11. ledger'[s][d].open + Is(w \in Holders(work, s, d)) >= ledger[s][d].open
  <2>1. ledger[s][d].open \in Nat
    BY <1>4 DEF TypeOK, Row
  <2> QED
    BY <1>6, <1>8, <2>1 DEF Is
<1>12. \A t \in Scope :
         /\ made'[t] >= made[t]
         /\ made'[t] = made[t] + Is(w \in Givers(work, t)) + (IF t = s THEN 0 ELSE 0)
  <2>1. \A t \in Scope : made[t] \in Nat /\ made'[t] = made[t] /\ w \notin Givers(work, t)
    BY <1>1, <1>4 DEF TypeOK, Givers
  <2> QED
    BY <2>1 DEF Is
<1> QED
  BY <1>4, <1>5, <1>8, <1>9, <1>10, <1>11, <1>12, AwayWrites

LEMMA ReleaseStep ==
  ASSUME BudgetAssumption, IInv, NEW w \in Worker, Release(w)
  PROVE  IInv'
<1>1. /\ UNCHANGED <<today, over, made, excess, begun, faults>> /\ work[w].pc = "release"
      /\ Gives(work[w].scope, today)
  BY DEF Release, At, Gives
<1>2. Throw(w) \/ MoreOrEnd(w, "without") \/ End(w, "without")
  BY DEF Release
<1> DEFINE s == work[w].scope
<1>3. TypeOK /\ s \in Scope /\ today \in Day /\ today <= today
  <2>1. TypeOK /\ s \in Scope /\ today \in Day
    BY DEF IInv, TypeOK, Job
  <2> QED
    BY <2>1 DEF Day, BudgetAssumption
<1>4. /\ OnlyRow(s, today) /\ OnlyExcess(s, today) /\ Adds(s, today, 0 - Est, -1, 0)
      /\ ledger'[s][today].open = ledger[s][today].open
  BY <1>1, <1>3, ReleaseWrites
<1>5. Away(w)
  BY <1>2, <1>3, EndAway, MoreOrEndAway, ThrowAway DEF Ends
<1>6. History
  BY <1>1, <1>3, <1>5 DEF History, Away, TypeOK
<1>7. ledger'[s][today].open + Is(w \in Holders(work, s, today)) >= ledger[s][today].open
  <2>1. ledger[s][today].open \in Nat
    BY <1>3 DEF TypeOK, Row
  <2> QED
    BY <1>4, <2>1 DEF Is
<1>8. \A t \in Scope :
        /\ made'[t] >= made[t]
        /\ made'[t] = made[t] + Is(w \in Givers(work, t)) + (IF t = s THEN -1 ELSE 0)
  <2>1. \A t \in Scope : made[t] \in Nat /\ made'[t] = made[t] /\ (w \in Givers(work, t) <=> t = s)
    BY <1>1, <1>3 DEF TypeOK, Givers
  <2> QED
    BY <2>1 DEF Is
<1>9. 0 - Est \in Int /\ 0 - Est <= 0 /\ -1 \in Int
  BY DEF BudgetAssumption
<1> QED
  BY <1>3, <1>4, <1>5, <1>6, <1>7, <1>8, <1>9, AwayWrites

LEMMA RecordStep ==
  ASSUME BudgetAssumption, IInv, NEW w \in Worker, Record(w)
  PROVE  IInv'
<1>1. UNCHANGED <<today, over, begun, faults>> /\ work[w].pc = "record"
  BY DEF Record, At
<1>2. PICK n \in Actual :
        /\ Records(work[w].scope, today, n) /\ Overruns(work[w].scope, today, n)
        /\ made' = [made EXCEPT ![work[w].scope] = @ + 1]
  BY DEF Record, Records, Overruns
<1>3. End(w, "model") \/ End(w, "person")
  BY DEF Record
<1> DEFINE s == work[w].scope
<1>4. TypeOK /\ s \in Scope /\ today \in Day /\ today <= today
  <2>1. TypeOK /\ s \in Scope /\ today \in Day
    BY DEF IInv, TypeOK, Job
  <2> QED
    BY <2>1 DEF Day, BudgetAssumption
<1>5. n \in Nat
  BY DEF BudgetAssumption
<1>6. /\ OnlyRow(s, today) /\ OnlyExcess(s, today) /\ Adds(s, today, n, 1, n)
      /\ ledger'[s][today].open = ledger[s][today].open
  BY <1>2, <1>4, <1>5, RecordWrites
<1>7. Away(w)
  BY <1>3, <1>4, EndAway DEF Ends
<1>8. made \in [Scope -> Nat] /\ made' \in [Scope -> Nat]
  BY <1>2, <1>4 DEF TypeOK
<1>9. History
  BY <1>1, <1>4, <1>7, <1>8 DEF History, Away, TypeOK
<1>10. ledger'[s][today].open + Is(w \in Holders(work, s, today)) >= ledger[s][today].open
  <2>1. ledger[s][today].open \in Nat
    BY <1>4 DEF TypeOK, Row
  <2> QED
    BY <1>6, <2>1 DEF Is
<1>11. \A t \in Scope :
         /\ made'[t] >= made[t]
         /\ made'[t] = made[t] + Is(w \in Givers(work, t)) + (IF t = s THEN 1 ELSE 0)
  <2>1. \A t \in Scope : w \notin Givers(work, t)
    BY <1>1 DEF Givers
  <2>2. \A t \in Scope : made[t] \in Nat /\ made'[t] = made[t] + (IF t = s THEN 1 ELSE 0)
    BY <1>2, <1>4, <1>8
  <2> QED
    BY <2>1, <2>2 DEF Is
<1> QED
  BY <1>4, <1>5, <1>6, <1>7, <1>9, <1>10, <1>11, AwayWrites

-----------------------------------------------------------------------------
(* A new day, and the beginning. *)

LEMMA NoSpend ==
  ASSUME BudgetAssumption
  PROVE  Spend(NoRows) = 0 /\ Refunds(NoRows) = 0 /\ NoRows \in Row
  BY DEF NoRows, Row, Spend, Refunds, BudgetAssumption

LEMMA BookTypes ==
  ASSUME BudgetAssumption, TypeOK, NEW k \in Day
  PROVE  SpentSince(k) \in Int /\ Beyond(k) \in Nat
<1> DEFINE D == Scope \X (k .. Days)
           f == [x \in D |-> Spend(ledger[x[1]][x[2]])]
           p == [x \in D |-> Refunds(ledger[x[1]][x[2]])]
           g == [s \in Scope |-> excess[s][k]]
<1>1. \A x \in D : ledger[x[1]][x[2]] \in Row
  BY DEF Day, BudgetAssumption, TypeOK
<1>2. f \in [D -> Nat] /\ p \in [D -> Nat]
  BY <1>1, RowType
<1>3. g \in [Scope -> Nat]
  BY DEF TypeOK
<1>4. SpentSince(k) = Sum(f) - Sum(p) /\ Beyond(k) = Sum(g)
  BY DEF SpentSince, Beyond
<1>5. IsFiniteSet(D) /\ IsFiniteSet(Scope)
  BY Finite
<1> HIDE DEF D, f, p, g
<1> QED
  BY <1>2, <1>3, <1>4, <1>5, SumType

LEMMA FreshDay ==
  ASSUME BudgetAssumption, TypeOK, NEW k \in Day,
         \A s \in Scope, d \in Day : d >= k => ledger[s][d] = NoRows,
         \A w \in Worker : work[w].day # k \/ work[w].pc # "insert"
  PROVE  SpentSince(k) + Est * Cardinality(Admitted(work, k))
           <= Daily + Est * (Cardinality(Request) - 1) + Beyond(k)
<1> DEFINE D == Scope \X (k .. Days)
           f == [x \in D |-> Spend(ledger[x[1]][x[2]])]
           p == [x \in D |-> Refunds(ledger[x[1]][x[2]])]
<1>1. \A x \in D : ledger[x[1]][x[2]] = NoRows
  BY DEF Day, BudgetAssumption
<1>2. /\ f \in [D -> Nat] /\ p \in [D -> Nat]
      /\ \A x \in D : f[x] = 0 /\ p[x] = 0
  BY <1>1, NoSpend
<1>3. SpentSince(k) = Sum(f) - Sum(p)
  BY DEF SpentSince
<1> HIDE DEF D, f, p
<1>4. SpentSince(k) = 0
  BY <1>2, <1>3, SumOfNone
<1>5. Cardinality(Admitted(work, k)) = 0
  <2>1. Admitted(work, k) = {}
    BY DEF Admitted
  <2> QED
    BY <2>1, FS_EmptySet
<1>6. Beyond(k) \in Nat
  BY BookTypes
<1>7. Cardinality(Request) - 1 \in Nat
  <2>1. Cardinality(Request) \in Nat /\ Cardinality(Request) # 0
    BY FS_CardinalityType, FS_EmptySet DEF BudgetAssumption
  <2> QED
    BY <2>1
<1>8. Est * 0 = 0 /\ Est * (Cardinality(Request) - 1) \in Int
      /\ Est * (Cardinality(Request) - 1) >= 0
  BY <1>7, EstTimes DEF BudgetAssumption
<1> QED
  BY <1>4, <1>5, <1>6, <1>8 DEF BudgetAssumption

LEMMA MidnightStep ==
  ASSUME BudgetAssumption, IInv, Midnight
  PROVE  IInv'
<1>1. /\ UNCHANGED <<ledger, work, ended, over, made, excess, begun, faults>>
      /\ today < Days /\ today' = today + 1
  BY DEF Midnight
<1>2. TypeOK /\ today \in Nat /\ today' \in Day
  BY <1>1 DEF IInv, TypeOK, Day, BudgetAssumption
<1>3. TypeOK'
  BY <1>1, <1>2 DEF TypeOK
<1>4. OneReserver' /\ Held'
  BY <1>1 DEF IInv, OneReserver, Held, RowsAreHeld, CallsAreMade, Holders, Callers
<1>5. /\ \A s \in Scope : SpentOn(s)' = SpentOn(s) /\ Calls(s)' = Calls(s)
      /\ \A k \in Day : SpentSince(k)' = SpentSince(k) /\ Beyond(k)' = Beyond(k)
  BY <1>1, <1>2, QuietBooks
<1>6. EveryCallCountsOnce'
  BY <1>1, <1>5 DEF IInv, Booked, EveryCallCountsOnce, Placed, At
<1>7. NothingAhead'
  <2>1. \A d \in Day : d > today' => d > today
    BY <1>1, <1>2 DEF Day, BudgetAssumption
  <2>2. \A w \in Worker : work[w].day <= today'
    <3>1. \A w \in Worker : work[w].day <= today /\ work[w].day \in Int
      BY DEF IInv, Booked, NothingAhead, TypeOK, Job, Day
    <3> QED
      BY <1>1, <1>2, <3>1
  <2> QED
    BY <1>1, <2>1, <2>2 DEF IInv, Booked, NothingAhead, NoRows
<1>8. SpendWithinHard' /\ RoomInHard'
  BY <1>1, <1>5 DEF IInv, Limits, SpendWithinHard, RoomInHard
<1>9. RoomInDay'
  <2> SUFFICES ASSUME NEW k \in Day, k = today'
               PROVE  SpentSince(k)' + Est * Cardinality(Admitted(work, k))
                        <= Daily + Est * (Cardinality(Request) - 1) + Beyond(k)'
    BY <1>1 DEF RoomInDay, Admitted
  <2>1. k > today /\ k \in Nat
    BY <1>1, <1>2
  <2>2. \A s \in Scope, d \in Day : d >= k => ledger[s][d] = NoRows
    <3>1. \A d \in Day : d >= k => d > today
      BY <1>2, <2>1 DEF Day, BudgetAssumption
    <3> QED
      BY <3>1 DEF IInv, Booked, NothingAhead
  <2>3. \A w \in Worker : work[w].day # k
    <3>1. \A w \in Worker : work[w].day <= today
      BY DEF IInv, Booked, NothingAhead
    <3> QED
      BY <1>2, <2>1, <3>1
  <2> QED
    BY <1>2, <1>5, <2>2, <2>3, FreshDay
<1> QED
  BY <1>3, <1>4, <1>6, <1>7, <1>8, <1>9 DEF IInv, Booked, Limits

LEMMA InitHolds ==
  ASSUME BudgetAssumption, Init
  PROVE  IInv
<1>1. /\ ledger = [s \in Scope |-> [d \in Day |-> NoRows]]
      /\ today = 0 /\ work = [w \in Worker |-> AtRest] /\ ended = [w \in Worker |-> "unused"]
      /\ over = {}
      /\ made = [s \in Scope |-> 0] /\ excess = [s \in Scope |-> [d \in Day |-> 0]]
      /\ begun = 0 /\ faults = 0
  BY DEF Init
<1>2. AtRest \in Job /\ \A w \in Worker : work[w] = AtRest /\ work[w].pc = "idle" /\ work[w].day = 0
  BY <1>1, RestType
<1>3. TypeOK
  <2>1. 0 \in Day /\ 0 \in 0 .. MaxWork /\ 0 \in 0 .. MaxFaults /\ "unused" \in Ends
    BY DEF Day, Ends, BudgetAssumption
  <2> QED
    BY <1>1, <1>2, <2>1, NoSpend DEF TypeOK
<1>4. OneReserver
  BY <1>2 DEF OneReserver, Reserving
<1>5. \A s \in Scope, d \in Day : ledger[s][d] = NoRows /\ excess[s][d] = 0
  BY <1>1
<1>6. /\ \A s \in Scope, d \in Day : Holders(work, s, d) = {}
      /\ \A s \in Scope : Callers(work, s) = {} /\ Givers(work, s) = {}
  BY <1>2 DEF Holders, Callers, Givers
<1>7. Held
  <2>1. \A s \in Scope, d \in Day : Cardinality(Holders(work, s, d)) = 0 /\ ledger[s][d].open = 0
    <3>1. NoRows.open = 0
      BY DEF NoRows
    <3> QED
      BY <1>5, <1>6, <3>1, FS_EmptySet
  <2>2. \A s \in Scope : Cardinality(Callers(work, s)) = 0 /\ made[s] = 0
    BY <1>1, <1>6, FS_EmptySet
  <2> QED
    BY <2>1, <2>2 DEF Held, RowsAreHeld, CallsAreMade
<1>8. ASSUME NEW s \in Scope PROVE SpentOn(s) = 0 /\ Calls(s) = 0 /\ Sum(excess[s]) = 0
  <2> DEFINE f == [d \in Day |-> Spend(ledger[s][d])]
             p == [d \in Day |-> Refunds(ledger[s][d])]
             g == [d \in Day |-> ledger[s][d].open + ledger[s][d].settled]
             q == [d \in Day |-> ledger[s][d].released]
  <2>1. /\ f \in [Day -> Nat] /\ p \in [Day -> Nat] /\ \A d \in Day : f[d] = 0 /\ p[d] = 0
    BY <1>5, NoSpend
  <2>2. /\ g \in [Day -> Nat] /\ q \in [Day -> Nat] /\ \A d \in Day : g[d] = 0 /\ q[d] = 0
    BY <1>5 DEF NoRows
  <2>3. SpentOn(s) = Sum(f) - Sum(p) /\ Calls(s) = Sum(g) - Sum(q)
    BY DEF SpentOn, Calls
  <2>4. excess[s] \in [Day -> Nat] /\ \A d \in Day : excess[s][d] = 0
    BY <1>3, <1>5 DEF TypeOK
  <2> HIDE DEF f, p, g, q
  <2>5. Sum(f) = 0 /\ Sum(p) = 0 /\ Sum(g) = 0 /\ Sum(q) = 0
    BY <2>1, <2>2, SumOfNone
  <2>6. Sum(excess[s]) = 0
    BY <2>4, SumOfNone
  <2> QED
    BY <2>3, <2>5, <2>6
<1>9. EveryCallCountsOnce
  <2>1. ASSUME NEW s \in Scope PROVE Placed(s) = 0
    <3>1. {w \in Worker : At(w, "release") /\ work[w].scope = s} = {}
      BY <1>2 DEF At
    <3>2. made[s] = 0
      BY <1>1
    <3> QED
      BY <3>1, <3>2, FS_EmptySet DEF Placed
  <2> QED
    BY <1>8, <2>1 DEF EveryCallCountsOnce
<1>10. NothingAhead
  BY <1>1, <1>2, <1>5 DEF NothingAhead
<1>11. SpendWithinHard /\ RoomInHard
  <2>1. SpendWithinHard
    BY <1>8 DEF SpendWithinHard, BudgetAssumption
  <2>2. RoomInHard
    BY <1>2 DEF RoomInHard, Reserving
  <2> QED
    BY <2>1, <2>2
<1>12. RoomInDay
  <2>1. \A w \in Worker : work[w].pc # "insert"
    BY <1>2
  <2> QED
    BY <1>3, <1>5, <2>1, FreshDay DEF RoomInDay
<1> QED
  BY <1>3, <1>4, <1>7, <1>9, <1>10, <1>11, <1>12 DEF IInv, Booked, Limits

LEMMA IdleStep ==
  ASSUME BudgetAssumption, IInv, UNCHANGED vars
  PROVE  IInv'
<1>1. UNCHANGED <<ledger, today, work, ended, over, made, excess, begun, faults>>
  BY DEF vars
<1>2. TypeOK /\ TypeOK'
  BY <1>1 DEF IInv, TypeOK
<1>3. /\ \A s \in Scope : SpentOn(s)' = SpentOn(s) /\ Calls(s)' = Calls(s)
      /\ \A k \in Day : SpentSince(k)' = SpentSince(k) /\ Beyond(k)' = Beyond(k)
  BY <1>1, <1>2, QuietBooks
<1>4. OneReserver' /\ Held' /\ Booked'
  BY <1>1, <1>3 DEF IInv, OneReserver, Held, RowsAreHeld, CallsAreMade, Holders, Callers,
     Booked, EveryCallCountsOnce, Placed, At, NothingAhead, NoRows
<1>5. SpendWithinHard' /\ RoomInHard' /\ RoomInDay'
  BY <1>1, <1>3 DEF IInv, Limits, SpendWithinHard, RoomInHard, RoomInDay, Admitted
<1> QED
  BY <1>2, <1>4, <1>5 DEF IInv, Limits

LEMMA TurnsStep ==
  ASSUME BudgetAssumption, IInv, RequestTurns
  PROVE  IInv'
<1>1. UNCHANGED <<ledger, today, work, ended, made, excess, begun>>
  BY DEF RequestTurns
<1>2. TypeOK /\ TypeOK'
  <2>1. over \subseteq Request /\ faults \in 0 .. MaxFaults /\ TypeOK
    BY DEF IInv, TypeOK
  <2>2. over' \subseteq Request /\ faults' \in 0 .. MaxFaults
    BY <2>1 DEF RequestTurns, BudgetAssumption
  <2> QED
    BY <1>1, <2>1, <2>2 DEF TypeOK
<1>3. /\ \A s \in Scope : SpentOn(s)' = SpentOn(s) /\ Calls(s)' = Calls(s)
      /\ \A k \in Day : SpentSince(k)' = SpentSince(k) /\ Beyond(k)' = Beyond(k)
  BY <1>1, <1>2, QuietBooks
<1>4. OneReserver' /\ Held' /\ Booked'
  BY <1>1, <1>3 DEF IInv, OneReserver, Held, RowsAreHeld, CallsAreMade, Holders, Callers,
     Booked, EveryCallCountsOnce, Placed, At, NothingAhead, NoRows
<1>5. SpendWithinHard' /\ RoomInHard' /\ RoomInDay'
  BY <1>1, <1>3 DEF IInv, Limits, SpendWithinHard, RoomInHard, RoomInDay, Admitted
<1> QED
  BY <1>2, <1>4, <1>5 DEF IInv, Limits

LEMMA NextHolds ==
  ASSUME BudgetAssumption, IInv, [Next]_vars
  PROVE  IInv'
<1>1. CASE Midnight
  BY <1>1, MidnightStep
<1>2. ASSUME NEW w \in Worker, Work(w) PROVE IInv'
  BY <1>2, ReserveStep, ReadDayStep, InsertStep, AnsweredStep, SettleStep, BadAnswerStep,
     FailedStep, ReleaseStep, JudgeStep, RecordStep, HandOffStep DEF Work
<1>3. ASSUME NEW w \in Worker, Begin(w) PROVE IInv'
  BY <1>3, BeginStep
<1>4. ASSUME NEW w \in Worker, Crash(w) PROVE IInv'
  BY <1>4, CrashStep
<1>5. CASE RequestTurns
  BY <1>5, TurnsStep
<1>6. CASE UNCHANGED vars
  BY <1>6, IdleStep
<1> QED
  BY <1>1, <1>2, <1>3, <1>4, <1>5, <1>6 DEF Next

-----------------------------------------------------------------------------
(* The theorems. *)

\* The inductive invariant: the lock, the rows and calls the workers hold, the books, and
\* the room that is left for what is being reserved.
THEOREM BudgetInvariant == Spec => []IInv
<1>1. Init => IInv
  BY BudgetAssumption, InitHolds
<1>2. IInv /\ [Next]_vars => IInv'
  BY BudgetAssumption, NextHolds
<1> QED
  BY <1>1, <1>2, PTL DEF Spec

\* Every call is on the books once: in flight, answered, failed with its tokens used, or
\* lost with its process, whatever the settlements, releases and crashes between.
\* (reserveBudget, settleBudget, releaseBudget, recordUsage.)
THEOREM CallsAreOnTheBooks == Spec => []LedgerInv
<1>1. IInv => LedgerInv
  BY DEF IInv, Booked, LedgerInv
<1> QED
  BY <1>1, BudgetInvariant, PTL

\* A revision's spend stays within its hard limit and a day's within the day's limit and
\* one estimate for each other request, up to what calls used beyond their estimates.
\* (reserveBudget: the lock on the request; no lock covers the day.)
THEOREM LimitsHold == Spec => []SpendLimits
<1>1. IInv => SpendLimits
  <2> SUFFICES ASSUME IInv PROVE DayOvershoot
    BY DEF IInv, Limits, SpendLimits
  <2> DEFINE k == today
             n == Cardinality(Admitted(work, k))
             r == Est * (Cardinality(Request) - 1)
  <2>1. TypeOK /\ OneReserver /\ k \in Day /\ BudgetAssumption
    BY BudgetAssumption DEF IInv, TypeOK
  <2>2. SpentSince(k) + Est * n <= Daily + r + Beyond(k)
    BY <2>1 DEF IInv, Limits, RoomInDay
  <2>3. n \in Nat /\ Cardinality(Request) \in Nat
    BY <2>1, AdmittedBound
  <2>4. Est * n \in Int /\ Est * n >= 0 /\ r \in Int /\ Daily \in Int
    BY <2>1, <2>3, EstTimes DEF BudgetAssumption
  <2>5. SpentSince(k) \in Int /\ Beyond(k) \in Nat
    BY <2>1, BookTypes
  <2> HIDE DEF n, r
  <2>6. SpentSince(k) <= Daily + r + Beyond(k)
    BY <2>2, <2>4, <2>5
  <2> QED
    BY <2>6 DEF DayOvershoot, Beyond, r
<1> QED
  BY <1>1, BudgetInvariant, PTL

=============================================================================
