---------------------- MODULE PositionAccounting_proofs ----------------------
(***************************************************************************)
(* What the three replays of a ledger have to do with each other, for every *)
(* sequence of rows.  The replays are recursive functions over a sequence,  *)
(* so each of them is first shown to be a run: a function from the places   *)
(* 0..Len(rows) to states, of which each follows from the one before        *)
(* (PositionRuns, CycleRuns, LedgerRuns, TotalRuns).  A statement about a   *)
(* replay is then an induction over the places (UpTo).                      *)
(*   ReplayBalances  a replay that is accepted accounts for every flow      *)
(*   ReplaysAgree    the three views agree on the profit and on the cycles  *)
(*   WithinAccepted  what is accepted is accepted without its rebases, and  *)
(*                   up to every place                                      *)
(*   QtyIsUnits      what is held is what was bought less what was sold     *)
(*   RunsOn          from positions that are alike the same rows lead on to *)
(*                   positions that are alike                               *)
(*   OwnReplay       a replay of a security depends on its own rows only,   *)
(*                   in their order: what a day is to it ends with them     *)
(***************************************************************************)
EXTENDS PositionAccounting, FiniteSetTheorems, SequenceTheorems, WellFoundedInduction, TLAPS

-----------------------------------------------------------------------------
(* Induction, by the smallest counterexample.                               *)

\* A set of numbers with one in it has a least one.
LEMMA LeastNumber ==
  ASSUME NEW S \in SUBSET Nat, S # {}
  PROVE  \E m \in S : \A k \in S : m <= k
<1> DEFINE T == {0..k : k \in S}
<1>1. T \subseteq FiniteSubsetsOf(Nat) /\ T # {}
  <2>1. \A k \in S : IsFiniteSet(0..k) /\ 0..k \subseteq Nat
    BY FS_Interval
  <2> QED BY <2>1 DEF FiniteSubsetsOf
<1>2. IsWellFoundedOn(StrictSubsetOrdering(Nat), FiniteSubsetsOf(Nat))
  BY FS_StrictSubsetOrderingWellFounded
<1>3. PICK A \in T : \A B \in T : ~ (<<B, A>> \in StrictSubsetOrdering(Nat))
  <2> HIDE DEF T
  <2> QED BY <1>1, <1>2, WFMin
<1>4. PICK m \in S : A = 0..m
  OBVIOUS
<1>5. ASSUME NEW k \in S, k < m PROVE FALSE
  <2>1. 0..k \subseteq 0..m /\ 0..k # 0..m
    <3>1. m \in 0..m /\ m \notin 0..k
      BY <1>5
    <3> QED BY <1>5, <3>1
  <2>2. <<0..k, A>> \in StrictSubsetOrdering(Nat)
    BY <1>4, <2>1 DEF StrictSubsetOrdering
  <2> QED BY <1>3, <2>2
<1> QED BY <1>5

\* Numbers that hold with each other's predecessors hold up to n.
LEMMA UpTo ==
  ASSUME NEW n \in Nat, NEW T, 0 \in T, \A i \in 1..n : i - 1 \in T => i \in T
  PROVE  \A i \in 0..n : i \in T
<1> DEFINE bad == {k \in 0..n : k \notin T}
<1>1. SUFFICES ASSUME bad # {} PROVE FALSE
  OBVIOUS
<1>2. PICK k \in bad : \A j \in bad : k <= j
  <2>1. bad \in SUBSET Nat
    OBVIOUS
  <2> HIDE DEF bad
  <2> QED BY <1>1, <2>1, LeastNumber
<1>3. k \in 1..n /\ k - 1 \in 0..n /\ k - 1 \notin bad
  BY <1>2
<1> QED BY <1>2, <1>3

\* The states f of a replay of n rows, from s0 and by the steps F.
IsRun(f, n, s0, F) == f[0] = s0 /\ \A i \in 1..n : f[i] = F[i][f[i - 1]]

\* Step by step, every state of a replay is determined.
LEMMA Recursion ==
  ASSUME NEW n \in Nat, NEW S, NEW s0 \in S, NEW F \in [1..n -> [S -> S]]
  PROVE  \E f \in [0..n -> S] : IsRun(f, n, s0, F)
<1> USE DEF IsRun
<1> DEFINE Reaches(k) == \E f \in [0..k -> S] : f[0] = s0 /\ \A i \in 1..k : f[i] = F[i][f[i - 1]]
           bad == {k \in 0..n : ~ Reaches(k)}
<1>1. SUFFICES ASSUME bad # {} PROVE FALSE
  <2>1. n \in 0..n
    OBVIOUS
  <2> QED BY <2>1
<1>2. PICK k \in bad : \A j \in bad : k <= j
  <2> HIDE DEF Reaches
  <2>1. bad \in SUBSET Nat
    OBVIOUS
  <2> QED BY <1>1, <2>1, LeastNumber
<1>3. k # 0
  <2>1. Reaches(0)
    <3> DEFINE f == [i \in 0..0 |-> s0]
    <3>1. f \in [0..0 -> S] /\ f[0] = s0 /\ \A i \in 1..0 : f[i] = F[i][f[i - 1]]
      OBVIOUS
    <3> QED BY <3>1
  <2> QED BY <2>1
<1>4. k \in 1..n /\ k - 1 \in 0..n /\ k - 1 \notin bad
  BY <1>2, <1>3
<1>5. PICK f \in [0..(k - 1) -> S] : f[0] = s0 /\ \A i \in 1..(k - 1) : f[i] = F[i][f[i - 1]]
  BY <1>4
<1> DEFINE g == [i \in 0..k |-> IF i = k THEN F[k][f[k - 1]] ELSE f[i]]
<1>6. g \in [0..k -> S] /\ g[0] = s0 /\ g[k] = F[k][g[k - 1]]
  BY <1>4, <1>5
<1>7. \A i \in 1..k : g[i] = F[i][g[i - 1]]
  <2> SUFFICES ASSUME NEW i \in 1..k, i # k PROVE g[i] = F[i][g[i - 1]]
    BY <1>6
  <2>1. i \in 1..(k - 1) /\ i - 1 \in 0..(k - 1) /\ i - 1 # k /\ i \in 0..k /\ i - 1 \in 0..k
    BY <1>4
  <2> QED BY <1>5, <2>1
<1>8. Reaches(k)
  <2> HIDE DEF g
  <2> QED BY <1>6, <1>7
<1> QED BY <1>8

-----------------------------------------------------------------------------
(* A replay, state by state. *)

LedgerRow(codes) == [date : Nat \ {0}, time : Nat, code : codes, qty : Nat, amount : Int,
              type : {"OPENING", "BUY", "SELL", "DIVIDEND", "CASH_FEE", "COST_REBASE"}]

Position == [qty : Int, cost : Int, realized : Int, income : Int, fees : Int,
             open : BOOLEAN, ok : BOOLEAN]

\* The states of a replay: before the first row and after each row.
PositionRun(rows, code) ==
  CHOOSE f : f = [i \in 0..Len(rows) |->
                    IF i = 0 THEN Flat ELSE PositionStep(f[i - 1], rows, i, code)]

\* What a row does to each part of a state.
LEMMA BookedFields ==
  ASSUME NEW codes, NEW p \in Position, NEW row \in LedgerRow(codes), NEW q, q = Booked(p, row)
  PROVE  /\ q \in Position /\ q.realized = p.realized /\ q.ok = p.ok
         /\ q.open <=> p.open \/ Acquires(row)
         /\ q.qty = IF Acquires(row) THEN p.qty + row.qty
                    ELSE IF row.type = "SELL" THEN p.qty - row.qty ELSE p.qty
         /\ row.type = "COST_REBASE" => q.cost = row.amount /\ q.income = p.income /\ q.fees = p.fees
         /\ row.type # "COST_REBASE" => q.cost - q.income + q.fees = p.cost - p.income + p.fees - CashFlow(row)
         /\ p.open \/ row.type \in {"OPENING", "BUY", "SELL"} => q.income = p.income /\ q.fees = p.fees
         /\ ~ p.open /\ row.type \notin {"OPENING", "BUY", "SELL", "COST_REBASE"} => q.cost = p.cost
<1>0. row.qty \in Nat /\ row.amount \in Int
  BY DEF LedgerRow
<1>1. CASE Acquires(row)
  <2> DEFINE x == [p EXCEPT !.qty = @ + row.qty]
             y == [x EXCEPT !.cost = @ + row.amount]
             z == [y EXCEPT !.open = TRUE]
  <2>1. /\ x \in Position /\ x.qty = p.qty + row.qty /\ x.cost = p.cost /\ x.realized = p.realized
        /\ x.income = p.income /\ x.fees = p.fees /\ x.open = p.open /\ x.ok = p.ok
    BY <1>0 DEF Position
  <2> HIDE DEF x
  <2>2. /\ y \in Position /\ y.qty = x.qty /\ y.cost = x.cost + row.amount /\ y.realized = x.realized
        /\ y.income = x.income /\ y.fees = x.fees /\ y.open = x.open /\ y.ok = x.ok
    BY <1>0, <2>1 DEF Position
  <2> HIDE DEF y
  <2>3. /\ z \in Position /\ z.qty = y.qty /\ z.cost = y.cost /\ z.realized = y.realized
        /\ z.income = y.income /\ z.fees = y.fees /\ z.open = TRUE /\ z.ok = y.ok
    BY <2>2 DEF Position
  <2> HIDE DEF z
  <2>4. Booked(p, row) = z
    BY <1>1 DEF Booked, x, y, z, Acquires
  <2>5. row.type \in {"OPENING", "BUY"}
    BY <1>1 DEF Acquires
  <2>6. p.cost \in Int /\ p.income \in Int /\ p.fees \in Int
    BY DEF Position
  <2>7. q = z /\ CashFlow(row) = 0 - row.amount
    BY <1>1, <2>4 DEF CashFlow
  <2>8. q.qty = p.qty + row.qty /\ q.cost = p.cost + row.amount /\ q.open
    BY <2>1, <2>2, <2>3, <2>7
  <2>9. q.cost - q.income + q.fees = p.cost - p.income + p.fees - CashFlow(row)
    BY <1>0, <2>1, <2>2, <2>3, <2>6, <2>7, <2>8
  <2> QED BY <1>1, <2>1, <2>2, <2>3, <2>5, <2>7, <2>8, <2>9
<1>2. CASE row.type = "SELL"
  <2> DEFINE x == [p EXCEPT !.qty = @ - row.qty]
             y == [x EXCEPT !.cost = @ - row.amount]
  <2>1. /\ x \in Position /\ x.qty = p.qty - row.qty /\ x.cost = p.cost /\ x.realized = p.realized
        /\ x.income = p.income /\ x.fees = p.fees /\ x.open = p.open /\ x.ok = p.ok
    BY <1>0 DEF Position
  <2> HIDE DEF x
  <2>2. /\ y \in Position /\ y.qty = x.qty /\ y.cost = x.cost - row.amount /\ y.realized = x.realized
        /\ y.income = x.income /\ y.fees = x.fees /\ y.open = x.open /\ y.ok = x.ok
    BY <1>0, <2>1 DEF Position
  <2> HIDE DEF y
  <2>4. Booked(p, row) = y /\ ~ Acquires(row)
    BY <1>2 DEF Booked, x, y, Acquires
  <2>6. p.cost \in Int /\ p.income \in Int /\ p.fees \in Int
    BY DEF Position
  <2>7. q = y /\ CashFlow(row) = row.amount
    BY <1>2, <2>4 DEF CashFlow
  <2>8. q.qty = p.qty - row.qty /\ q.cost = p.cost - row.amount /\ (q.open <=> p.open)
    BY <2>1, <2>2, <2>7
  <2>9. q.cost - q.income + q.fees = p.cost - p.income + p.fees - CashFlow(row)
    BY <1>0, <2>1, <2>2, <2>6, <2>7, <2>8
  <2> QED BY <1>2, <2>1, <2>2, <2>4, <2>7, <2>8, <2>9
<1>3. CASE row.type \in {"DIVIDEND", "CASH_FEE", "COST_REBASE"}
  <2>1. ~ Acquires(row)
    BY <1>3 DEF Acquires
  <2>2. CASE row.type = "DIVIDEND"
    BY <1>0, <2>1, <2>2 DEF Booked, Position, CashFlow, Acquires
  <2>3. CASE row.type = "CASH_FEE"
    BY <1>0, <2>1, <2>3 DEF Booked, Position, CashFlow, Acquires
  <2>4. CASE row.type = "COST_REBASE"
    BY <1>0, <2>1, <2>4 DEF Booked, Position, CashFlow, Acquires
  <2> QED BY <1>3, <2>2, <2>3, <2>4
<1> QED BY <1>1, <1>2, <1>3 DEF LedgerRow, Acquires

LEMMA DayClosedFields ==
  ASSUME NEW p \in Position, NEW rows, NEW i, NEW q, q = DayClosed(p, rows, i)
  PROVE  /\ q \in Position /\ q.qty = p.qty /\ q.ok = p.ok /\ q.income = p.income /\ q.fees = p.fees
         /\ q.open <=> p.open /\ ~ (DayEnd(rows, i) /\ p.qty = 0)
         /\ q.realized - q.cost = p.realized - p.cost
         /\ q.cost = IF DayEnd(rows, i) /\ p.qty = 0 /\ p.open THEN 0 ELSE p.cost
<1>1. CASE DayEnd(rows, i) /\ p.qty = 0 /\ p.open
  <2> DEFINE x == [p EXCEPT !.realized = @ - p.cost]
             y == [x EXCEPT !.cost = 0]
             z == [y EXCEPT !.open = FALSE]
  <2>1. /\ x \in Position /\ x.qty = p.qty /\ x.cost = p.cost /\ x.realized = p.realized - p.cost
        /\ x.income = p.income /\ x.fees = p.fees /\ x.open = p.open /\ x.ok = p.ok
    BY DEF Position
  <2> HIDE DEF x
  <2>2. /\ y \in Position /\ y.qty = x.qty /\ y.cost = 0 /\ y.realized = x.realized
        /\ y.income = x.income /\ y.fees = x.fees /\ y.open = x.open /\ y.ok = x.ok
    BY <2>1 DEF Position
  <2> HIDE DEF y
  <2>3. /\ z \in Position /\ z.qty = y.qty /\ z.cost = y.cost /\ z.realized = y.realized
        /\ z.income = y.income /\ z.fees = y.fees /\ z.open = FALSE /\ z.ok = y.ok
    BY <2>2 DEF Position
  <2> HIDE DEF z
  <2>4. DayClosed(p, rows, i) = z
    BY <1>1 DEF DayClosed, x, y, z
  <2>5. p.cost \in Int /\ p.realized \in Int
    BY DEF Position
  <2>6. q.cost = 0 /\ q.realized - q.cost = p.realized - p.cost
    BY <2>1, <2>2, <2>3, <2>4, <2>5
  <2> QED BY <1>1, <2>1, <2>2, <2>3, <2>4, <2>6
<1>2. CASE ~ (DayEnd(rows, i) /\ p.qty = 0 /\ p.open)
  <2>1. DayClosed(p, rows, i) = p
    BY <1>2 DEF DayClosed
  <2>2. p.open \in BOOLEAN
    BY DEF Position
  <2> QED BY <1>2, <2>1, <2>2
<1> QED BY <1>1, <1>2

LEMMA PositionStepType ==
  ASSUME NEW codes, NEW rows \in Seq(LedgerRow(codes)), NEW i \in 1..Len(rows), NEW code, NEW p \in Position
  PROVE  PositionStep(p, rows, i, code) \in Position
<1>0. rows[i] \in LedgerRow(codes)
  OBVIOUS
<1>1. Booked(p, rows[i]) \in Position
  BY <1>0, BookedFields, Zenon
<1>2. DayClosed(Booked(p, rows[i]), rows, i) \in Position
  BY <1>1, DayClosedFields
<1>3. [p EXCEPT !.ok = FALSE] \in Position
  BY DEF Position
<1> QED BY <1>2, <1>3 DEF PositionStep

LEMMA PositionRuns ==
  ASSUME NEW codes, NEW rows \in Seq(LedgerRow(codes)), NEW code
  PROVE  /\ PositionRun(rows, code) \in [0..Len(rows) -> Position]
         /\ PositionRun(rows, code)[0] = Flat
         /\ \A i \in 1..Len(rows) :
              PositionRun(rows, code)[i] = PositionStep(PositionRun(rows, code)[i - 1], rows, i, code)
         /\ PositionState(rows, code) = PositionRun(rows, code)[Len(rows)]
<1> DEFINE n == Len(rows)
           F == [i \in 1..n |-> [p \in Position |-> PositionStep(p, rows, i, code)]]
<1>1. n \in Nat
  OBVIOUS
<1>2. F \in [1..n -> [Position -> Position]]
  BY PositionStepType
<1>3. Flat \in Position
  BY DEF Flat, Position
<1>4. PICK f \in [0..n -> Position] : f[0] = Flat /\ \A i \in 1..n : f[i] = F[i][f[i - 1]]
  <2> HIDE DEF F, n
  <2>1. \E f \in [0..n -> Position] : IsRun(f, n, Flat, F)
    BY <1>1, <1>2, <1>3, Recursion
  <2> QED BY <2>1 DEF IsRun
<1>5. \A i \in 1..n : f[i] = PositionStep(f[i - 1], rows, i, code)
  <2> SUFFICES ASSUME NEW i \in 1..n PROVE f[i] = PositionStep(f[i - 1], rows, i, code)
    OBVIOUS
  <2>1. i - 1 \in 0..n
    OBVIOUS
  <2>2. f[i - 1] \in Position
    BY <2>1, <1>4
  <2> QED BY <1>4, <2>2
<1> HIDE DEF F
<1>6. f = [i \in 0..n |-> IF i = 0 THEN Flat ELSE PositionStep(f[i - 1], rows, i, code)]
  BY <1>4, <1>5
<1> DEFINE g == PositionRun(rows, code)
<1>7. g = [i \in 0..n |-> IF i = 0 THEN Flat ELSE PositionStep(g[i - 1], rows, i, code)]
  BY <1>6 DEF PositionRun
<1> HIDE DEF g
<1>8. g[0] = Flat /\ \A i \in 1..n : g[i] = PositionStep(g[i - 1], rows, i, code)
  BY <1>1, <1>7
<1>9. g \in [0..n -> Position]
  <2> DEFINE bad == {k \in 0..n : g[k] \notin Position}
  <2>1. ASSUME bad # {} PROVE FALSE
    <3>1. PICK k \in bad : \A j \in bad : k <= j
      <4>1. bad \in SUBSET Nat
        BY <1>1
      <4> HIDE DEF bad
      <4> QED BY <2>1, <4>1, LeastNumber
    <3>2. k # 0
      BY <1>3, <1>8
    <3>3. k \in 1..n /\ k - 1 \in 0..n /\ k - 1 \notin bad
      BY <1>1, <3>1, <3>2
    <3>4. g[k - 1] \in Position
      BY <3>3
    <3>5. g[k] \in Position
      BY <1>8, <3>3, <3>4, PositionStepType
    <3> QED BY <3>5
  <2> QED BY <1>7, <2>1
<1>10. PositionState(rows, code) = g[n]
  BY DEF PositionState, g, PositionRun
<1> QED BY <1>8, <1>9, <1>10 DEF g

-----------------------------------------------------------------------------
(* Sums. *)

TotalRun(v) == CHOOSE f : f = [i \in 0..Len(v) |-> IF i = 0 THEN 0 ELSE f[i - 1] + v[i]]

LEMMA TotalRuns ==
  ASSUME NEW v \in Seq(Int)
  PROVE  /\ TotalRun(v) \in [0..Len(v) -> Int]
         /\ TotalRun(v)[0] = 0
         /\ \A i \in 1..Len(v) : TotalRun(v)[i] = TotalRun(v)[i - 1] + v[i]
         /\ Total(v) = TotalRun(v)[Len(v)]
<1> DEFINE n == Len(v)
           F == [i \in 1..n |-> [t \in Int |-> t + v[i]]]
<1>1. n \in Nat /\ \A i \in 1..n : v[i] \in Int
  OBVIOUS
<1>2. F \in [1..n -> [Int -> Int]] /\ 0 \in Int
  BY <1>1
<1>3. PICK f \in [0..n -> Int] : f[0] = 0 /\ \A i \in 1..n : f[i] = F[i][f[i - 1]]
  <2> HIDE DEF F, n
  <2>1. \E f \in [0..n -> Int] : IsRun(f, n, 0, F)
    BY <1>1, <1>2, Recursion
  <2> QED BY <2>1 DEF IsRun
<1>4. \A i \in 1..n : f[i] = f[i - 1] + v[i]
  <2> SUFFICES ASSUME NEW i \in 1..n PROVE f[i] = f[i - 1] + v[i]
    OBVIOUS
  <2>1. i - 1 \in 0..n
    OBVIOUS
  <2>2. f[i - 1] \in Int
    BY <2>1, <1>3
  <2> QED BY <1>3, <2>2
<1> HIDE DEF F
<1>5. f = [i \in 0..n |-> IF i = 0 THEN 0 ELSE f[i - 1] + v[i]]
  BY <1>3, <1>4
<1> DEFINE g == TotalRun(v)
<1>6. g = [i \in 0..n |-> IF i = 0 THEN 0 ELSE g[i - 1] + v[i]]
  BY <1>5 DEF TotalRun
<1> HIDE DEF g
<1>7. g[0] = 0 /\ \A i \in 1..n : g[i] = g[i - 1] + v[i]
  BY <1>1, <1>6
<1>8. g \in [0..n -> Int]
  <2> DEFINE T == {i \in 0..n : g[i] \in Int}
  <2>1. \A i \in 0..n : i \in T
    <3>1. 0 \in T /\ \A i \in 1..n : i - 1 \in T => i \in T
      BY <1>1, <1>7
    <3> HIDE DEF T
    <3> QED BY <1>1, <3>1, UpTo
  <2> QED BY <1>6, <2>1
<1>9. Total(v) = g[n]
  BY DEF Total, g, TotalRun
<1> QED BY <1>7, <1>8, <1>9 DEF g

LEMMA TotalAppend ==
  ASSUME NEW v \in Seq(Int), NEW x \in Int
  PROVE  Total(Append(v, x)) = Total(v) + x /\ Total(v) \in Int
<1> DEFINE w == Append(v, x)
           n == Len(v)
           g == TotalRun(w)
           f == TotalRun(v)
           T == {i \in 0..n : g[i] = f[i]}
<1>1. w \in Seq(Int) /\ Len(w) = n + 1 /\ w[n + 1] = x /\ n \in Nat /\ \A i \in 1..n : w[i] = v[i]
  OBVIOUS
<1> HIDE DEF w
<1>2. /\ g[0] = 0 /\ \A i \in 1..(n + 1) : g[i] = g[i - 1] + w[i]
      /\ Total(w) = g[n + 1]
  BY <1>1, TotalRuns
<1>3. /\ f[0] = 0 /\ \A i \in 1..n : f[i] = f[i - 1] + v[i]
      /\ Total(v) = f[n] /\ f \in [0..n -> Int]
  BY TotalRuns
<1> HIDE DEF g, f
<1>4. 0 \in T /\ \A i \in 1..n : i - 1 \in T => i \in T
  BY <1>1, <1>2, <1>3
<1>5. n \in T
  <2>1. n \in 0..n
    BY <1>1
  <2>2. \A i \in 0..n : i \in T
    <3> HIDE DEF T
    <3> QED BY <1>1, <1>4, UpTo
  <2> HIDE DEF T
  <2> QED BY <2>1, <2>2
<1>6. g[n + 1] = g[n] + w[n + 1]
  BY <1>1, <1>2
<1> QED BY <1>1, <1>2, <1>3, <1>5, <1>6 DEF w

LEMMA TotalEmpty == Total(<<>>) = 0
<1>1. <<>> \in Seq(Int) /\ Len(<<>>) = 0
  OBVIOUS
<1> QED BY <1>1, TotalRuns

-----------------------------------------------------------------------------
(* The books balance. *)

LEMMA BalancesAdd ==
  ASSUME NEW p \in Position, NEW b \in Position, NEW q \in Position, NEW flow \in Int,
         q.realized - q.cost = b.realized - b.cost, b.realized = p.realized,
         q.income = b.income, q.fees = b.fees,
         b.cost - b.income + b.fees = p.cost - p.income + p.fees - flow
  PROVE  q.realized - q.cost + q.income - q.fees = p.realized - p.cost + p.income - p.fees + flow
<1>1. /\ p.realized \in Int /\ p.cost \in Int /\ p.income \in Int /\ p.fees \in Int
      /\ b.realized \in Int /\ b.cost \in Int /\ b.income \in Int /\ b.fees \in Int
      /\ q.realized \in Int /\ q.cost \in Int /\ q.income \in Int /\ q.fees \in Int
  BY DEF Position
<1> QED BY <1>1

LEMMA StepBalances ==
  ASSUME NEW codes, NEW rows \in Seq(LedgerRow(codes)), NEW code, NEW i \in 1..Len(rows), NEW p \in Position,
         NEW q, q = PositionStep(p, rows, i, code), q.ok,
         rows[i].code = code => rows[i].type # "COST_REBASE"
  PROVE  /\ p.ok
         /\ q.realized - q.cost + q.income - q.fees
              = p.realized - p.cost + p.income - p.fees + FlowOf(rows[i], code)
<1>0. rows[i] \in LedgerRow(codes)
  OBVIOUS
<1>1. p.ok
  BY DEF PositionStep
<1>2. /\ p.realized \in Int /\ p.cost \in Int /\ p.income \in Int /\ p.fees \in Int
      /\ rows[i].amount \in Int
  BY <1>0 DEF Position, LedgerRow
<1>3. CASE rows[i].code # code
  BY <1>1, <1>2, <1>3 DEF PositionStep, FlowOf
<1>4. CASE rows[i].code = code
  <2> DEFINE b == Booked(p, rows[i])
  <2>1. q = DayClosed(b, rows, i)
    <3>1. ~ Bookable(p, rows[i]) => ~ q.ok
      BY <1>1, <1>4 DEF PositionStep, Position
    <3> QED BY <1>1, <1>4, <3>1 DEF PositionStep
  <2>2. /\ b \in Position /\ b.realized = p.realized
        /\ b.cost - b.income + b.fees = p.cost - p.income + p.fees - CashFlow(rows[i])
    BY <1>0, <1>4, BookedFields
  <2>3. q \in Position /\ q.income = b.income /\ q.fees = b.fees /\ q.realized - q.cost = b.realized - b.cost
    <3> HIDE DEF b
    <3> QED BY <2>1, <2>2, DayClosedFields
  <2>4. /\ q.realized \in Int /\ q.cost \in Int /\ q.income \in Int /\ q.fees \in Int
        /\ b.realized \in Int /\ b.cost \in Int /\ b.income \in Int /\ b.fees \in Int
    BY <2>2, <2>3 DEF Position
  <2>5. CashFlow(rows[i]) \in Int /\ FlowOf(rows[i], code) = CashFlow(rows[i])
    BY <1>2, <1>4 DEF CashFlow, FlowOf
  <2> HIDE DEF b
  <2>6. q.realized - q.cost + q.income - q.fees
          = p.realized - p.cost + p.income - p.fees + CashFlow(rows[i])
    BY <2>2, <2>3, <2>5, BalancesAdd
  <2> QED BY <1>1, <2>5, <2>6
<1> QED BY <1>3, <1>4

(* No money appears or vanishes: of a replay that raises nothing, realised   *)
(* profit, cash income and remaining cost account for every flow of the      *)
(* security, as long as no cost was rebased (build_position_states).         *)
THEOREM ReplayBalances ==
  ASSUME NEW codes, NEW rows \in Seq(LedgerRow(codes)), NEW code, PositionState(rows, code).ok
  PROVE  Balanced(rows, code)
<1> SUFFICES ASSUME \A i \in DOMAIN rows : rows[i].code = code => rows[i].type # "COST_REBASE"
             PROVE  LET p == PositionState(rows, code)
                    IN p.realized - p.cost + p.income - p.fees
                         = Total([i \in DOMAIN rows |-> FlowOf(rows[i], code)])
  BY DEF Balanced
<1> DEFINE n == Len(rows)
           v == [i \in DOMAIN rows |-> FlowOf(rows[i], code)]
           g == PositionRun(rows, code)
           t == TotalRun(v)
           Left(p) == p.realized - p.cost + p.income - p.fees
           T == {i \in 0..n : g[i].ok => Left(g[i]) = t[i]}
<1>1. n \in Nat /\ v \in Seq(Int) /\ Len(v) = n /\ \A i \in 1..n : v[i] = FlowOf(rows[i], code)
  <2>1. ASSUME NEW i \in DOMAIN rows PROVE FlowOf(rows[i], code) \in Int
    <3>1. rows[i] \in LedgerRow(codes)
      OBVIOUS
    <3>2. rows[i].amount \in Int
      BY <3>1 DEF LedgerRow
    <3> QED BY <3>2 DEF FlowOf, CashFlow
  <2>2. DOMAIN rows = 1..n /\ n \in Nat
    OBVIOUS
  <2> QED BY <2>1, <2>2
<1> HIDE DEF v
<1>2. /\ g \in [0..n -> Position] /\ g[0] = Flat
      /\ \A i \in 1..n : g[i] = PositionStep(g[i - 1], rows, i, code)
      /\ PositionState(rows, code) = g[n]
  BY PositionRuns
<1>3. /\ t \in [0..n -> Int] /\ t[0] = 0
      /\ \A i \in 1..n : t[i] = t[i - 1] + v[i]
      /\ Total(v) = t[n]
  BY <1>1, TotalRuns
<1> HIDE DEF g, t
<1>4. 0 \in T
  BY <1>1, <1>2, <1>3 DEF Flat
<1>5. ASSUME NEW i \in 1..n, i - 1 \in T PROVE i \in T
  <2>1. i - 1 \in 0..n /\ g[i - 1] \in Position /\ i \in 0..n
    BY <1>1, <1>2
  <2>2. ASSUME g[i].ok PROVE Left(g[i]) = t[i]
    <3>1. g[i - 1].ok /\ Left(g[i]) = Left(g[i - 1]) + FlowOf(rows[i], code)
      BY <1>2, <2>1, <2>2, StepBalances
    <3>2. Left(g[i - 1]) = t[i - 1]
      BY <1>5, <3>1
    <3> QED BY <1>1, <1>3, <3>1, <3>2
  <2> QED BY <2>1, <2>2
<1>6. n \in T
  <2>1. n \in 0..n
    BY <1>1
  <2>2. \A i \in 0..n : i \in T
    <3> HIDE DEF T
    <3> QED BY <1>1, <1>4, <1>5, UpTo
  <2> HIDE DEF T
  <2> QED BY <2>1, <2>2
<1> QED BY <1>2, <1>3, <1>6 DEF v

-----------------------------------------------------------------------------
(* The three replays of one ledger. *)

Cycle == [opened : Nat, closed : Nat, basis : Int, proceeds : Int, income : Int, fees : Int]

CycleState == [qty : Int, cost : Int, active : Seq(Cycle), closed : Seq(Cycle)]

LedgerCycle == [opened : Nat, closed : Nat, rows : SUBSET Nat]

LedgerState == [qty : Int, cycles : Seq(LedgerCycle)]

CycleRun(rows, code) ==
  CHOOSE f : f = [i \in 0..Len(rows) |->
                    IF i = 0 THEN NoCycles ELSE CycleStep(f[i - 1], rows, i, code)]

LedgerRun(rows, code) ==
  CHOOSE f : f = [i \in 0..Len(rows) |->
                    IF i = 0 THEN [qty |-> 0, cycles |-> <<>>] ELSE LedgerStep(f[i - 1], rows, i, code)]

\* What a row does to the open cycle: the remaining cost is what the cycle has
\* not yet earned.
LEMMA CycleBookedFields ==
  ASSUME NEW codes, NEW a \in Cycle, NEW cost \in Int, NEW row \in LedgerRow(codes), NEW b, b = CycleBooked(a, cost, row)
  PROVE  /\ b \in Cycle /\ b.opened = a.opened /\ b.closed = a.closed
         /\ CycleCost(cost, row) \in Int
         /\ cost = 0 - RealizedPnl(a) => CycleCost(cost, row) = 0 - RealizedPnl(b)
<1>0. row.amount \in Int
  BY DEF LedgerRow
<1>1. /\ a.basis \in Int /\ a.proceeds \in Int /\ a.income \in Int /\ a.fees \in Int
  BY DEF Cycle
<1>2. CASE Acquires(row)
  <2>1. b = [a EXCEPT !.basis = @ + row.amount] /\ CycleCost(cost, row) = cost + row.amount
    BY <1>2 DEF CycleBooked, CycleCost, Acquires
  <2>2. /\ b \in Cycle /\ b.opened = a.opened /\ b.closed = a.closed /\ b.basis = a.basis + row.amount
        /\ b.proceeds = a.proceeds /\ b.income = a.income /\ b.fees = a.fees
    BY <1>0, <1>1, <2>1 DEF Cycle
  <2> QED BY <1>0, <1>1, <2>1, <2>2 DEF RealizedPnl
<1>3. CASE row.type = "SELL"
  <2>1. b = [a EXCEPT !.proceeds = @ + row.amount] /\ CycleCost(cost, row) = cost - row.amount
    BY <1>3 DEF CycleBooked, CycleCost, Acquires
  <2>2. /\ b \in Cycle /\ b.opened = a.opened /\ b.closed = a.closed /\ b.basis = a.basis
        /\ b.proceeds = a.proceeds + row.amount /\ b.income = a.income /\ b.fees = a.fees
    BY <1>0, <1>1, <2>1 DEF Cycle
  <2> QED BY <1>0, <1>1, <2>1, <2>2 DEF RealizedPnl
<1>4. CASE row.type = "DIVIDEND"
  <2>1. b = [a EXCEPT !.income = @ + row.amount] /\ CycleCost(cost, row) = cost - row.amount
    BY <1>4 DEF CycleBooked, CycleCost, Acquires
  <2>2. /\ b \in Cycle /\ b.opened = a.opened /\ b.closed = a.closed /\ b.basis = a.basis
        /\ b.proceeds = a.proceeds /\ b.income = a.income + row.amount /\ b.fees = a.fees
    BY <1>0, <1>1, <2>1 DEF Cycle
  <2> QED BY <1>0, <1>1, <2>1, <2>2 DEF RealizedPnl
<1>5. CASE row.type = "CASH_FEE"
  <2>1. b = [a EXCEPT !.fees = @ + row.amount] /\ CycleCost(cost, row) = cost + row.amount
    BY <1>5 DEF CycleBooked, CycleCost, Acquires
  <2>2. /\ b \in Cycle /\ b.opened = a.opened /\ b.closed = a.closed /\ b.basis = a.basis
        /\ b.proceeds = a.proceeds /\ b.income = a.income /\ b.fees = a.fees + row.amount
    BY <1>0, <1>1, <2>1 DEF Cycle
  <2> QED BY <1>0, <1>1, <2>1, <2>2 DEF RealizedPnl
<1>6. CASE row.type = "COST_REBASE"
  <2>1. b = [a EXCEPT !.basis = @ + row.amount - cost] /\ CycleCost(cost, row) = row.amount
    BY <1>6 DEF CycleBooked, CycleCost, Acquires
  <2>2. /\ b \in Cycle /\ b.opened = a.opened /\ b.closed = a.closed
        /\ b.basis = a.basis + row.amount - cost
        /\ b.proceeds = a.proceeds /\ b.income = a.income /\ b.fees = a.fees
    BY <1>0, <1>1, <2>1 DEF Cycle
  <2> QED BY <1>0, <1>1, <2>1, <2>2 DEF RealizedPnl
<1> QED BY <1>2, <1>3, <1>4, <1>5, <1>6 DEF LedgerRow, Acquires

\* The cycle a row is booked to, as a sequence: the open one, or the one it opens.
Opens(s, row) == IF Acquires(row) /\ s.active = <<>> THEN << NewCycle(row.date) >> ELSE s.active

\* The ledger cycles a row is booked to.
OpensRows(l, row) ==
  IF Acquires(row) /\ ~InCycle(l.cycles)
  THEN Append(l.cycles, [opened |-> row.date, closed |-> Never, rows |-> {}])
  ELSE l.cycles

LEMMA CycleQtyType ==
  ASSUME NEW codes, NEW qty \in Int, NEW row \in LedgerRow(codes)
  PROVE  CycleQty(qty, row) \in Int
  BY DEF CycleQty, LedgerRow

LEMMA CycleCostType ==
  ASSUME NEW codes, NEW cost \in Int, NEW row \in LedgerRow(codes)
  PROVE  CycleCost(cost, row) \in Int
<1>1. /\ row.amount \in Int
      /\ row.type \in {"OPENING", "BUY", "SELL", "DIVIDEND", "CASH_FEE", "COST_REBASE"}
  BY DEF LedgerRow
<1> QED BY <1>1 DEF CycleCost, Acquires

LEMMA OpensType ==
  ASSUME NEW codes, NEW s \in CycleState, NEW row \in LedgerRow(codes)
  PROVE  Opens(s, row) \in Seq(Cycle)
<1>1. s.active \in Seq(Cycle)
  BY DEF CycleState
<1>2. row.date \in Nat
  BY DEF LedgerRow
<1>3. NewCycle(row.date) \in Cycle
  BY <1>2 DEF NewCycle, Cycle, Never
<1>4. << NewCycle(row.date) >> \in Seq(Cycle)
  BY <1>3
<1> QED BY <1>1, <1>4 DEF Opens

LEMMA CycleStepType ==
  ASSUME NEW codes, NEW rows \in Seq(LedgerRow(codes)), NEW i \in 1..Len(rows), NEW code, NEW s \in CycleState
  PROVE  CycleStep(s, rows, i, code) \in CycleState
<1> DEFINE row == rows[i]
           active == Opens(s, row)
           qty == CycleQty(s.qty, row)
           b == CycleBooked(active[1], s.cost, row)
<1>1. /\ s.qty \in Int /\ s.cost \in Int /\ s.active \in Seq(Cycle) /\ s.closed \in Seq(Cycle)
  BY DEF CycleState
<1>2. row \in LedgerRow(codes)
  OBVIOUS
<1> HIDE DEF row
<1>3. active \in Seq(Cycle) /\ qty \in Int /\ row.date \in Nat
  BY <1>1, <1>2, OpensType, CycleQtyType DEF LedgerRow
<1>4. CycleStep(s, rows, i, code) =
        IF row.code # code THEN s
        ELSE IF active = <<>> THEN [s EXCEPT !.qty = qty]
        ELSE IF DayEnd(rows, i) /\ qty = 0
        THEN [qty |-> qty, cost |-> 0, active |-> <<>>,
              closed |-> Append(s.closed, [b EXCEPT !.closed = row.date])]
        ELSE [qty |-> qty, cost |-> CycleCost(s.cost, row), active |-> << b >>, closed |-> s.closed]
  BY DEF CycleStep, Opens, row
<1> HIDE DEF active, qty, b
<1>5. [s EXCEPT !.qty = qty] \in CycleState
  BY <1>3 DEF CycleState
<1>6. ASSUME active # <<>>
      PROVE  /\ [qty |-> qty, cost |-> 0, active |-> <<>>,
                 closed |-> Append(s.closed, [b EXCEPT !.closed = row.date])] \in CycleState
             /\ [qty |-> qty, cost |-> CycleCost(s.cost, row), active |-> << b >>,
                 closed |-> s.closed] \in CycleState
  <2>1. active[1] \in Cycle
    BY <1>3, <1>6
  <2>2. b \in Cycle /\ CycleCost(s.cost, row) \in Int
    <3>1. b = CycleBooked(active[1], s.cost, row)
      BY DEF b
    <3>2. s.cost \in Int
      BY <1>1
    <3>3. b \in Cycle
      BY <1>2, <2>1, <3>1, <3>2, CycleBookedFields, Zenon
    <3>4. CycleCost(s.cost, row) \in Int
      BY <1>2, <3>2, CycleCostType
    <3> QED BY <3>3, <3>4
  <2>3. [b EXCEPT !.closed = row.date] \in Cycle
    BY <1>3, <2>2 DEF Cycle
  <2>4. Append(s.closed, [b EXCEPT !.closed = row.date]) \in Seq(Cycle) /\ << b >> \in Seq(Cycle)
        /\ <<>> \in Seq(Cycle)
    BY <1>1, <2>2, <2>3
  <2> QED BY <1>1, <1>3, <2>2, <2>4 DEF CycleState
<1> QED BY <1>4, <1>5, <1>6

LEMMA CycleRuns ==
  ASSUME NEW codes, NEW rows \in Seq(LedgerRow(codes)), NEW code
  PROVE  /\ CycleRun(rows, code) \in [0..Len(rows) -> CycleState]
         /\ CycleRun(rows, code)[0] = NoCycles
         /\ \A i \in 1..Len(rows) :
              CycleRun(rows, code)[i] = CycleStep(CycleRun(rows, code)[i - 1], rows, i, code)
         /\ CycleReplay(rows, code) = CycleRun(rows, code)[Len(rows)]
<1> DEFINE n == Len(rows)
           F == [i \in 1..n |-> [s \in CycleState |-> CycleStep(s, rows, i, code)]]
<1>1. n \in Nat
  OBVIOUS
<1>2. F \in [1..n -> [CycleState -> CycleState]]
  BY CycleStepType
<1>3. NoCycles \in CycleState
  <2>1. <<>> \in Seq(Cycle)
    OBVIOUS
  <2> QED BY <2>1 DEF NoCycles, CycleState
<1>4. PICK f \in [0..n -> CycleState] : f[0] = NoCycles /\ \A i \in 1..n : f[i] = F[i][f[i - 1]]
  <2> HIDE DEF F, n
  <2>1. \E f \in [0..n -> CycleState] : IsRun(f, n, NoCycles, F)
    BY <1>1, <1>2, <1>3, Recursion
  <2> QED BY <2>1 DEF IsRun
<1>5. \A i \in 1..n : f[i] = CycleStep(f[i - 1], rows, i, code)
  <2> SUFFICES ASSUME NEW i \in 1..n PROVE f[i] = CycleStep(f[i - 1], rows, i, code)
    OBVIOUS
  <2>1. i - 1 \in 0..n
    OBVIOUS
  <2>2. f[i - 1] \in CycleState
    BY <2>1, <1>4
  <2> QED BY <1>4, <2>2
<1> HIDE DEF F
<1>6. f = [i \in 0..n |-> IF i = 0 THEN NoCycles ELSE CycleStep(f[i - 1], rows, i, code)]
  BY <1>4, <1>5
<1> DEFINE g == CycleRun(rows, code)
<1>7. g = [i \in 0..n |-> IF i = 0 THEN NoCycles ELSE CycleStep(g[i - 1], rows, i, code)]
  BY <1>6 DEF CycleRun
<1> HIDE DEF g
<1>8. g[0] = NoCycles /\ \A i \in 1..n : g[i] = CycleStep(g[i - 1], rows, i, code)
  BY <1>1, <1>7
<1>9. g \in [0..n -> CycleState]
  <2> DEFINE T == {i \in 0..n : g[i] \in CycleState}
  <2>1. \A i \in 0..n : i \in T
    <3>1. 0 \in T
      BY <1>1, <1>3, <1>8
    <3>2. \A i \in 1..n : i - 1 \in T => i \in T
      BY <1>1, <1>8, CycleStepType
    <3> HIDE DEF T
    <3> QED BY <1>1, <3>1, <3>2, UpTo
  <2> QED BY <1>7, <2>1
<1>10. CycleReplay(rows, code) = g[n]
  BY DEF CycleReplay, g, CycleRun
<1> QED BY <1>8, <1>9, <1>10 DEF g

\* A sequence with one element replaced.
LEMMA Replaced ==
  ASSUME NEW S, NEW s \in Seq(S), NEW k \in 1..Len(s), NEW x \in S, NEW t, t = [s EXCEPT ![k] = x]
  PROVE  /\ t \in Seq(S) /\ Len(t) = Len(s) /\ t[k] = x
         /\ \A j \in 1..Len(s) : j # k => t[j] = s[j]
  OBVIOUS

LEMMA LedgerStepType ==
  ASSUME NEW codes, NEW rows \in Seq(LedgerRow(codes)), NEW i \in 1..Len(rows), NEW code, NEW l \in LedgerState
  PROVE  LedgerStep(l, rows, i, code) \in LedgerState
<1> DEFINE row == rows[i]
           cycles == OpensRows(l, row)
           last == Len(cycles)
           qty == CycleQty(l.qty, row)
           joined == [cycles EXCEPT ![last].rows = @ \union {i}]
<1>1. l.qty \in Int /\ l.cycles \in Seq(LedgerCycle)
  BY DEF LedgerState
<1>2. row \in LedgerRow(codes) /\ i \in Nat
  OBVIOUS
<1> HIDE DEF row
<1>3. qty \in Int /\ row.date \in Nat
  BY <1>1, <1>2, CycleQtyType DEF LedgerRow
<1>4. cycles \in Seq(LedgerCycle)
  <2>1. [opened |-> row.date, closed |-> Never, rows |-> {}] \in LedgerCycle
    BY <1>3 DEF LedgerCycle, Never
  <2> QED BY <1>1, <2>1 DEF OpensRows
<1>5. LedgerStep(l, rows, i, code) =
        IF row.code # code THEN l
        ELSE IF ~InCycle(cycles) THEN [l EXCEPT !.qty = qty]
        ELSE IF DayEnd(rows, i) /\ qty = 0
        THEN [qty |-> qty, cycles |-> [joined EXCEPT ![last].closed = row.date]]
        ELSE [qty |-> qty, cycles |-> joined]
  BY DEF LedgerStep, OpensRows, row
<1> HIDE DEF cycles, qty
<1>6. [l EXCEPT !.qty = qty] \in LedgerState
  BY <1>3 DEF LedgerState
<1>7. ASSUME InCycle(cycles)
      PROVE  /\ joined \in Seq(LedgerCycle) /\ Len(joined) = last
             /\ [joined EXCEPT ![last].closed = row.date] \in Seq(LedgerCycle)
  <2>1. last \in 1..Len(cycles)
    BY <1>4, <1>7 DEF InCycle
  <2>2. ASSUME NEW c \in LedgerCycle
        PROVE  [c EXCEPT !.rows = @ \union {i}] \in LedgerCycle /\ [c EXCEPT !.closed = row.date] \in LedgerCycle
    BY <1>2, <1>3 DEF LedgerCycle
  <2> DEFINE c == [cycles[last] EXCEPT !.rows = @ \union {i}]
             d == [joined[last] EXCEPT !.closed = row.date]
  <2>3. joined \in Seq(LedgerCycle) /\ Len(joined) = last
    <3>1. cycles[last] \in LedgerCycle
      BY <1>4, <2>1
    <3>2. c \in LedgerCycle
      BY <2>2, <3>1
    <3>3. joined = [cycles EXCEPT ![last] = c]
      BY Zenon
    <3> HIDE DEF joined, c
    <3> QED BY <1>4, <2>1, <3>2, <3>3, Replaced
  <2> HIDE DEF joined
  <2>4. [joined EXCEPT ![last].closed = row.date] \in Seq(LedgerCycle)
    <3>1. joined[last] \in LedgerCycle
      BY <2>1, <2>3
    <3>2. d \in LedgerCycle
      BY <2>2, <3>1
    <3>3. [joined EXCEPT ![last].closed = row.date] = [joined EXCEPT ![last] = d]
      BY Zenon
    <3>4. last \in 1..Len(joined)
      BY <2>1, <2>3
    <3> HIDE DEF d, last
    <3> QED BY <2>3, <3>2, <3>3, <3>4, Replaced
  <2> QED BY <2>3, <2>4
<1> HIDE DEF joined
<1> QED BY <1>3, <1>5, <1>6, <1>7 DEF LedgerState

LEMMA LedgerRuns ==
  ASSUME NEW codes, NEW rows \in Seq(LedgerRow(codes)), NEW code
  PROVE  /\ LedgerRun(rows, code) \in [0..Len(rows) -> LedgerState]
         /\ LedgerRun(rows, code)[0] = [qty |-> 0, cycles |-> <<>>]
         /\ \A i \in 1..Len(rows) :
              LedgerRun(rows, code)[i] = LedgerStep(LedgerRun(rows, code)[i - 1], rows, i, code)
         /\ LedgerCycles(rows, code) = LedgerRun(rows, code)[Len(rows)].cycles
<1> DEFINE n == Len(rows)
           none == [qty |-> 0, cycles |-> <<>>]
           F == [i \in 1..n |-> [l \in LedgerState |-> LedgerStep(l, rows, i, code)]]
<1>1. n \in Nat
  OBVIOUS
<1>2. F \in [1..n -> [LedgerState -> LedgerState]]
  BY LedgerStepType
<1>3. none \in LedgerState
  <2>1. <<>> \in Seq(LedgerCycle)
    OBVIOUS
  <2> QED BY <2>1 DEF LedgerState
<1>4. PICK f \in [0..n -> LedgerState] : f[0] = none /\ \A i \in 1..n : f[i] = F[i][f[i - 1]]
  <2> HIDE DEF F, n, none
  <2>1. \E f \in [0..n -> LedgerState] : IsRun(f, n, none, F)
    BY <1>1, <1>2, <1>3, Recursion
  <2> QED BY <2>1 DEF IsRun
<1>5. \A i \in 1..n : f[i] = LedgerStep(f[i - 1], rows, i, code)
  <2> SUFFICES ASSUME NEW i \in 1..n PROVE f[i] = LedgerStep(f[i - 1], rows, i, code)
    OBVIOUS
  <2>1. i - 1 \in 0..n
    OBVIOUS
  <2>2. f[i - 1] \in LedgerState
    BY <2>1, <1>4
  <2> QED BY <1>4, <2>2
<1> HIDE DEF F
<1>6. f = [i \in 0..n |-> IF i = 0 THEN none ELSE LedgerStep(f[i - 1], rows, i, code)]
  <2> HIDE DEF none
  <2> QED BY <1>4, <1>5
<1> DEFINE g == LedgerRun(rows, code)
<1>7. g = [i \in 0..n |-> IF i = 0 THEN none ELSE LedgerStep(g[i - 1], rows, i, code)]
  BY <1>6 DEF LedgerRun
<1>10. LedgerCycles(rows, code) = g[n].cycles
  BY DEF LedgerCycles, g, LedgerRun
<1> HIDE DEF g, none
<1>8. g[0] = none /\ \A i \in 1..n : g[i] = LedgerStep(g[i - 1], rows, i, code)
  BY <1>1, <1>7
<1>9. g \in [0..n -> LedgerState]
  <2> DEFINE T == {i \in 0..n : g[i] \in LedgerState}
  <2>1. \A i \in 0..n : i \in T
    <3>1. 0 \in T
      BY <1>1, <1>3, <1>8
    <3>2. \A i \in 1..n : i - 1 \in T => i \in T
      BY <1>1, <1>8, LedgerStepType
    <3> HIDE DEF T
    <3> QED BY <1>1, <3>1, <3>2, UpTo
  <2> QED BY <1>7, <2>1
<1> QED BY <1>8, <1>9, <1>10 DEF g, none

\* The closed cycles and the open one are, in this order, the ledger cycles.
Matches(active, closed, cycles) ==
  /\ \A k \in 1..Len(closed) : closed[k].closed # Never
  /\ Len(cycles) = Len(closed) + Len(active)
  /\ \A k \in 1..Len(closed) :
       cycles[k].opened = closed[k].opened /\ cycles[k].closed = closed[k].closed
  /\ active # <<>> => /\ Len(active) = 1
                      /\ cycles[Len(cycles)].opened = active[1].opened
                      /\ cycles[Len(cycles)].closed = Never

LEMMA MatchesInCycle ==
  ASSUME NEW active \in Seq(Cycle), NEW closed \in Seq(Cycle), NEW cycles \in Seq(LedgerCycle),
         Matches(active, closed, cycles)
  PROVE  InCycle(cycles) <=> active # <<>>
<1>1. CASE active # <<>>
  BY <1>1 DEF Matches, InCycle
<1>2. CASE active = <<>>
  <2>1. Len(cycles) = Len(closed) /\ Len(closed) \in Nat
    BY <1>2 DEF Matches
  <2>2. cycles # <<>> => Len(cycles) \in 1..Len(closed)
    BY <2>1
  <2> QED BY <1>2, <2>1, <2>2 DEF Matches, InCycle
<1> QED BY <1>1, <1>2

LEMMA MatchesOpened ==
  ASSUME NEW closed \in Seq(Cycle), NEW cycles \in Seq(LedgerCycle), Matches(<<>>, closed, cycles),
         NEW a \in Cycle, NEW c \in LedgerCycle, c.opened = a.opened, c.closed = Never
  PROVE  Matches(<<a>>, closed, Append(cycles, c))
<1> DEFINE more == Append(cycles, c)
<1>1. Len(cycles) = Len(closed) /\ Len(closed) \in Nat
  BY DEF Matches
<1>2. Len(more) = Len(closed) + 1 /\ more[Len(more)] = c /\ \A k \in 1..Len(closed) : more[k] = cycles[k]
  BY <1>1
<1>3. Len(<<a>>) = 1 /\ <<a>>[1] = a
  OBVIOUS
<1> HIDE DEF more
<1>4. Matches(<<a>>, closed, more)
  BY <1>2, <1>3 DEF Matches
<1> QED BY <1>4 DEF more

LEMMA MatchesBooked ==
  ASSUME NEW closed \in Seq(Cycle), NEW cycles \in Seq(LedgerCycle), NEW a \in Cycle,
         Matches(<<a>>, closed, cycles),
         NEW b \in Cycle, b.opened = a.opened,
         NEW c \in LedgerCycle, c.opened = cycles[Len(cycles)].opened, c.closed = cycles[Len(cycles)].closed
  PROVE  Matches(<<b>>, closed, [cycles EXCEPT ![Len(cycles)] = c])
<1> DEFINE last == Len(cycles)
           t == [cycles EXCEPT ![last] = c]
<1>1. last = Len(closed) + 1 /\ Len(closed) \in Nat
  BY DEF Matches
<1>2. last \in 1..Len(cycles) /\ t = [cycles EXCEPT ![last] = c]
  BY <1>1
<1>3. Len(t) = Len(closed) + 1 /\ t[Len(t)] = c /\ \A k \in 1..Len(closed) : t[k] = cycles[k]
  <2>1. Len(t) = last /\ t[last] = c /\ \A k \in 1..last : k # last => t[k] = cycles[k]
    <3> HIDE DEF t
    <3> QED BY <1>2, Replaced
  <2> HIDE DEF t, last
  <2> QED BY <1>1, <2>1
<1>4. Len(<<b>>) = 1 /\ <<b>>[1] = b /\ Len(<<a>>) = 1 /\ <<a>>[1] = a /\ <<a>> # <<>>
  OBVIOUS
<1> HIDE DEF t
<1>5. Matches(<<b>>, closed, t)
  BY <1>3, <1>4 DEF Matches
<1> QED BY <1>5 DEF t

LEMMA MatchesClosed ==
  ASSUME NEW closed \in Seq(Cycle), NEW cycles \in Seq(LedgerCycle), NEW a \in Cycle,
         Matches(<<a>>, closed, cycles),
         NEW b \in Cycle, b.opened = a.opened, b.closed # Never,
         NEW c \in LedgerCycle, c.opened = cycles[Len(cycles)].opened, c.closed = b.closed
  PROVE  Matches(<<>>, Append(closed, b), [cycles EXCEPT ![Len(cycles)] = c])
<1> DEFINE last == Len(cycles)
           t == [cycles EXCEPT ![last] = c]
           z == Append(closed, b)
<1>1. last = Len(closed) + 1 /\ Len(closed) \in Nat
  BY DEF Matches
<1>2. last \in 1..Len(cycles) /\ t = [cycles EXCEPT ![last] = c]
  BY <1>1
<1>3. Len(t) = Len(closed) + 1 /\ t[Len(closed) + 1] = c /\ \A k \in 1..Len(closed) : t[k] = cycles[k]
  <2>1. Len(t) = last /\ t[last] = c /\ \A k \in 1..last : k # last => t[k] = cycles[k]
    <3> HIDE DEF t
    <3> QED BY <1>2, Replaced
  <2> HIDE DEF t, last
  <2> QED BY <1>1, <2>1
<1>4. Len(z) = Len(closed) + 1 /\ z[Len(closed) + 1] = b /\ \A k \in 1..Len(closed) : z[k] = closed[k]
  OBVIOUS
<1>5. Len(<<a>>) = 1 /\ <<a>>[1] = a /\ <<a>> # <<>> /\ Len(<<>>) = 0
  OBVIOUS
<1>6. c.opened = b.opened
  BY <1>5 DEF Matches
<1>7. \A k \in 1..(Len(closed) + 1) : k \in 1..Len(closed) \/ k = Len(closed) + 1
  BY <1>1
<1> HIDE DEF t, z
<1>8. Matches(<<>>, z, t)
  <2>1. \A k \in 1..Len(z) : z[k].closed # Never
    BY <1>4, <1>7 DEF Matches
  <2>2. \A k \in 1..Len(z) : t[k].opened = z[k].opened /\ t[k].closed = z[k].closed
    BY <1>3, <1>4, <1>6, <1>7 DEF Matches
  <2>3. Len(t) = Len(z) + Len(<<>>)
    BY <1>1, <1>3, <1>4, <1>5
  <2> QED BY <2>1, <2>2, <2>3 DEF Matches
<1> QED BY <1>8 DEF t, z

LEMMA MatchesSpans ==
  ASSUME NEW active \in Seq(Cycle), NEW closed \in Seq(Cycle), NEW cycles \in Seq(LedgerCycle),
         Matches(active, closed, cycles), active # <<>> => active[1].closed = Never
  PROVE  SameSpans(closed \o active, cycles)
<1> DEFINE all == closed \o active
           n == Len(closed)
           m == Len(active)
<1>1. Len(all) = n + m /\ DOMAIN all = 1..Len(all) /\ n \in Nat /\ m \in Nat
  OBVIOUS
<1>2. \A k \in 1..n : all[k] = closed[k]
  OBVIOUS
<1>3. active # <<>> => all[n + 1] = active[1]
  OBVIOUS
<1>4. active = <<>> => m = 0
  OBVIOUS
<1>5. active # <<>> => m = 1
  BY DEF Matches
<1> HIDE DEF all
<1>6. Len(all) = Len(cycles)
  BY <1>1 DEF Matches
<1> HIDE DEF m
<1>7. ASSUME NEW k \in 1..Len(all)
      PROVE  all[k].opened = cycles[k].opened /\ all[k].closed = cycles[k].closed
  <2>1. CASE k \in 1..n
    BY <1>2, <2>1 DEF Matches
  <2>2. CASE k \notin 1..n
    <3>1. m # 0 /\ k \in Nat
      BY <1>1, <2>2
    <3>2. active # <<>> /\ m = 1
      BY <1>4, <1>5, <3>1
    <3>3. k = n + 1 /\ k = Len(cycles)
      <4> HIDE DEF n
      <4> QED BY <1>1, <1>6, <2>2, <3>2
    <3> QED BY <1>3, <3>2, <3>3 DEF Matches
  <2> QED BY <2>1, <2>2
<1>8. SameSpans(all, cycles)
  BY <1>1, <1>6, <1>7 DEF SameSpans
<1> QED BY <1>8 DEF all

LEMMA ProfitAppend ==
  ASSUME NEW closed \in Seq(Cycle), NEW b \in Cycle
  PROVE  Profit(Append(closed, b)) = Profit(closed) + RealizedPnl(b) /\ Profit(closed) \in Int
<1> DEFINE v == [i \in DOMAIN closed |-> RealizedPnl(closed[i])]
           z == Append(closed, b)
           w == [i \in DOMAIN z |-> RealizedPnl(z[i])]
<1>1. ASSUME NEW c \in Cycle PROVE RealizedPnl(c) \in Int
  BY DEF RealizedPnl, Cycle
<1>2. v \in Seq(Int) /\ Len(v) = Len(closed) /\ \A i \in 1..Len(closed) : v[i] = RealizedPnl(closed[i])
  <2>1. \A i \in DOMAIN closed : RealizedPnl(closed[i]) \in Int
    BY <1>1
  <2> QED BY <2>1
<1>3. Len(z) = Len(closed) + 1 /\ z[Len(closed) + 1] = b /\ \A i \in 1..Len(closed) : z[i] = closed[i]
      /\ z \in Seq(Cycle)
  OBVIOUS
<1>4. w \in Seq(Int) /\ Len(w) = Len(closed) + 1 /\ \A i \in 1..(Len(closed) + 1) : w[i] = RealizedPnl(z[i])
  <2> HIDE DEF z
  <2>1. \A i \in DOMAIN z : RealizedPnl(z[i]) \in Int
    BY <1>1, <1>3
  <2>2. DOMAIN z = 1..(Len(closed) + 1) /\ Len(closed) + 1 \in Nat
    BY <1>3
  <2> QED BY <2>1, <2>2
<1> HIDE DEF v, w, z
<1>5. w = Append(v, RealizedPnl(b))
  <2>1. RealizedPnl(b) \in Int /\ Len(closed) \in Nat
    BY <1>1
  <2>2. \A i \in 1..(Len(closed) + 1) : w[i] = Append(v, RealizedPnl(b))[i]
    BY <1>2, <1>3, <1>4, <2>1
  <2>3. Append(v, RealizedPnl(b)) \in Seq(Int) /\ Len(Append(v, RealizedPnl(b))) = Len(closed) + 1
    BY <1>2, <2>1
  <2> QED BY <1>4, <2>2, <2>3
<1>6. RealizedPnl(b) \in Int
  BY <1>1
<1>7. Total(Append(v, RealizedPnl(b))) = Total(v) + RealizedPnl(b) /\ Total(v) \in Int
  BY <1>2, <1>6, TotalAppend
<1>8. Profit(closed) = Total(v) /\ Profit(z) = Total(w)
  BY DEF Profit, v, w
<1> QED BY <1>5, <1>7, <1>8 DEF z

\* The three states of a replay that raises nothing, after row i.
Together(p, s, l, rows, i, code) ==
  /\ s.qty = p.qty /\ l.qty = p.qty /\ s.cost = p.cost /\ p.qty >= 0
  /\ p.open <=> s.active # <<>>
  /\ ~ p.open => p.qty = 0 /\ p.cost = 0
  /\ Matches(s.active, s.closed, l.cycles)
  /\ s.active # <<>> => s.active[1].closed = Never /\ p.cost = 0 - RealizedPnl(s.active[1])
  /\ Profit(s.closed) = p.realized
  /\ p.open /\ p.qty = 0 => \E j \in (i + 1)..Len(rows) : rows[j].code = code

\* Booking to a position, a cycle or a ledger cycle moves the same shares and money.
LEMMA BookedTogether ==
  ASSUME NEW codes, NEW p \in Position, NEW row \in LedgerRow(codes), Bookable(p, row), p.qty >= 0, p.open \/ p.qty = 0,
         NEW q, q = Booked(p, row)
  PROVE  /\ q.qty = CycleQty(p.qty, row) /\ q.qty >= 0
         /\ p.open \/ Acquires(row) => q.cost = CycleCost(p.cost, row)
         /\ ~ p.open /\ ~ Acquires(row) => q.cost = p.cost /\ q.qty = 0
<1>1. /\ row.qty \in Nat /\ row.amount \in Int /\ p.qty \in Int /\ p.cost \in Int
      /\ row.type \in {"OPENING", "BUY", "SELL", "DIVIDEND", "CASH_FEE", "COST_REBASE"}
  BY DEF LedgerRow, Position
<1>2. /\ q.qty = CycleQty(p.qty, row)
  BY BookedFields DEF CycleQty
<1>3. q.qty >= 0 /\ (~ p.open /\ ~ Acquires(row) => row.type \in {"DIVIDEND", "CASH_FEE"} /\ q.qty = 0)
  BY <1>1, <1>2 DEF Bookable, Trades, CycleQty, Acquires
<1>4. ~ p.open /\ ~ Acquires(row) => q.cost = p.cost
  BY <1>3, BookedFields
<1>5. p.open \/ Acquires(row) => q.cost = CycleCost(p.cost, row)
  <2> SUFFICES ASSUME p.open \/ Acquires(row) PROVE q.cost = CycleCost(p.cost, row)
    OBVIOUS
  <2>1. CASE Acquires(row)
    BY <2>1, <1>1 DEF Booked, CycleCost, Acquires, Position
  <2>2. CASE row.type = "SELL"
    BY <2>2, <1>1 DEF Booked, CycleCost, Acquires, Position
  <2>3. CASE row.type = "DIVIDEND"
    BY <2>3, <1>1 DEF Booked, CycleCost, Acquires, Position
  <2>4. CASE row.type = "CASH_FEE"
    BY <2>4, <1>1 DEF Booked, CycleCost, Acquires, Position
  <2>5. CASE row.type = "COST_REBASE"
    BY <2>5, <1>1 DEF Booked, CycleCost, Acquires, Position
  <2> QED BY <2>1, <2>2, <2>3, <2>4, <2>5, <1>1 DEF Acquires
<1> QED BY <1>2, <1>3, <1>4, <1>5

LEMMA TogetherStep ==
  ASSUME NEW codes, NEW rows \in Seq(LedgerRow(codes)), NEW code, NEW i \in 1..Len(rows),
         NEW p \in Position, NEW s \in CycleState, NEW l \in LedgerState,
         NEW p1, p1 = PositionStep(p, rows, i, code), p1.ok,
         NEW s1, s1 = CycleStep(s, rows, i, code),
         NEW l1, l1 = LedgerStep(l, rows, i, code),
         Together(p, s, l, rows, i - 1, code)
  PROVE  Together(p1, s1, l1, rows, i, code)
<1> DEFINE row == rows[i]
           b == Booked(p, row)
           active == Opens(s, row)
           cycles == OpensRows(l, row)
           last == Len(cycles)
           qty == CycleQty(p.qty, row)
           joined == [cycles EXCEPT ![last].rows = @ \union {i}]
           booked == CycleBooked(active[1], p.cost, row)
           closes == DayEnd(rows, i) /\ qty = 0
           closing == [booked EXCEPT !.closed = row.date]
<1>1. row \in LedgerRow(codes) /\ i \in Nat /\ i - 1 \in Nat
  OBVIOUS
<1>2. CASE row.code # code
  <2>1. p1 = p /\ s1 = s /\ l1 = l
    BY <1>2 DEF PositionStep, CycleStep, LedgerStep
  <2>2. ASSUME p.open, p.qty = 0 PROVE \E j \in (i + 1)..Len(rows) : rows[j].code = code
    <3>1. PICK j \in ((i - 1) + 1)..Len(rows) : rows[j].code = code
      BY <2>2 DEF Together
    <3>2. j # i
      BY <1>2, <3>1
    <3> QED BY <3>1, <3>2
  <2> QED BY <2>1, <2>2 DEF Together
<1>3. CASE row.code = code
  <2>1. p1 = DayClosed(b, rows, i) /\ Bookable(p, row)
    <3>1. p.ok
      BY DEF PositionStep
    <3>2. ~ Bookable(p, row) => ~ p1.ok
      BY <1>3, <3>1 DEF PositionStep, Position
    <3> QED BY <1>3, <3>1, <3>2 DEF PositionStep
  <2>2. /\ s.qty = p.qty /\ l.qty = p.qty /\ s.cost = p.cost /\ p.qty >= 0
        /\ (p.open <=> s.active # <<>>) /\ (~ p.open => p.qty = 0 /\ p.cost = 0)
        /\ Matches(s.active, s.closed, l.cycles)
        /\ (s.active # <<>> => s.active[1].closed = Never /\ p.cost = 0 - RealizedPnl(s.active[1]))
        /\ Profit(s.closed) = p.realized
    BY DEF Together
  <2>3. /\ s.qty \in Int /\ s.cost \in Int /\ s.active \in Seq(Cycle) /\ s.closed \in Seq(Cycle)
        /\ l.cycles \in Seq(LedgerCycle) /\ p.open \in BOOLEAN /\ row.date \in Nat \ {0}
    BY <1>1 DEF CycleState, LedgerState, Position, LedgerRow
  <2> HIDE DEF row
  <2>4. /\ b.qty = qty /\ b.qty >= 0
        /\ (p.open \/ Acquires(row) => b.cost = CycleCost(p.cost, row))
        /\ (~ p.open /\ ~ Acquires(row) => b.cost = p.cost /\ b.qty = 0)
    <3>1. p.open \/ p.qty = 0
      BY <2>2
    <3> QED BY <1>1, <2>1, <2>2, <3>1, BookedTogether
  <2>5. b \in Position /\ b.realized = p.realized /\ (b.open <=> p.open \/ Acquires(row))
    BY <1>1, BookedFields
  <2> HIDE DEF b
  <2>6. /\ p1 \in Position /\ p1.qty = b.qty
        /\ (p1.open <=> b.open /\ ~ (DayEnd(rows, i) /\ b.qty = 0))
        /\ p1.realized - p1.cost = b.realized - b.cost
        /\ p1.cost = IF DayEnd(rows, i) /\ b.qty = 0 /\ b.open THEN 0 ELSE b.cost
    BY <2>1, <2>5, DayClosedFields
  <2>7. /\ b.realized \in Int /\ b.cost \in Int /\ p1.realized \in Int /\ p1.cost \in Int
        /\ p.realized \in Int /\ p.cost \in Int
    BY <2>5, <2>6 DEF Position
  <2>8. s1 = IF active = <<>> THEN [s EXCEPT !.qty = qty]
             ELSE IF closes
             THEN [qty |-> qty, cost |-> 0, active |-> <<>>, closed |-> Append(s.closed, closing)]
             ELSE [qty |-> qty, cost |-> CycleCost(p.cost, row), active |-> << booked >>, closed |-> s.closed]
    BY <1>3, <2>2 DEF CycleStep, Opens, row
  <2>9. l1 = IF ~InCycle(cycles) THEN [l EXCEPT !.qty = qty]
             ELSE IF closes
             THEN [qty |-> qty, cycles |-> [joined EXCEPT ![last].closed = row.date]]
             ELSE [qty |-> qty, cycles |-> joined]
    BY <1>3, <2>2 DEF LedgerStep, OpensRows, row
  <2>10. InCycle(l.cycles) <=> s.active # <<>>
    BY <2>2, <2>3, MatchesInCycle
  <2>11. CASE ~ p.open /\ ~ Acquires(row)
    <3>1. s.active = <<>> /\ active = <<>> /\ ~ InCycle(cycles) /\ cycles = l.cycles
      BY <2>2, <2>10, <2>11 DEF Opens, OpensRows
    <3>2. s1 = [s EXCEPT !.qty = qty] /\ l1 = [l EXCEPT !.qty = qty]
      BY <2>8, <2>9, <3>1
    <3>3. s1.qty = qty /\ s1.cost = s.cost /\ s1.active = s.active /\ s1.closed = s.closed
      BY <3>2 DEF CycleState
    <3>4. l1.qty = qty /\ l1.cycles = l.cycles
      BY <3>2 DEF LedgerState
    <3>5. ~ p1.open
      BY <2>5, <2>6, <2>11
    <3>6. p1.qty = 0 /\ p1.qty = qty /\ p1.cost = p.cost /\ p1.realized = p.realized
      BY <2>4, <2>5, <2>6, <2>7, <2>11
    <3> HIDE DEF qty, active, cycles
    <3> QED BY <2>2, <2>11, <3>1, <3>3, <3>4, <3>5, <3>6 DEF Together
  <2>12. CASE p.open \/ Acquires(row)
    <3>1. PICK a \in Cycle : /\ active = <<a>> /\ a.closed = Never /\ p.cost = 0 - RealizedPnl(a)
                             /\ Matches(<<a>>, s.closed, cycles) /\ cycles \in Seq(LedgerCycle)
      <4>1. CASE p.open
        <5>1. Len(s.active) = 1
          BY <2>2, <4>1 DEF Matches
        <5>2. s.active = << s.active[1] >> /\ s.active[1] \in Cycle
          BY <2>3, <5>1
        <5>3. active = s.active /\ cycles = l.cycles
          BY <2>2, <2>10, <4>1 DEF Opens, OpensRows
        <5> HIDE DEF active, cycles
        <5> QED BY <2>2, <2>3, <4>1, <5>2, <5>3
      <4>2. CASE ~ p.open
        <5> DEFINE a == NewCycle(row.date)
                   c == [opened |-> row.date, closed |-> Never, rows |-> {}]
        <5>1. Acquires(row) /\ s.active = <<>> /\ ~ InCycle(l.cycles) /\ p.cost = 0
          BY <2>2, <2>10, <2>12, <4>2
        <5>2. active = <<a>> /\ cycles = Append(l.cycles, c)
          BY <5>1 DEF Opens, OpensRows
        <5>3. /\ a \in Cycle /\ a.closed = Never /\ a.opened = row.date /\ RealizedPnl(a) = 0
              /\ c \in LedgerCycle /\ c.closed = Never /\ c.opened = row.date
          BY <2>3 DEF NewCycle, Cycle, LedgerCycle, RealizedPnl, Never
        <5> HIDE DEF a, c, active, cycles
        <5>4. Matches(<<a>>, s.closed, Append(l.cycles, c))
          BY <2>2, <2>3, <5>1, <5>3, MatchesOpened
        <5>5. Append(l.cycles, c) \in Seq(LedgerCycle)
          BY <2>3, <5>3
        <5>6. p.cost = 0 - RealizedPnl(a)
          BY <5>1, <5>3
        <5> QED BY <5>2, <5>3, <5>4, <5>5, <5>6
      <4> QED BY <2>3, <4>1, <4>2
    <3>2. booked \in Cycle /\ booked.opened = a.opened /\ booked.closed = Never
          /\ CycleCost(p.cost, row) = 0 - RealizedPnl(booked)
      <4>1. active[1] = a
        BY <3>1
      <4> HIDE DEF active
      <4> QED BY <1>1, <2>7, <3>1, <4>1, CycleBookedFields
    <3>3. active # <<>> /\ InCycle(cycles)
      <4>1. <<a>> # <<>> /\ <<a>> \in Seq(Cycle)
        OBVIOUS
      <4> HIDE DEF active, cycles
      <4> QED BY <2>3, <3>1, <4>1, MatchesInCycle
    <3> HIDE DEF active, cycles, booked
    <3>4. /\ last \in 1..Len(cycles) /\ cycles[last] \in LedgerCycle
      BY <3>1, <3>3 DEF InCycle
    <3> DEFINE c == [cycles[last] EXCEPT !.rows = @ \union {i}]
               d == [c EXCEPT !.closed = row.date]
    <3>5. c \in LedgerCycle /\ c.opened = cycles[last].opened /\ c.closed = cycles[last].closed
      BY <1>1, <3>4 DEF LedgerCycle
    <3>6. joined = [cycles EXCEPT ![last] = c]
      BY Zenon
    <3>7. joined \in Seq(LedgerCycle) /\ Len(joined) = last /\ joined[last] = c
      <4> HIDE DEF c, joined
      <4> QED BY <3>1, <3>4, <3>5, <3>6, Replaced
    <3> HIDE DEF c
    <3>8. d \in LedgerCycle /\ d.opened = cycles[last].opened /\ d.closed = row.date
      BY <2>3, <3>5 DEF LedgerCycle
    <3>9. [joined EXCEPT ![last].closed = row.date] = [cycles EXCEPT ![last] = d]
      <4>1. [joined EXCEPT ![last].closed = row.date] = [joined EXCEPT ![last] = d]
        BY <3>7, Zenon
      <4> HIDE DEF d
      <4> QED BY <3>1, <3>4, <3>6, <4>1
    <3> HIDE DEF d, joined
    <3>10. CASE closes
      <4>1. /\ s1.qty = qty /\ s1.cost = 0 /\ s1.active = <<>> /\ s1.closed = Append(s.closed, closing)
            /\ l1.qty = qty /\ l1.cycles = [cycles EXCEPT ![last] = d]
        BY <2>8, <2>9, <3>3, <3>9, <3>10
      <4>2. /\ closing \in Cycle /\ closing.opened = a.opened /\ closing.closed = row.date
            /\ RealizedPnl(closing) = RealizedPnl(booked)
        BY <2>3, <3>2 DEF Cycle, RealizedPnl
      <4> HIDE DEF closing
      <4>3. Matches(<<>>, Append(s.closed, closing), [cycles EXCEPT ![last] = d])
        <5>1. closing.closed # Never
          BY <2>3, <4>2 DEF Never
        <5> QED BY <2>3, <3>1, <3>8, <4>2, <5>1, MatchesClosed
      <4>4. Profit(Append(s.closed, closing)) = p.realized + RealizedPnl(booked) /\ RealizedPnl(booked) \in Int
        <5>1. RealizedPnl(booked) \in Int
          BY <3>2 DEF Cycle, RealizedPnl
        <5> QED BY <2>2, <2>3, <4>2, <5>1, ProfitAppend
      <4>5. ~ p1.open /\ p1.cost = 0 /\ p1.qty = qty /\ qty = 0
        BY <2>4, <2>5, <2>6, <2>12, <3>10
      <4>6. p1.realized = p.realized + RealizedPnl(booked)
        <5>1. b.cost = 0 - RealizedPnl(booked)
          BY <2>4, <2>12, <3>2
        <5> QED BY <2>5, <2>6, <2>7, <4>4, <4>5, <5>1
      <4> HIDE DEF qty, closes, last
      <4> QED BY <4>1, <4>3, <4>4, <4>5, <4>6 DEF Together
    <3>11. CASE ~ closes
      <4>1. /\ s1.qty = qty /\ s1.cost = CycleCost(p.cost, row) /\ s1.active = <<booked>>
            /\ s1.closed = s.closed /\ l1.qty = qty /\ l1.cycles = [cycles EXCEPT ![last] = c]
        BY <2>8, <2>9, <3>3, <3>6, <3>11
      <4>2. Matches(<<booked>>, s.closed, [cycles EXCEPT ![last] = c])
        BY <2>3, <3>1, <3>2, <3>5, MatchesBooked
      <4>3. p1.open /\ p1.qty = qty /\ p1.cost = b.cost /\ ~ (DayEnd(rows, i) /\ b.qty = 0)
        BY <2>4, <2>5, <2>6, <2>12, <3>11
      <4>4. p1.cost = CycleCost(p.cost, row) /\ p1.realized = p.realized /\ p1.qty >= 0
        BY <2>4, <2>5, <2>6, <2>7, <2>12, <4>3
      <4>5. <<booked>> # <<>> /\ <<booked>>[1] = booked
        OBVIOUS
      <4>6. ASSUME p1.qty = 0 PROVE \E j \in (i + 1)..Len(rows) : rows[j].code = code
        <5>1. ~ DayEnd(rows, i)
          BY <2>6, <4>3, <4>6
        <5> QED BY <1>3, <5>1 DEF DayEnd, row
      <4> HIDE DEF qty, closes, last
      <4> QED BY <2>2, <3>2, <4>1, <4>2, <4>3, <4>4, <4>5, <4>6 DEF Together
    <3> QED BY <3>10, <3>11
  <2> QED BY <2>11, <2>12
<1> QED BY <1>2, <1>3

\* At the end, the three runs are together.
LEMMA EndsTogether ==
  ASSUME NEW codes, NEW rows \in Seq(LedgerRow(codes)), NEW code, PositionState(rows, code).ok
  PROVE  /\ PositionState(rows, code) \in Position /\ CycleReplay(rows, code) \in CycleState
         /\ \E l \in LedgerState :
              /\ LedgerCycles(rows, code) = l.cycles
              /\ Together(PositionState(rows, code), CycleReplay(rows, code), l, rows, Len(rows), code)
<1> DEFINE n == Len(rows)
           g == PositionRun(rows, code)
           c == CycleRun(rows, code)
           h == LedgerRun(rows, code)
           T == {i \in 0..n : g[i].ok => Together(g[i], c[i], h[i], rows, i, code)}
<1>1. /\ g \in [0..n -> Position] /\ g[0] = Flat
      /\ \A i \in 1..n : g[i] = PositionStep(g[i - 1], rows, i, code)
      /\ PositionState(rows, code) = g[n]
  BY PositionRuns
<1>2. /\ c \in [0..n -> CycleState] /\ c[0] = NoCycles
      /\ \A i \in 1..n : c[i] = CycleStep(c[i - 1], rows, i, code)
      /\ CycleReplay(rows, code) = c[n]
  BY CycleRuns
<1>3. /\ h \in [0..n -> LedgerState] /\ h[0] = [qty |-> 0, cycles |-> <<>>]
      /\ \A i \in 1..n : h[i] = LedgerStep(h[i - 1], rows, i, code)
      /\ LedgerCycles(rows, code) = h[n].cycles
  BY LedgerRuns
<1>4. n \in Nat /\ n \in 0..n
  OBVIOUS
<1> HIDE DEF g, c, h, n
<1>5. 0 \in T
  <2>1. Profit(<<>>) = 0
    <3>1. [i \in DOMAIN <<>> |-> RealizedPnl(<<>>[i])] = <<>>
      OBVIOUS
    <3> QED BY <3>1, TotalEmpty DEF Profit
  <2>2. Matches(<<>>, <<>>, <<>>)
    BY DEF Matches
  <2>3. Together(Flat, NoCycles, [qty |-> 0, cycles |-> <<>>], rows, 0, code)
    BY <2>1, <2>2 DEF Together, Flat, NoCycles
  <2> QED BY <1>1, <1>2, <1>3, <1>4, <2>3
<1>6. ASSUME NEW i \in 1..n, i - 1 \in T PROVE i \in T
  <2>1. i - 1 \in 0..n /\ i \in 0..n
    BY <1>4
  <2>2. g[i - 1] \in Position /\ c[i - 1] \in CycleState /\ h[i - 1] \in LedgerState
    BY <1>1, <1>2, <1>3, <2>1
  <2>3. ASSUME g[i].ok PROVE Together(g[i], c[i], h[i], rows, i, code)
    <3>1. g[i - 1].ok
      BY <1>1, <2>3 DEF PositionStep
    <3>2. Together(g[i - 1], c[i - 1], h[i - 1], rows, i - 1, code)
      BY <1>6, <3>1
    <3>3. i \in 1..Len(rows)
      BY DEF n
    <3> HIDE DEF T
    <3> QED BY <1>1, <1>2, <1>3, <2>2, <2>3, <3>2, <3>3, TogetherStep
  <2> QED BY <2>1, <2>3
<1>7. n \in T
  <2>1. \A i \in 0..n : i \in T
    <3> HIDE DEF T
    <3> QED BY <1>4, <1>5, <1>6, UpTo
  <2> HIDE DEF T
  <2> QED BY <1>4, <2>1
<1>8. g[n] \in Position /\ c[n] \in CycleState /\ h[n] \in LedgerState
  BY <1>1, <1>2, <1>3, <1>4
<1>9. Together(g[n], c[n], h[n], rows, n, code)
  BY <1>1, <1>7
<1> QED BY <1>1, <1>2, <1>3, <1>8, <1>9 DEF n

(* Of a replay that raises nothing, the position view, the closed-cycle view *)
(* and the operation view agree on the profit and on the cycles, whatever    *)
(* days the rows are of (build_position_states, build_closed_position_cycles *)
(* and build_ledger_cycles).                                                 *)
THEOREM ReplaysAgree ==
  ASSUME NEW codes, NEW rows \in Seq(LedgerRow(codes)), NEW code, PositionState(rows, code).ok
  PROVE  Agree(rows, code)
<1> DEFINE n == Len(rows)
           p == PositionState(rows, code)
           s == CycleReplay(rows, code)
<1>1. p \in Position /\ s \in CycleState
  BY EndsTogether
<1>2. PICK l \in LedgerState : LedgerCycles(rows, code) = l.cycles /\ Together(p, s, l, rows, n, code)
  BY EndsTogether
<1>4. n \in Nat /\ n \in 0..n
  OBVIOUS
<1> HIDE DEF p, s, n
<1>8. p \in Position /\ s \in CycleState /\ l \in LedgerState /\ Together(p, s, l, rows, n, code)
  BY <1>1, <1>2
<1>9. Profit(s.closed) = p.realized /\ (p.open <=> s.active # <<>>) /\ Matches(s.active, s.closed, l.cycles)
  BY <1>8 DEF Together
<1>10. p.open <=> p.qty > 0
  <2>1. p.qty \in Int /\ p.qty >= 0 /\ (~ p.open => p.qty = 0)
    BY <1>8 DEF Together, Position
  <2>2. ~ (p.open /\ p.qty = 0)
    <3>1. ~ \E j \in (n + 1)..Len(rows) : rows[j].code = code
      BY <1>4 DEF n
    <3> QED BY <1>8, <3>1 DEF Together
  <2> QED BY <2>1, <2>2
<1>11. SameSpans(s.closed \o s.active, l.cycles)
  <2>1. s.closed \in Seq(Cycle) /\ s.active \in Seq(Cycle) /\ l.cycles \in Seq(LedgerCycle)
    BY <1>8 DEF CycleState, LedgerState
  <2>2. s.active # <<>> => s.active[1].closed = Never
    BY <1>8 DEF Together
  <2> QED BY <1>9, <2>1, <2>2, MatchesSpans
<1>12. \A k \in DOMAIN s.closed : s.closed[k].closed # Never
  <2>1. DOMAIN s.closed = 1..Len(s.closed)
    BY <1>8 DEF CycleState
  <2> QED BY <1>9, <2>1 DEF Matches
<1> QED BY <1>2, <1>9, <1>10, <1>11, <1>12 DEF Agree, p, s

-----------------------------------------------------------------------------
(* What a replay accepts goes on being accepted with less. *)

\* What a row does to the quantity, whatever day it closes.
LEMMA StepQty ==
  ASSUME NEW codes, NEW rows \in Seq(LedgerRow(codes)), NEW i \in 1..Len(rows), NEW code,
         NEW p \in Position, p.ok, NEW q, q = PositionStep(p, rows, i, code)
  PROVE  /\ q.ok <=> (rows[i].code = code => Bookable(p, rows[i]))
         /\ q.ok => q.qty = IF rows[i].code # code THEN p.qty
                            ELSE IF Acquires(rows[i]) THEN p.qty + rows[i].qty
                            ELSE IF rows[i].type = "SELL" THEN p.qty - rows[i].qty ELSE p.qty
<1> DEFINE row == rows[i]
<1>0. row \in LedgerRow(codes)
  OBVIOUS
<1> HIDE DEF row
<1>2. CASE row.code # code
  <2>1. q = p
    BY <1>2 DEF PositionStep, row
  <2> QED BY <1>2, <2>1 DEF row
<1>3. CASE row.code = code /\ ~ Bookable(p, row)
  <2>1. q = [p EXCEPT !.ok = FALSE]
    BY <1>3 DEF PositionStep, row
  <2>2. ~ q.ok
    BY <2>1 DEF Position
  <2> QED BY <1>3, <2>2 DEF row
<1>4. CASE row.code = code /\ Bookable(p, row)
  <2> DEFINE b == Booked(p, row)
  <2>1. q = DayClosed(b, rows, i)
    BY <1>4 DEF PositionStep, row
  <2>0. b = Booked(p, row)
    OBVIOUS
  <2> HIDE DEF b
  <2>2. b \in Position /\ b.ok = p.ok
        /\ b.qty = IF Acquires(row) THEN p.qty + row.qty
                   ELSE IF row.type = "SELL" THEN p.qty - row.qty ELSE p.qty
    BY <1>0, <2>0, BookedFields, Zenon
  <2>3. q.qty = b.qty /\ q.ok = b.ok
    <3>1. b \in Position
      BY <2>2
    <3>2. /\ q \in Position /\ q.qty = b.qty /\ q.ok = b.ok /\ q.income = b.income /\ q.fees = b.fees
          /\ q.open <=> b.open /\ ~ (DayEnd(rows, i) /\ b.qty = 0)
          /\ q.realized - q.cost = b.realized - b.cost
          /\ q.cost = IF DayEnd(rows, i) /\ b.qty = 0 /\ b.open THEN 0 ELSE b.cost
      BY <2>1, <3>1, DayClosedFields, Zenon
    <3> QED BY <3>2
  <2>4. q.ok /\ q.qty = IF Acquires(row) THEN p.qty + row.qty
                        ELSE IF row.type = "SELL" THEN p.qty - row.qty ELSE p.qty
    BY <2>2, <2>3
  <2> QED BY <1>4, <2>4 DEF row
<1> QED BY <1>2, <1>3, <1>4

\* A replay that is ok at the end was ok all along.
LEMMA OkAllAlong ==
  ASSUME NEW codes, NEW rows \in Seq(LedgerRow(codes)), NEW code, PositionState(rows, code).ok
  PROVE  \A i \in 0..Len(rows) : PositionRun(rows, code)[i].ok
<1> DEFINE n == Len(rows)
           f == PositionRun(rows, code)
           T == {k \in Nat : k <= n => f[n - k].ok}
<1>1. /\ f \in [0..n -> Position] /\ f[n].ok
      /\ \A i \in 1..n : f[i] = PositionStep(f[i - 1], rows, i, code)
  BY PositionRuns
<1>2. n \in Nat
  OBVIOUS
<1> HIDE DEF f
<1>3. ASSUME NEW i \in 1..n, f[i].ok PROVE f[i - 1].ok
  <2>1. f[i - 1] \in Position
    BY <1>1, <1>2
  <2>2. ~ f[i - 1].ok => f[i] = f[i - 1]
    BY <1>1 DEF PositionStep
  <2> QED BY <1>3, <2>2
<1> HIDE DEF n
<1>4. 0 \in T
  BY <1>1, <1>2
<1>5. ASSUME NEW k \in 1..n, k - 1 \in T PROVE k \in T
  <2>1. n - (k - 1) \in 1..n /\ n - (k - 1) - 1 = n - k
    BY <1>2
  <2>2. f[n - (k - 1)].ok
    BY <1>2, <1>5
  <2>3. f[n - (k - 1) - 1].ok
    BY <1>3, <2>1, <2>2
  <2> QED BY <2>1, <2>3
<1>6. \A k \in 0..n : k \in T
  <2> HIDE DEF T
  <2> QED BY <1>2, <1>4, <1>5, UpTo
<1>7. ASSUME NEW i \in 0..n PROVE f[i].ok
  <2>1. n - i \in 0..n /\ n - (n - i) = i
    BY <1>2
  <2>2. n - i \in T
    BY <1>6, <2>1
  <2> QED BY <2>1, <2>2
<1> QED BY <1>7 DEF f, n

\* `part` is made of the rows of `rows` at the places g; between them are rebases.
Within(part, rows, g) ==
  /\ g \in [0..Len(part) -> 0..Len(rows)] /\ g[0] = 0
  /\ \A i \in 1..Len(part) :
       /\ g[i - 1] < g[i] /\ part[i] = rows[g[i]] /\ part[i].type # "COST_REBASE"
       /\ \A j \in (g[i - 1] + 1)..(g[i] - 1) : rows[j].type = "COST_REBASE"

LEMMA WithinAccepted ==
  ASSUME NEW codes, NEW rows \in Seq(LedgerRow(codes)), NEW part \in Seq(LedgerRow(codes)),
         NEW g, Within(part, rows, g), NEW code, PositionState(rows, code).ok
  PROVE  PositionState(part, code).ok
<1> DEFINE n == Len(rows)
           m == Len(part)
           f == PositionRun(rows, code)
           h == PositionRun(part, code)
           T == {k \in Nat : k <= m => h[k].ok /\ h[k].qty = f[g[k]].qty}
<1>1. /\ f \in [0..n -> Position] /\ f[0] = Flat
      /\ \A i \in 1..n : f[i] = PositionStep(f[i - 1], rows, i, code)
  BY PositionRuns
<1>2. /\ h \in [0..m -> Position] /\ h[0] = Flat
      /\ \A i \in 1..m : h[i] = PositionStep(h[i - 1], part, i, code)
      /\ PositionState(part, code) = h[m]
  BY PositionRuns
<1>3. \A i \in 0..n : f[i].ok
  BY OkAllAlong
<1>4. n \in Nat /\ m \in Nat
  OBVIOUS
<1>5. /\ g \in [0..m -> 0..n] /\ g[0] = 0
      /\ \A i \in 1..m :
           /\ g[i - 1] < g[i] /\ part[i] = rows[g[i]] /\ part[i].type # "COST_REBASE"
           /\ \A j \in (g[i - 1] + 1)..(g[i] - 1) : rows[j].type = "COST_REBASE"
  BY DEF Within
<1> HIDE DEF f, h
\* A rebase leaves the quantity.
<1>6. ASSUME NEW j \in 1..n, rows[j].type = "COST_REBASE" PROVE f[j].qty = f[j - 1].qty
  <2>1. j - 1 \in 0..n /\ j \in 0..n
    BY <1>4
  <2>2. f[j - 1] \in Position /\ f[j - 1].ok /\ f[j].ok
    BY <1>1, <1>3, <2>1
  <2>3. ~ Acquires(rows[j])
    BY <1>6 DEF Acquires
  <2> QED BY <1>1, <1>6, <2>2, <2>3, StepQty
<1>7. ASSUME NEW i \in 1..m PROVE f[g[i] - 1].qty = f[g[i - 1]].qty
  <2> DEFINE a == g[i - 1]
             b == g[i]
             U == {d \in Nat : d <= b - 1 - a => f[a + d].qty = f[a].qty}
  <2>1. a \in 0..n /\ b \in 1..n /\ a < b /\ \A j \in (a + 1)..(b - 1) : rows[j].type = "COST_REBASE"
    <3>1. i - 1 \in 0..m /\ i \in 0..m
      BY <1>4
    <3> QED BY <1>4, <1>5, <3>1
  <2> HIDE DEF a, b
  <2>2. b - 1 - a \in Nat /\ 0 \in U
    BY <1>4, <2>1
  <2>3. ASSUME NEW d \in 1..(b - 1 - a), d - 1 \in U PROVE d \in U
    <3>1. a + d \in 1..n /\ a + d \in (a + 1)..(b - 1) /\ a + d - 1 = a + (d - 1)
      BY <1>4, <2>1
    <3>2. f[a + d].qty = f[a + d - 1].qty
      BY <1>6, <2>1, <3>1
    <3>3. f[a + (d - 1)].qty = f[a].qty
      BY <2>1, <2>3, <1>4
    <3> QED BY <3>1, <3>2, <3>3
  <2>4. b - 1 - a \in U
    <3>1. b - 1 - a \in 0..(b - 1 - a)
      BY <2>2
    <3> HIDE DEF U
    <3> QED BY <2>2, <2>3, <3>1, UpTo
  <2>5. f[a + (b - 1 - a)].qty = f[a].qty /\ a + (b - 1 - a) = b - 1
    BY <1>4, <2>1, <2>4
  <2> QED BY <2>5 DEF a, b
<1>8. 0 \in T
  BY <1>1, <1>2, <1>5 DEF Flat
<1>9. ASSUME NEW i \in 1..m, i - 1 \in T PROVE i \in T
  <2>1. i - 1 \in 0..m /\ i \in 0..m /\ i - 1 <= m
    BY <1>4
  <2>2. g[i] \in 1..n /\ g[i] - 1 \in 0..n /\ g[i] \in 0..n
    <3>1. g[i] \in 0..n /\ g[i - 1] \in 0..n /\ g[i - 1] < g[i]
      BY <1>5, <2>1
    <3> DEFINE b == g[i]
               a == g[i - 1]
    <3>2. b \in 0..n /\ a \in 0..n /\ a < b
      BY <3>1
    <3> HIDE DEF a, b, n
    <3>3. b \in 1..n /\ b - 1 \in 0..n
      BY <1>4, <3>2
    <3> QED BY <3>2, <3>3 DEF b
  <2>3. h[i - 1].ok /\ h[i - 1].qty = f[g[i] - 1].qty
    BY <1>7, <1>9, <2>1
  <2>4. h[i - 1] \in Position /\ f[g[i] - 1] \in Position /\ f[g[i] - 1].ok /\ f[g[i]].ok
    BY <1>1, <1>2, <1>3, <2>1, <2>2
  <2> DEFINE p == h[i - 1]
             q == f[g[i] - 1]
             row == part[i]
  <2>5. h[i] = PositionStep(p, part, i, code) /\ f[g[i]] = PositionStep(q, rows, g[i], code)
    BY <1>1, <1>2, <2>2
  <2>6. row = rows[g[i]] /\ row.type # "COST_REBASE"
    BY <1>5
  <2>7. p.ok /\ q.ok /\ p.qty = q.qty /\ p \in Position /\ q \in Position
    BY <2>3, <2>4
  <2> HIDE DEF p, q
  <2>8. Bookable(p, row) <=> Bookable(q, row)
    BY <2>6, <2>7 DEF Bookable
  <2>9. p.ok /\ q.ok /\ f[g[i]].ok /\ (q.qty = p.qty)
    BY <2>4, <2>7
  <2> DEFINE p2 == h[i]
             q2 == f[g[i]]
  <2>10. p2 = PositionStep(p, part, i, code) /\ q2 = PositionStep(q, rows, g[i], code)
    BY <2>5
  <2>11. /\ p2.ok <=> (row.code = code => Bookable(p, row))
         /\ p2.ok => p2.qty = IF row.code # code THEN p.qty
                            ELSE IF Acquires(row) THEN p.qty + row.qty
                            ELSE IF row.type = "SELL" THEN p.qty - row.qty ELSE p.qty
    <3> HIDE DEF p2, q2
    <3> QED BY <2>7, <2>10, StepQty
  <2>12. /\ q2.ok <=> (row.code = code => Bookable(q, row))
         /\ q2.ok => q2.qty = IF row.code # code THEN q.qty
                            ELSE IF Acquires(row) THEN q.qty + row.qty
                            ELSE IF row.type = "SELL" THEN q.qty - row.qty ELSE q.qty
    <3>1. rows[g[i]] = row
      BY <2>6
    <3> HIDE DEF p2, q2, row
    <3> QED BY <2>2, <2>7, <2>10, <3>1, StepQty
  <2>13. q2.ok
    BY <2>9
  <2> HIDE DEF p2, q2, row
  <2>14. p2.ok /\ p2.qty = q2.qty
    BY <2>7, <2>8, <2>11, <2>12, <2>13
  <2> QED BY <2>14 DEF p2, q2
<1>10. m \in T
  <2>1. m \in 0..m
    BY <1>4
  <2> HIDE DEF T, m
  <2> QED BY <1>4, <1>8, <1>9, <2>1, UpTo
<1> QED BY <1>2, <1>4, <1>10
-----------------------------------------------------------------------------
(* The quantity that a replay ends with, whatever the order of its rows: one *)
(* unit for each share that a row moves.                                     *)

Units(D, r, code, types) ==
  {t \in D \X (Nat \ {0}) :
     r[t[1]].code = code /\ r[t[1]].type \in types /\ t[2] <= r[t[1]].qty}

\* What one more row adds.
AddsUnits(x, r, code, types, q) ==
  /\ r[x].code = code /\ r[x].type \in types => q = r[x].qty
  /\ ~ (r[x].code = code /\ r[x].type \in types) => q = 0

GrowUnits(D, x, r, code, types, q) ==
  /\ IsFiniteSet(Units(D \union {x}, r, code, types))
  /\ Cardinality(Units(D \union {x}, r, code, types)) = Cardinality(Units(D, r, code, types)) + q

\* The units of one more row are its own and those of the others.
LEMMA UnitsAdd ==
  ASSUME NEW D, NEW r, NEW code, NEW types, NEW x, x \notin D, r[x].qty \in Nat,
         IsFiniteSet(Units(D, r, code, types)),
         NEW q, AddsUnits(x, r, code, types, q)
  PROVE  GrowUnits(D, x, r, code, types, q)
<1> USE DEF AddsUnits
<1> DEFINE old == Units(D, r, code, types)
           h == [k \in 1..q |-> << x, k >>]
           new == {<< x, k >> : k \in 1..q}
<1>1. q \in Nat
  OBVIOUS
<1>2. Units(D \union {x}, r, code, types) = old \union new
  <2>1. CASE r[x].code = code /\ r[x].type \in types
    <3>1. \A k \in Nat \ {0} : k <= r[x].qty <=> k \in 1..q
      BY <1>1, <2>1
    <3> HIDE DEF new
    <3>2. ASSUME NEW t \in (D \union {x}) \X (Nat \ {0})
          PROVE  t \in Units(D \union {x}, r, code, types) <=> t \in old \/ (t[1] = x /\ t[2] \in 1..q)
      BY <2>1, <3>1 DEF Units
    <3>3. \A t : t \in new <=> t \in {x} \X (1..q)
      BY DEF new
    <3>4. \A t \in (D \union {x}) \X (Nat \ {0}) : t \in new <=> t[1] = x /\ t[2] \in 1..q
      BY <3>3
    <3>5. new \subseteq (D \union {x}) \X (Nat \ {0})
      BY <1>1, <3>3
    <3>6. old \subseteq (D \union {x}) \X (Nat \ {0})
      BY DEF Units
    <3>7. Units(D \union {x}, r, code, types) \subseteq (D \union {x}) \X (Nat \ {0})
      BY DEF Units
    <3> HIDE DEF old
    <3> QED BY <3>2, <3>4, <3>5, <3>6, <3>7
  <2>2. CASE ~ (r[x].code = code /\ r[x].type \in types)
    <3>1. q = 0 /\ 1..q = {}
      BY <2>2
    <3>2. new = {}
      BY <3>1
    <3>3. Units(D \union {x}, r, code, types) = old
      BY <2>2 DEF Units
    <3> QED BY <3>2, <3>3
  <2> QED BY <2>1, <2>2
<1>3. IsFiniteSet(new) /\ Cardinality(new) = q
  <2>1. h \in Surjection(1..q, new) /\ h \in Injection(1..q, new)
    <3>1. h \in [1..q -> new] /\ \A y \in new : \E k \in 1..q : h[k] = y
      OBVIOUS
    <3>2. \A j, k \in 1..q : h[j] = h[k] => j = k
      OBVIOUS
    <3> HIDE DEF h, new
    <3> QED BY <3>1, <3>2 DEF Surjection, Injection, IsInjective
  <2>2. IsFiniteSet(1..q) /\ Cardinality(1..q) = q
    <3>1. 1 \in Int /\ q \in Int /\ (IF 1 > q THEN 0 ELSE q - 1 + 1) = q
      BY <1>1
    <3> QED BY <3>1, FS_Interval
  <2> HIDE DEF h, new
  <2> QED BY <2>1, <2>2, FS_Surjection
<1>4. old \intersect new = {}
  BY DEF Units
<1> HIDE DEF old, new, h
<1>5. Cardinality(old \intersect new) = 0
  BY <1>4, FS_EmptySet
<1>6. IsFiniteSet(old)
  BY DEF old
<1>7. /\ IsFiniteSet(old \union new)
      /\ Cardinality(old \union new) = Cardinality(old) + Cardinality(new) - Cardinality(old \intersect new)
  BY <1>3, <1>6, FS_Union
<1>8. Cardinality(old) \in Nat
  BY <1>6, FS_CardinalityType
<1>9. Cardinality(old \union new) = Cardinality(old) + q
  BY <1>1, <1>3, <1>5, <1>7, <1>8
<1> QED BY <1>2, <1>7, <1>9 DEF old, GrowUnits

\* The units of two sets of rows.
LEMMA UnitsJoin ==
  ASSUME NEW D, NEW E, D \intersect E = {}, NEW r, NEW code, NEW types,
         IsFiniteSet(Units(D, r, code, types)), IsFiniteSet(Units(E, r, code, types))
  PROVE  /\ IsFiniteSet(Units(D \union E, r, code, types))
         /\ Cardinality(Units(D \union E, r, code, types)) =
              Cardinality(Units(D, r, code, types)) + Cardinality(Units(E, r, code, types))
<1> DEFINE u == Units(D, r, code, types)
           v == Units(E, r, code, types)
<1>1. Units(D \union E, r, code, types) = u \union v
  BY DEF Units
<1>2. u \intersect v = {}
  BY DEF Units
<1> HIDE DEF u, v
<1>3. Cardinality(u \intersect v) = 0
  BY <1>2, FS_EmptySet
<1>4. IsFiniteSet(u) /\ IsFiniteSet(v)
  BY DEF u, v
<1>5. /\ IsFiniteSet(u \union v)
      /\ Cardinality(u \union v) = Cardinality(u) + Cardinality(v) - Cardinality(u \intersect v)
  BY <1>4, FS_Union
<1>6. Cardinality(u) \in Nat /\ Cardinality(v) \in Nat
  BY <1>4, FS_CardinalityType
<1>7. Cardinality(u \union v) = Cardinality(u) + Cardinality(v)
  BY <1>3, <1>5, <1>6
<1> QED BY <1>1, <1>5, <1>7 DEF u, v

\* The same rows by other names.
Renames(p, D, E, r, s) ==
  /\ p \in [D -> E]
  /\ \A x, y \in D : p[x] = p[y] => x = y
  /\ \A y \in E : \E x \in D : p[x] = y
  /\ \A x \in D : r[x] = s[p[x]]

\* Rows have the same units under other names.
LEMMA UnitsRenamed ==
  ASSUME NEW D, NEW E, NEW r, NEW s, NEW p, Renames(p, D, E, r, s), NEW code, NEW types,
         IsFiniteSet(Units(D, r, code, types))
  PROVE  /\ IsFiniteSet(Units(E, s, code, types))
         /\ Cardinality(Units(E, s, code, types)) = Cardinality(Units(D, r, code, types))
<1> DEFINE u == Units(D, r, code, types)
           v == Units(E, s, code, types)
           h == [t \in u |-> << p[t[1]], t[2] >>]
<1>1. /\ p \in [D -> E]
      /\ \A x, y \in D : p[x] = p[y] => x = y
      /\ \A y \in E : \E x \in D : p[x] = y
      /\ \A x \in D : r[x] = s[p[x]]
  BY DEF Renames
<1>2. ASSUME NEW t \in u PROVE h[t] \in v /\ t[1] \in D /\ t[2] \in Nat \ {0} /\ t = << t[1], t[2] >>
  <2>1. t[1] \in D /\ t[2] \in Nat \ {0} /\ t = << t[1], t[2] >>
    BY DEF Units
  <2>2. r[t[1]].code = code /\ r[t[1]].type \in types /\ t[2] <= r[t[1]].qty
    BY DEF Units
  <2>3. p[t[1]] \in E /\ s[p[t[1]]] = r[t[1]]
    BY <1>1, <2>1
  <2>4. << p[t[1]], t[2] >> \in v
    BY <2>1, <2>2, <2>3 DEF Units
  <2> QED BY <2>1, <2>4
<1>3. ASSUME NEW w \in v PROVE \E t \in u : h[t] = w
  <2>1. w[1] \in E /\ w[2] \in Nat \ {0} /\ w = << w[1], w[2] >>
    BY DEF Units
  <2>2. s[w[1]].code = code /\ s[w[1]].type \in types /\ w[2] <= s[w[1]].qty
    BY DEF Units
  <2>3. PICK x \in D : p[x] = w[1]
    BY <1>1, <2>1
  <2>4. r[x] = s[w[1]]
    BY <1>1, <2>3
  <2>5. << x, w[2] >> \in u
    BY <2>1, <2>2, <2>4 DEF Units
  <2>6. h[<< x, w[2] >>] = << w[1], w[2] >>
    BY <2>3, <2>5
  <2> QED BY <2>1, <2>5, <2>6
<1>4. ASSUME NEW t \in u, NEW w \in u, h[t] = h[w] PROVE t = w
  <2>1. p[t[1]] = p[w[1]] /\ t[2] = w[2]
    BY <1>4
  <2>2. t[1] = w[1]
    BY <1>1, <1>2, <2>1
  <2>3. t = << t[1], t[2] >> /\ w = << w[1], w[2] >>
    BY <1>2
  <2> QED BY <2>1, <2>2, <2>3
<1>5. h \in [u -> v]
  <2>1. h = [t \in u |-> h[t]]
    OBVIOUS
  <2> HIDE DEF h, u, v
  <2> QED BY <1>2, <2>1
<1> HIDE DEF h, u, v
<1>6. h \in Surjection(u, v) /\ h \in Injection(u, v)
  BY <1>3, <1>4, <1>5 DEF Surjection, Injection, IsInjective
<1>7. IsFiniteSet(u)
  BY DEF u
<1>8. IsFiniteSet(v) /\ Cardinality(v) = Cardinality(u)
  BY <1>6, <1>7, FS_Surjection
<1> QED BY <1>8 DEF u, v

Bought == {"OPENING", "BUY"}
Sold == {"SELL"}

\* What a replay holds at the end is what was bought less what was sold.
LEMMA QtyIsUnits ==
  ASSUME NEW codes, NEW rows \in Seq(LedgerRow(codes)), NEW code, PositionState(rows, code).ok,
         NEW n, n = Len(rows)
  PROVE  /\ IsFiniteSet(Units(1..n, rows, code, Bought)) /\ IsFiniteSet(Units(1..n, rows, code, Sold))
         /\ PositionState(rows, code).qty =
              Cardinality(Units(1..n, rows, code, Bought)) - Cardinality(Units(1..n, rows, code, Sold))
<1> DEFINE f == PositionRun(rows, code)
           B(k) == Units(1..k, rows, code, Bought)
           S(k) == Units(1..k, rows, code, Sold)
           T == {k \in Nat : k <= n => /\ IsFiniteSet(B(k)) /\ IsFiniteSet(S(k))
                                       /\ f[k].qty = Cardinality(B(k)) - Cardinality(S(k))}
<1>1. /\ f \in [0..n -> Position] /\ f[0] = Flat
      /\ \A i \in 1..n : f[i] = PositionStep(f[i - 1], rows, i, code)
      /\ PositionState(rows, code) = f[n]
  BY PositionRuns
<1>2. \A i \in 0..n : f[i].ok
  BY OkAllAlong
<1>3. n \in Nat
  OBVIOUS
<1> HIDE DEF f
<1>4. 0 \in T
  <2>1. B(0) = {} /\ S(0) = {}
    <3>1. 1..0 = {}
      OBVIOUS
    <3> QED BY <3>1 DEF Units
  <2>2. IsFiniteSet({}) /\ Cardinality({}) = 0 /\ f[0].qty = 0
    BY <1>1, FS_EmptySet DEF Flat
  <2>3. IsFiniteSet(B(0)) /\ IsFiniteSet(S(0)) /\ Cardinality(B(0)) = 0 /\ Cardinality(S(0)) = 0
    <3> HIDE DEF B, S
    <3> QED BY <2>1, <2>2
  <2>4. f[0].qty = Cardinality(B(0)) - Cardinality(S(0))
    <3> DEFINE x == Cardinality(B(0))  y == Cardinality(S(0))
    <3>1. x = 0 /\ y = 0 /\ f[0].qty = 0
      BY <2>2, <2>3
    <3> HIDE DEF x, y
    <3>2. f[0].qty = x - y
      BY <3>1
    <3> QED BY <3>2 DEF x, y
  <2>5. 0 \in Nat
    OBVIOUS
  <2> HIDE DEF B, S
  <2> QED BY <2>3, <2>4, <2>5, Zenon
<1>5. ASSUME NEW i \in 1..n, i - 1 \in T PROVE i \in T
  <2> DEFINE row == rows[i]
             b == IF row.code = code /\ row.type \in Bought THEN row.qty ELSE 0
             s == IF row.code = code /\ row.type \in Sold THEN row.qty ELSE 0
             D == 1..(i - 1)
  <2>1. i \in 1..Len(rows) /\ row \in LedgerRow(codes) /\ i - 1 \in 0..n /\ i \in 0..n /\ i - 1 <= n
    BY <1>3
  <2>2. row.qty \in Nat
    BY <2>1 DEF LedgerRow
  <2>3. D \union {i} = 1..i /\ i \notin D
    BY <1>3
  <2>4. IsFiniteSet(B(i - 1)) /\ IsFiniteSet(S(i - 1)) /\ f[i - 1].qty = Cardinality(B(i - 1)) - Cardinality(S(i - 1))
    BY <1>5, <2>1
  <2>5. f[i - 1] \in Position /\ f[i - 1].ok /\ f[i].ok
    BY <1>1, <1>2, <2>1
  <2>6. f[i].qty = IF row.code # code THEN f[i - 1].qty
                   ELSE IF Acquires(row) THEN f[i - 1].qty + row.qty
                   ELSE IF row.type = "SELL" THEN f[i - 1].qty - row.qty ELSE f[i - 1].qty
    <3> DEFINE q == f[i]
    <3>1. q = PositionStep(f[i - 1], rows, i, code) /\ q.ok
      BY <1>1, <2>5
    <3> HIDE DEF q
    <3>2. q.ok => q.qty = IF rows[i].code # code THEN f[i - 1].qty
                   ELSE IF Acquires(rows[i]) THEN f[i - 1].qty + rows[i].qty
                   ELSE IF rows[i].type = "SELL" THEN f[i - 1].qty - rows[i].qty ELSE f[i - 1].qty
      BY <2>1, <2>5, <3>1, StepQty
    <3> QED BY <3>1, <3>2 DEF q
  <2>7. f[i].qty = f[i - 1].qty + b - s
    <3>1. f[i - 1].qty \in Int
      BY <2>5 DEF Position
    <3>2. "SELL" \notin {"OPENING", "BUY"}
      OBVIOUS
    <3> HIDE DEF row
    <3> QED BY <2>2, <2>6, <3>1, <3>2 DEF Acquires, Bought, Sold
  <2> DEFINE B0 == B(i - 1)  B1 == B(i)  S0 == S(i - 1)  S1 == S(i)
  <2>8. GrowUnits(D, i, rows, code, Bought, b)
    <3>1. IsFiniteSet(Units(D, rows, code, Bought))
      BY <2>4
    <3>2. AddsUnits(i, rows, code, Bought, b)
      BY DEF AddsUnits
    <3>3. rows[i].qty \in Nat
      BY <2>2
    <3> HIDE DEF b
    <3>4. i \notin D
      BY <2>3
    <3> HIDE DEF row, D
    <3> QED BY <3>1, <3>2, <3>3, <3>4, UnitsAdd, Zenon
  <2>9. GrowUnits(D, i, rows, code, Sold, s)
    <3>1. IsFiniteSet(Units(D, rows, code, Sold))
      BY <2>4
    <3>2. AddsUnits(i, rows, code, Sold, s)
      BY DEF AddsUnits
    <3>3. rows[i].qty \in Nat
      BY <2>2
    <3> HIDE DEF s
    <3>4. i \notin D
      BY <2>3
    <3> HIDE DEF row, D
    <3> QED BY <3>1, <3>2, <3>3, <3>4, UnitsAdd, Zenon
  <2>10. /\ IsFiniteSet(B1) /\ Cardinality(B1) = Cardinality(B0) + b
         /\ IsFiniteSet(S1) /\ Cardinality(S1) = Cardinality(S0) + s
    BY <2>3, <2>8, <2>9 DEF GrowUnits
  <2>11. b \in Int /\ s \in Int
    BY <2>2
  <2>12. Cardinality(B0) \in Nat /\ Cardinality(S0) \in Nat
    BY <2>4, FS_CardinalityType
  <2>13. f[i - 1].qty = Cardinality(B0) - Cardinality(S0)
    BY <2>4
  <2> HIDE DEF B0, B1, S0, S1, b, s
  <2>14. f[i].qty = Cardinality(B1) - Cardinality(S1)
    BY <2>7, <2>10, <2>11, <2>12, <2>13
  <2> QED BY <1>3, <2>10, <2>14 DEF B1, S1
<1>6. n \in T
  <2>1. \A i \in 0..n : i \in T
    <3> HIDE DEF T
    <3> QED BY <1>3, <1>4, <1>5, UpTo
  <2> HIDE DEF T
  <2> QED BY <1>3, <2>1
<1> QED BY <1>1, <1>3, <1>6

-----------------------------------------------------------------------------
(* A replay that goes on from nothing forgets what was before.              *)

\* The rows of two sequences, one after the other.
LEMMA Joined ==
  ASSUME NEW R, NEW s \in Seq(R), NEW t \in Seq(R), NEW m, NEW n, m = Len(s), n = Len(t)
  PROVE  /\ m \in Nat /\ n \in Nat /\ s \o t \in Seq(R) /\ Len(s \o t) = m + n
         /\ \A i \in 1..m : (s \o t)[i] = s[i]
         /\ \A i \in 1..n : (s \o t)[m + i] = t[i]
<1> DEFINE u == s \o t
<1>1. /\ u \in Seq(R) /\ Len(u) = Len(s) + Len(t)
      /\ \A i \in 1..(Len(s) + Len(t)) : u[i] = IF i <= Len(s) THEN s[i] ELSE t[i - Len(s)]
  BY ConcatProperties, Zenon
<1>2. m \in Nat /\ n \in Nat
  OBVIOUS
<1> HIDE DEF u
<1>3. ASSUME NEW i \in 1..m PROVE u[i] = s[i]
  BY <1>1, <1>2
<1>4. ASSUME NEW i \in 1..n PROVE u[m + i] = t[i]
  <2>1. m + i \in 1..(m + n) /\ ~ (m + i <= m) /\ m + i - m = i
    BY <1>2
  <2> QED BY <1>1, <2>1
<1> QED BY <1>1, <1>2, <1>3, <1>4 DEF u

\* A step sees its row and whether the day ends with it.
LEMMA SameStep ==
  ASSUME NEW rows, NEW i, NEW others, NEW j, rows[i] = others[j],
         DayEnd(rows, i) <=> DayEnd(others, j), NEW p, NEW code
  PROVE  PositionStep(p, rows, i, code) = PositionStep(p, others, j, code)
  BY DEF PositionStep, DayClosed

Alike(p, q) == (p.ok <=> q.ok) /\ p.qty = q.qty /\ p.cost = q.cost /\ (p.open <=> q.open)

BookedAs(b, p, row) ==
  /\ b \in Position /\ b.ok = p.ok /\ (b.open <=> p.open \/ Acquires(row))
  /\ b.qty = IF Acquires(row) THEN p.qty + row.qty
             ELSE IF row.type = "SELL" THEN p.qty - row.qty ELSE p.qty
  /\ b.cost = IF row.type = "COST_REBASE" THEN row.amount
              ELSE IF p.open \/ row.type \in {"OPENING", "BUY", "SELL"} THEN p.cost - CashFlow(row)
              ELSE p.cost

\* What a row does to quantity, cost and openness follows from these alone.
LEMMA BookedCost ==
  ASSUME NEW codes, NEW p \in Position, NEW row \in LedgerRow(codes), NEW b, b = Booked(p, row)
  PROVE  BookedAs(b, p, row)
<1>1. /\ b \in Position /\ b.ok = p.ok
      /\ b.open <=> p.open \/ Acquires(row)
      /\ b.qty = IF Acquires(row) THEN p.qty + row.qty
                 ELSE IF row.type = "SELL" THEN p.qty - row.qty ELSE p.qty
  BY BookedFields, Zenon
<1>5. /\ row.type = "COST_REBASE" => b.cost = row.amount
      /\ row.type # "COST_REBASE" => b.cost - b.income + b.fees = p.cost - p.income + p.fees - CashFlow(row)
  <2>1. row.type = "COST_REBASE" => b.cost = row.amount /\ b.income = p.income /\ b.fees = p.fees
    BY BookedFields
  <2>2. row.type # "COST_REBASE" => b.cost - b.income + b.fees = p.cost - p.income + p.fees - CashFlow(row)
    BY BookedFields
  <2> QED BY <2>1, <2>2
<1>6. /\ p.open \/ row.type \in {"OPENING", "BUY", "SELL"} => b.income = p.income /\ b.fees = p.fees
      /\ ~ p.open /\ row.type \notin {"OPENING", "BUY", "SELL", "COST_REBASE"} => b.cost = p.cost
  BY BookedFields
<1>2. CashFlow(row) \in Int
  BY DEF CashFlow, LedgerRow
<1>3. p.cost \in Int /\ p.income \in Int /\ p.fees \in Int /\ b.cost \in Int
  BY <1>1 DEF Position
<1>4. b.cost = IF row.type = "COST_REBASE" THEN row.amount
              ELSE IF p.open \/ row.type \in {"OPENING", "BUY", "SELL"} THEN p.cost - CashFlow(row)
              ELSE p.cost
  <2>1. CASE row.type = "COST_REBASE"
    BY <1>1, <1>5, <1>6, <2>1
  <2>2. CASE row.type # "COST_REBASE" /\ (p.open \/ row.type \in {"OPENING", "BUY", "SELL"})
    <3>1. b.cost - b.income + b.fees = p.cost - p.income + p.fees - CashFlow(row)
      BY <1>1, <1>5, <1>6, <2>2
    <3>2. b.income = p.income /\ b.fees = p.fees
      BY <1>1, <1>5, <1>6, <2>2
    <3>3. b.cost = p.cost - CashFlow(row)
      BY <1>2, <1>3, <3>1, <3>2
    <3> QED BY <2>2, <3>3
  <2>3. CASE row.type # "COST_REBASE" /\ ~ (p.open \/ row.type \in {"OPENING", "BUY", "SELL"})
    BY <1>1, <1>5, <1>6, <2>3
  <2> QED BY <2>1, <2>2, <2>3
<1> QED BY <1>1, <1>5, <1>6, <1>4 DEF BookedAs

\* A step leads from positions that are alike to positions that are alike.
LEMMA AlikeStep ==
  ASSUME NEW codes, NEW rows \in Seq(LedgerRow(codes)), NEW i \in 1..Len(rows), NEW code,
         NEW p \in Position, NEW q \in Position, Alike(p, q)
  PROVE  Alike(PositionStep(p, rows, i, code), PositionStep(q, rows, i, code))
<1> DEFINE row == rows[i]
<1>0. row \in LedgerRow(codes)
  OBVIOUS
<1>1. p.ok \in BOOLEAN /\ q.ok \in BOOLEAN /\ (p.ok <=> q.ok) /\ p.qty = q.qty /\ p.cost = q.cost /\ (p.open <=> q.open)
  BY DEF Alike, Position
<1> HIDE DEF row
<1>2. Bookable(p, row) <=> Bookable(q, row)
  BY <1>1 DEF Bookable
<1>3. CASE ~ p.ok \/ row.code # code
  <2>1. PositionStep(p, rows, i, code) = p /\ PositionStep(q, rows, i, code) = q
    BY <1>1, <1>3 DEF PositionStep, row
  <2> QED BY <2>1
<1>4. CASE p.ok /\ row.code = code /\ ~ Bookable(p, row)
  <2> DEFINE x == [p EXCEPT !.ok = FALSE]
             y == [q EXCEPT !.ok = FALSE]
  <2>1. PositionStep(p, rows, i, code) = x /\ PositionStep(q, rows, i, code) = y
    BY <1>1, <1>2, <1>4 DEF PositionStep, row
  <2>2. x.ok = FALSE /\ x.qty = p.qty /\ x.cost = p.cost /\ x.open = p.open
    BY DEF Position
  <2>3. y.ok = FALSE /\ y.qty = q.qty /\ y.cost = q.cost /\ y.open = q.open
    BY DEF Position
  <2> HIDE DEF x, y
  <2>4. Alike(x, y)
    BY <1>1, <2>2, <2>3 DEF Alike
  <2> QED BY <2>1, <2>4
<1>5. CASE p.ok /\ row.code = code /\ Bookable(p, row)
  <2> DEFINE b == Booked(p, row)
             c == Booked(q, row)
             x == DayClosed(b, rows, i)
             y == DayClosed(c, rows, i)
  <2>1. PositionStep(p, rows, i, code) = x /\ PositionStep(q, rows, i, code) = y
    BY <1>1, <1>2, <1>5 DEF PositionStep, row
  <2>2. b = Booked(p, row) /\ c = Booked(q, row)
    OBVIOUS
  <2> HIDE DEF b, c
  <2>3. /\ b \in Position /\ c \in Position /\ b.ok = p.ok /\ c.ok = q.ok
        /\ b.qty = c.qty /\ b.cost = c.cost /\ (b.open <=> c.open)
    <3>0. p \in Position /\ q \in Position
      OBVIOUS
    <3>1. BookedAs(b, p, row) /\ BookedAs(c, q, row)
      BY <1>0, <2>2, <3>0, BookedCost, Zenon
    <3> QED BY <1>1, <3>1 DEF BookedAs
  <2>4. x = DayClosed(b, rows, i) /\ y = DayClosed(c, rows, i)
    OBVIOUS
  <2> HIDE DEF x, y
  <2>5. /\ x.qty = b.qty /\ x.ok = b.ok /\ (x.open <=> b.open /\ ~ (DayEnd(rows, i) /\ b.qty = 0))
        /\ x.cost = IF DayEnd(rows, i) /\ b.qty = 0 /\ b.open THEN 0 ELSE b.cost
    BY <2>3, <2>4, DayClosedFields, Zenon
  <2>6. /\ y.qty = c.qty /\ y.ok = c.ok /\ (y.open <=> c.open /\ ~ (DayEnd(rows, i) /\ c.qty = 0))
        /\ y.cost = IF DayEnd(rows, i) /\ c.qty = 0 /\ c.open THEN 0 ELSE c.cost
    BY <2>3, <2>4, DayClosedFields, Zenon
  <2>7. x.ok <=> y.ok
    BY <1>1, <2>3, <2>5, <2>6
  <2>8. Alike(x, y)
    BY <2>3, <2>5, <2>6, <2>7 DEF Alike
  <2> QED BY <2>1, <2>8
<1> QED BY <1>3, <1>4, <1>5

-----------------------------------------------------------------------------
\* No row of s is of a day of t.
Apart(s, t) == \A i \in 1..Len(s), j \in 1..Len(t) : s[i].date # t[j].date

\* Where a day ends, is not changed by other days.
LEMMA DayEndsApart ==
  ASSUME NEW R, NEW s \in Seq(R), NEW t \in Seq(R), Apart(s, t), NEW m, m = Len(s)
  PROVE  /\ \A i \in 1..m : DayEnd(s \o t, i) <=> DayEnd(s, i)
         /\ \A i \in 1..Len(t) : DayEnd(s \o t, m + i) <=> DayEnd(t, i)
<1> DEFINE u == s \o t
           n == Len(t)
<1>1. /\ m \in Nat /\ n \in Nat /\ Len(u) = m + n
      /\ \A i \in 1..m : u[i] = s[i]
      /\ \A i \in 1..n : u[m + i] = t[i]
  BY Joined
<1> HIDE DEF u, n
<1>2. ASSUME NEW i \in 1..m PROVE DayEnd(u, i) <=> DayEnd(s, i)
  <2>1. ASSUME DayEnd(u, i) PROVE DayEnd(s, i)
    <3> SUFFICES ASSUME NEW j \in (i + 1)..Len(s) PROVE s[j].code # s[i].code \/ s[j].date # s[i].date
      BY DEF DayEnd
    <3>1. j \in (i + 1)..Len(u) /\ j \in 1..m
      BY <1>1
    <3>2. u[j].code # u[i].code \/ u[j].date # u[i].date
      BY <2>1, <3>1 DEF DayEnd
    <3> QED BY <1>1, <3>1, <3>2
  <2>2. ASSUME DayEnd(s, i) PROVE DayEnd(u, i)
    <3> SUFFICES ASSUME NEW j \in (i + 1)..Len(u) PROVE u[j].code # u[i].code \/ u[j].date # u[i].date
      BY DEF DayEnd
    <3>1. CASE j <= m
      <4>1. j \in (i + 1)..Len(s) /\ j \in 1..m
        BY <1>1, <3>1
      <4>2. s[j].code # s[i].code \/ s[j].date # s[i].date
        BY <2>2, <4>1 DEF DayEnd
      <4> QED BY <1>1, <4>1, <4>2
    <3>2. CASE m < j
      <4>1. j - m \in 1..n /\ m + (j - m) = j
        BY <1>1, <3>2
      <4>2. u[j] = t[j - m]
        BY <1>1, <4>1
      <4>3. s[i].date # t[j - m].date
        BY <4>1 DEF Apart, n
      <4> QED BY <1>1, <4>2, <4>3
    <3> QED BY <1>1, <3>1, <3>2
  <2> QED BY <2>1, <2>2
<1>3. ASSUME NEW i \in 1..n PROVE DayEnd(u, m + i) <=> DayEnd(t, i)
  <2>1. ASSUME DayEnd(u, m + i) PROVE DayEnd(t, i)
    <3> SUFFICES ASSUME NEW j \in (i + 1)..Len(t) PROVE t[j].code # t[i].code \/ t[j].date # t[i].date
      BY DEF DayEnd
    <3>1. m + j \in (m + i + 1)..Len(u) /\ j \in 1..n
      BY <1>1 DEF n
    <3>2. u[m + j].code # u[m + i].code \/ u[m + j].date # u[m + i].date
      BY <2>1, <3>1 DEF DayEnd
    <3> QED BY <1>1, <3>1, <3>2
  <2>2. ASSUME DayEnd(t, i) PROVE DayEnd(u, m + i)
    <3> SUFFICES ASSUME NEW j \in (m + i + 1)..Len(u)
                 PROVE  u[j].code # u[m + i].code \/ u[j].date # u[m + i].date
      BY DEF DayEnd
    <3>1. j - m \in (i + 1)..Len(t) /\ j - m \in 1..n /\ m + (j - m) = j
      BY <1>1 DEF n
    <3>2. t[j - m].code # t[i].code \/ t[j - m].date # t[i].date
      BY <2>2, <3>1 DEF DayEnd
    <3>3. u[m + (j - m)] = t[j - m] /\ u[m + i] = t[i]
      BY <1>1, <3>1
    <3> QED BY <3>1, <3>2, <3>3
  <2> QED BY <2>1, <2>2
<1> QED BY <1>2, <1>3 DEF u, n

\* Rows of later days change nothing of what was before.
LEMMA RunBeginning ==
  ASSUME NEW codes, NEW s \in Seq(LedgerRow(codes)), NEW t \in Seq(LedgerRow(codes)),
         Apart(s, t), NEW code
  PROVE  PositionRun(s \o t, code)[Len(s)] = PositionState(s, code)
<1> DEFINE u == s \o t
           m == Len(s)
           f == PositionRun(u, code)
           g == PositionRun(s, code)
           T == {k \in Nat : k <= m => f[k] = g[k]}
<1>1. /\ m \in Nat /\ Len(t) \in Nat /\ u \in Seq(LedgerRow(codes)) /\ Len(u) = m + Len(t)
      /\ \A i \in 1..m : u[i] = s[i]
  BY Joined
<1>2. \A i \in 1..m : DayEnd(u, i) <=> DayEnd(s, i)
  BY DayEndsApart
<1> HIDE DEF u, m
<1>3. f[0] = Flat /\ \A i \in 1..Len(u) : f[i] = PositionStep(f[i - 1], u, i, code)
  BY <1>1, PositionRuns
<1>4. g[0] = Flat /\ \A i \in 1..m : g[i] = PositionStep(g[i - 1], s, i, code)
  BY PositionRuns DEF m
<1>5. PositionState(s, code) = g[m]
  BY PositionRuns DEF m
<1> HIDE DEF f, g
<1>6. 0 \in T
  BY <1>3, <1>4
<1>7. ASSUME NEW i \in 1..m, i - 1 \in T PROVE i \in T
  <2>1. i \in 1..Len(u) /\ i - 1 <= m
    BY <1>1
  <2>2. f[i] = PositionStep(f[i - 1], u, i, code) /\ g[i] = PositionStep(g[i - 1], s, i, code)
    BY <1>3, <1>4, <2>1
  <2>3. f[i - 1] = g[i - 1]
    BY <1>7, <2>1
  <2>4. PositionStep(f[i - 1], u, i, code) = PositionStep(f[i - 1], s, i, code)
    <3> DEFINE p == f[i - 1]
    <3>1. u[i] = s[i] /\ (DayEnd(u, i) <=> DayEnd(s, i))
      BY <1>1, <1>2
    <3> HIDE DEF p, T
    <3>2. PositionStep(p, u, i, code) = PositionStep(p, s, i, code)
      BY <3>1 DEF PositionStep, DayClosed
    <3> QED BY <3>2 DEF p
  <2> QED BY <2>2, <2>3, <2>4
<1>8. m \in T
  <2>1. \A i \in 0..m : i \in T
    <3> HIDE DEF T
    <3> QED BY <1>1, <1>6, <1>7, UpTo
  <2> HIDE DEF T
  <2> QED BY <1>1, <2>1
<1> QED BY <1>1, <1>5, <1>8 DEF f, u, m

\* Also when the row stands in two ledgers, at two places.
LEMMA StepsAlike ==
  ASSUME NEW codes, NEW t \in Seq(LedgerRow(codes)), NEW i \in 1..Len(t), NEW code,
         NEW u, NEW j, u[j] = t[i] /\ (DayEnd(u, j) <=> DayEnd(t, i)),
         NEW v, NEW k, v[k] = t[i] /\ (DayEnd(v, k) <=> DayEnd(t, i)),
         NEW p \in Position, NEW q \in Position, Alike(p, q)
  PROVE  Alike(PositionStep(p, u, j, code), PositionStep(q, v, k, code))
<1>1. PositionStep(p, u, j, code) = PositionStep(p, t, i, code)
  BY SameStep
<1>2. PositionStep(q, v, k, code) = PositionStep(q, t, i, code)
  BY SameStep
<1>3. Alike(PositionStep(p, t, i, code), PositionStep(q, t, i, code))
  BY AlikeStep
<1> QED BY <1>1, <1>2, <1>3

\* Of two beginnings that end alike, the rest is alike.
LEMMA RunsOn ==
  ASSUME NEW codes, NEW s \in Seq(LedgerRow(codes)), NEW o \in Seq(LedgerRow(codes)),
         NEW t \in Seq(LedgerRow(codes)), Apart(s, t), Apart(o, t), NEW code,
         Alike(PositionState(s, code), PositionState(o, code))
  PROVE  Alike(PositionState(s \o t, code), PositionState(o \o t, code))
<1> DEFINE u == s \o t
           v == o \o t
           a == Len(s)
           b == Len(o)
           n == Len(t)
           f == PositionRun(u, code)
           g == PositionRun(v, code)
           T == {k \in Nat : k <= n => Alike(f[a + k], g[b + k])}
<1>1. /\ a \in Nat /\ n \in Nat /\ u \in Seq(LedgerRow(codes)) /\ Len(u) = a + n
      /\ \A i \in 1..n : u[a + i] = t[i]
  BY Joined
<1>2. /\ b \in Nat /\ v \in Seq(LedgerRow(codes)) /\ Len(v) = b + n
      /\ \A i \in 1..n : v[b + i] = t[i]
  BY Joined
<1>3. /\ \A i \in 1..n : DayEnd(u, a + i) <=> DayEnd(t, i)
      /\ \A i \in 1..n : DayEnd(v, b + i) <=> DayEnd(t, i)
  BY DayEndsApart
<1>4. Alike(f[a], g[b])
  BY RunBeginning
<1> HIDE DEF u, v, a, b
<1>5. /\ f \in [0..Len(u) -> Position] /\ \A i \in 1..Len(u) : f[i] = PositionStep(f[i - 1], u, i, code)
      /\ PositionState(u, code) = f[Len(u)]
  BY <1>1, PositionRuns
<1>6. /\ g \in [0..Len(v) -> Position] /\ \A i \in 1..Len(v) : g[i] = PositionStep(g[i - 1], v, i, code)
      /\ PositionState(v, code) = g[Len(v)]
  BY <1>2, PositionRuns
<1> HIDE DEF f, g
<1>7. 0 \in T
  <2>1. a + 0 = a /\ b + 0 = b
    BY <1>1, <1>2
  <2> QED BY <1>4, <2>1
<1>8. ASSUME NEW i \in 1..n, i - 1 \in T PROVE i \in T
  <2>1. /\ a + i \in 1..Len(u) /\ a + i - 1 = a + (i - 1) /\ a + (i - 1) \in 0..Len(u)
        /\ b + i \in 1..Len(v) /\ b + i - 1 = b + (i - 1) /\ b + (i - 1) \in 0..Len(v)
        /\ i - 1 <= n
    BY <1>1, <1>2
  <2>2. Alike(f[a + (i - 1)], g[b + (i - 1)])
    BY <1>8, <2>1
  <2> HIDE DEF T
  <2>3. PICK j \in 1..Len(u) : j = a + i
    BY <2>1
  <2>4. PICK k \in 1..Len(v) : k = b + i
    BY <2>1
  <2>5. f[j - 1] \in Position /\ g[k - 1] \in Position /\ Alike(f[j - 1], g[k - 1])
    <3>1. j - 1 = a + (i - 1) /\ k - 1 = b + (i - 1)
      BY <1>1, <1>2, <2>3, <2>4
    <3>2. j - 1 \in 0..Len(u) /\ k - 1 \in 0..Len(v)
      BY <2>1, <3>1
    <3>3. f[j - 1] \in Position
      BY <1>5, <3>2
    <3>4. g[k - 1] \in Position
      BY <1>6, <3>2
    <3> QED BY <2>2, <3>1, <3>3, <3>4
  <2>6. u[j] = t[i] /\ (DayEnd(u, j) <=> DayEnd(t, i))
    BY <1>1, <1>3, <2>3
  <2>7. v[k] = t[i] /\ (DayEnd(v, k) <=> DayEnd(t, i))
    BY <1>2, <1>3, <2>4
  <2>8. f[j] = PositionStep(f[j - 1], u, j, code)
    BY <1>5
  <2>9. g[k] = PositionStep(g[k - 1], v, k, code)
    BY <1>6
  <2>10. i \in 1..Len(t)
    BY DEF n
  <2> HIDE DEF n
  <2>11. Alike(f[j], g[k])
    BY <2>5, <2>6, <2>7, <2>8, <2>9, <2>10, StepsAlike
  <2>12. Alike(f[a + i], g[b + i])
    BY <2>3, <2>4, <2>11
  <2> QED BY <2>12 DEF T
<1>9. n \in T
  <2>1. \A i \in 0..n : i \in T
    <3> HIDE DEF T
    <3> QED BY <1>1, <1>7, <1>8, UpTo
  <2> HIDE DEF T
  <2> QED BY <1>1, <2>1
<1>10. Alike(f[Len(u)], g[Len(v)])
  BY <1>1, <1>2, <1>9
<1> QED BY <1>5, <1>6, <1>10 DEF u, v

\* Who holds nothing after a day has nothing left of it.
LEMMA NothingLeft ==
  ASSUME NEW codes, NEW rows \in Seq(LedgerRow(codes)), NEW code,
         PositionState(rows, code).ok, PositionState(rows, code).qty = 0
  PROVE  ~ PositionState(rows, code).open /\ PositionState(rows, code).cost = 0
<1> DEFINE p == PositionState(rows, code)
           s == CycleReplay(rows, code)
<1>1. PICK l \in LedgerState : Together(p, s, l, rows, Len(rows), code)
  BY EndsTogether
<1>2. Len(rows) \in Nat
  OBVIOUS
<1>3. p.qty = 0
  OBVIOUS
<1> HIDE DEF p, s
<1>4. ~ \E j \in (Len(rows) + 1)..Len(rows) : rows[j].code = code
  BY <1>2
<1>5. ~ p.open
  BY <1>1, <1>3, <1>4 DEF Together
<1>6. p.cost = 0
  BY <1>1, <1>5 DEF Together
<1> QED BY <1>5, <1>6 DEF p

-----------------------------------------------------------------------------
(* A replay of one security sees its own rows only.                         *)

\* `part` is made of the rows of one security, at the places g, in their order.
OwnRows(part, rows, code, g) ==
  /\ g \in [0..Len(part) -> 0..Len(rows)] /\ g[0] = 0
  /\ \A i \in 1..Len(part) : g[i] \in 1..Len(rows) /\ part[i] = rows[g[i]] /\ part[i].code = code
  /\ \A i, k \in 1..Len(part) : i < k <=> g[i] < g[k]
  /\ \A j \in 1..Len(rows) : rows[j].code = code => \E i \in 1..Len(part) : g[i] = j

\* A day ends for a security where it ends among its own rows.
LEMMA OwnDayEnd ==
  ASSUME NEW codes, NEW rows \in Seq(LedgerRow(codes)), NEW part \in Seq(LedgerRow(codes)),
         NEW code, NEW g, OwnRows(part, rows, code, g), NEW i \in 1..Len(part)
  PROVE  DayEnd(part, i) <=> DayEnd(rows, g[i])
<1> DEFINE n == Len(rows)
           m == Len(part)
           b == g[i]
<1>1. n \in Nat /\ m \in Nat
  OBVIOUS
<1>2. \A k \in 1..m : g[k] \in 1..n /\ part[k] = rows[g[k]] /\ part[k].code = code
  BY DEF OwnRows
<1>3. \A j, k \in 1..m : j < k <=> g[j] < g[k]
  BY DEF OwnRows
<1>4. \A j \in 1..n : rows[j].code = code => \E k \in 1..m : g[k] = j
  BY DEF OwnRows
<1>5. i \in 1..m /\ b \in 1..n /\ part[i] = rows[b] /\ rows[b].code = code
  BY <1>2
<1> HIDE DEF n, m, b
<1>6. DayEnd(part, i) <=> \A k \in 1..m : i < k => part[k].date # part[i].date
  <2>1. \A k : k \in (i + 1)..m <=> k \in 1..m /\ i < k
    BY <1>1, <1>5
  <2> QED BY <1>2, <1>5, <2>1 DEF DayEnd, m
<1>7. DayEnd(rows, b) <=> \A j \in 1..n : b < j /\ rows[j].code = code => rows[j].date # rows[b].date
  <2>1. \A j : j \in (b + 1)..n <=> j \in 1..n /\ b < j
    BY <1>1, <1>5
  <2> QED BY <1>5, <2>1 DEF DayEnd, n
<1>8. ASSUME DayEnd(part, i), NEW j \in 1..n, b < j, rows[j].code = code
      PROVE  rows[j].date # rows[b].date
  <2>1. PICK k \in 1..m : g[k] = j
    BY <1>4, <1>8
  <2>2. i < k
    BY <1>3, <1>5, <1>8, <2>1 DEF b
  <2>3. part[k].date # part[i].date /\ part[k] = rows[j]
    BY <1>2, <1>6, <1>8, <2>1, <2>2
  <2> QED BY <1>5, <2>3
<1>9. ASSUME DayEnd(rows, b), NEW k \in 1..m, i < k
      PROVE  part[k].date # part[i].date
  <2>1. g[k] \in 1..n /\ part[k] = rows[g[k]] /\ part[k].code = code /\ b < g[k]
    BY <1>2, <1>3, <1>5, <1>9 DEF b
  <2> DEFINE j == g[k]
  <2>2. j \in 1..n /\ part[k] = rows[j] /\ rows[j].code = code /\ b < j
    BY <2>1
  <2> HIDE DEF j
  <2>3. rows[j].date # rows[b].date
    BY <1>7, <1>9, <2>2
  <2> QED BY <1>5, <2>2, <2>3
<1>10. DayEnd(part, i) <=> DayEnd(rows, b)
  BY <1>6, <1>7, <1>8, <1>9
<1> QED BY <1>10 DEF b

\* The rows of other securities leave a position, and its own rows do the same
\* to it whatever is between them.
THEOREM OwnReplay ==
  ASSUME NEW codes, NEW rows \in Seq(LedgerRow(codes)), NEW part \in Seq(LedgerRow(codes)),
         NEW code, NEW g, OwnRows(part, rows, code, g)
  PROVE  PositionState(part, code) = PositionState(rows, code)
<1> DEFINE n == Len(rows)
           m == Len(part)
           f == PositionRun(rows, code)
           h == PositionRun(part, code)
           T == {k \in Nat : k <= n =>
                   \A i \in 0..m : g[i] <= k /\ (\A l \in 1..m : i < l => k < g[l]) => f[k] = h[i]}
<1>1. /\ f[0] = Flat /\ \A i \in 1..n : f[i] = PositionStep(f[i - 1], rows, i, code)
      /\ PositionState(rows, code) = f[n]
  BY PositionRuns
<1>2. /\ h[0] = Flat /\ \A i \in 1..m : h[i] = PositionStep(h[i - 1], part, i, code)
      /\ PositionState(part, code) = h[m]
  BY PositionRuns
<1>3. n \in Nat /\ m \in Nat
  OBVIOUS
<1>4. /\ g[0] = 0 /\ \A i \in 0..m : g[i] \in 0..n
      /\ \A i \in 1..m : g[i] \in 1..n /\ part[i] = rows[g[i]] /\ part[i].code = code
      /\ \A i, k \in 1..m : i < k <=> g[i] < g[k]
      /\ \A j \in 1..n : rows[j].code = code => \E i \in 1..m : g[i] = j
  BY DEF OwnRows
<1>5. \A i \in 1..m : PositionStep(h[i - 1], part, i, code) = PositionStep(h[i - 1], rows, g[i], code)
  <2> SUFFICES ASSUME NEW i \in 1..m
               PROVE  PositionStep(h[i - 1], part, i, code) = PositionStep(h[i - 1], rows, g[i], code)
    OBVIOUS
  <2> DEFINE b == g[i]
             p == h[i - 1]
  <2>1. part[i] = rows[b] /\ (DayEnd(part, i) <=> DayEnd(rows, b))
    BY <1>4, OwnDayEnd
  <2> HIDE DEF b, p, f, h, T
  <2>2. PositionStep(p, part, i, code) = PositionStep(p, rows, b, code)
    BY <2>1, SameStep
  <2> QED BY <2>2 DEF b, p
<1> HIDE DEF f, h, n, m
<1>6. 0 \in T
  <2> SUFFICES ASSUME NEW i \in 0..m, g[i] <= 0 PROVE f[0] = h[i]
    OBVIOUS
  <2>1. i = 0
    BY <1>3, <1>4
  <2> QED BY <1>1, <1>2, <2>1
<1>7. ASSUME NEW k \in 1..n, k - 1 \in T
      PROVE  k \in T
  <2> SUFFICES ASSUME NEW i \in 0..m, g[i] <= k, \A l \in 1..m : i < l => k < g[l]
               PROVE  f[k] = h[i]
    BY <1>3
  <2>0. k - 1 \in Nat /\ k - 1 <= n /\ g[i] \in 0..n
    BY <1>3, <1>4
  <2>1. CASE rows[k].code # code
    <3>1. f[k] = f[k - 1]
      BY <1>1, <2>1 DEF PositionStep
    <3>2. g[i] # k
      <4>1. CASE i = 0
        BY <1>3, <1>4, <4>1
      <4>2. CASE i # 0
        <5>1. i \in 1..m
          BY <1>3, <4>2
        <5> QED BY <1>4, <2>1, <5>1
      <4> QED BY <4>1, <4>2
    <3>3. g[i] <= k - 1
      BY <1>3, <2>0, <3>2
    <3>4. \A l \in 1..m : i < l => k - 1 < g[l]
      <4> SUFFICES ASSUME NEW l \in 1..m, i < l PROVE k - 1 < g[l]
        OBVIOUS
      <4>1. k < g[l] /\ g[l] \in 1..n
        BY <1>4
      <4> QED BY <1>3, <4>1
    <3>5. f[k - 1] = h[i]
      BY <1>7, <2>0, <3>3, <3>4
    <3> QED BY <3>1, <3>5
  <2>2. CASE rows[k].code = code
    <3>1. PICK j \in 1..m : g[j] = k
      BY <1>4, <2>2
    <3>2. i = j
      <4>1. ~ (i < j)
        BY <1>3, <3>1
      <4>2. i \in 1..m /\ ~ (j < i)
        <5>1. i \in 1..m
          BY <1>3, <4>1
        <5>2. ~ (g[j] < g[i])
          BY <1>3, <2>0, <3>1
        <5> QED BY <1>4, <5>1, <5>2
      <4> QED BY <1>3, <4>1, <4>2
    <3>3. j - 1 \in 0..m /\ g[j - 1] <= k - 1
      <4>1. j - 1 \in 0..m
        BY <1>3
      <4>2. CASE j - 1 = 0
        BY <1>3, <1>4, <4>2
      <4>3. CASE j - 1 # 0
        <5>1. j - 1 \in 1..m /\ j - 1 < j
          BY <1>3, <4>3
        <5>2. g[j - 1] < g[j] /\ g[j - 1] \in 1..n
          BY <1>4, <5>1
        <5> QED BY <1>3, <3>1, <4>1, <5>2
      <4> QED BY <4>1, <4>2, <4>3
    <3>4. \A l \in 1..m : j - 1 < l => k - 1 < g[l]
      <4> SUFFICES ASSUME NEW l \in 1..m, j - 1 < l PROVE k - 1 < g[l]
        OBVIOUS
      <4>1. l = j \/ j < l
        BY <1>3
      <4>2. g[l] \in 1..n /\ (l = j \/ g[j] < g[l])
        BY <1>4, <4>1
      <4> QED BY <1>3, <3>1, <4>2
    <3>5. f[k - 1] = h[j - 1]
      BY <1>7, <2>0, <3>3, <3>4
    <3>6. h[j] = PositionStep(h[j - 1], rows, k, code)
      BY <1>2, <1>5, <3>1
    <3> QED BY <1>1, <3>2, <3>5, <3>6
  <2> QED BY <2>1, <2>2
<1>8. n \in T
  <2>1. n \in 0..n
    BY <1>3
  <2> HIDE DEF T
  <2> QED BY <1>3, <1>6, <1>7, <2>1, UpTo
<1>9. f[n] = h[m]
  <2>1. m \in 0..m /\ g[m] <= n /\ n <= n /\ \A l \in 1..m : ~ (m < l)
    BY <1>3, <1>4
  <2> QED BY <1>8, <2>1
<1> QED BY <1>1, <1>2, <1>9
=============================================================================
