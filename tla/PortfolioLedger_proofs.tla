------------------------ MODULE PortfolioLedger_proofs ------------------------
(***************************************************************************)
(* Theorems about the portfolio ledger, for every set of callers, openings, *)
(* statements, cost anchors and balances and for every bound:               *)
(*                                                                          *)
(*   LedgerTyped             the ledger and the callers' locals keep types  *)
(*   BaselineSplit           the baseline parts openings from history       *)
(*   PastKept                what was known by a past second stays as it was*)
(*   MoneyAccounted          every replay of a day accounts for every flow  *)
(*   ViewsAgree              the views of a day agree on cycles and profit  *)
(*   DaysReplay              the ledger and the snapshots of a day replay   *)
(*   CashTyped               all the types, the cash snapshots' included    *)
(*   StatementCashShown      a statement's cash is what its day shows       *)
(*   OlderHistoryHarmless    an older history leaves every position as it is*)
(*   CleanPreview            what a preview accepted is booked, if its rows  *)
(*                           are tied with none and ids have as many digits  *)
(*   SnapshotShows           a snapshot holds what its day shows, up to the  *)
(*                           first anchor that counts                        *)
(*                                                                          *)
(* The sort keys of the rows are strings of parts; that the ids differ      *)
(* (IdsInv) makes the keys differ, and a finite strictly ordered set is     *)
(* ranked (Ranking), so the sorted ledger is a sequence of all its rows     *)
(* (Sorting).  The replays of such a sequence are in                        *)
(* PositionAccounting_proofs.                                               *)
(***************************************************************************)
EXTENDS PortfolioLedger, PositionAccounting_proofs, FiniteSetTheorems, SequenceTheorems, TLAPS

-----------------------------------------------------------------------------
(* What INSERT OR IGNORE adds. *)

\* The places of the fresh rows are places of the batch, so they are finite.
LEMMA FreshFinite ==
  ASSUME NEW es, NEW rows \in Seq(Rows)
  PROVE  Fresh(es, rows) \subseteq 1..Len(rows) /\ IsFiniteSet(Fresh(es, rows))
<1>1. Len(rows) \in Nat /\ DOMAIN rows = 1..Len(rows)
  OBVIOUS
<1>2. Fresh(es, rows) \subseteq 1..Len(rows)
  BY <1>1 DEF Fresh
<1>3. IsFiniteSet(1..Len(rows))
  BY <1>1, FS_Interval
<1> QED BY <1>2, <1>3, FS_Subset

\* An inserted entry is an old one, or a row of the batch with the batch's kind.
LEMMA InsertedFrom ==
  ASSUME NEW es, NEW rows \in Seq(Rows), NEW kind, NEW e \in Inserted(es, rows, kind)
  PROVE  e \in es \/ (e.via = kind /\ \E i \in DOMAIN rows : e.row = rows[i])
<1> SUFFICES ASSUME e \notin es
             PROVE  e.via = kind /\ \E i \in DOMAIN rows : e.row = rows[i]
  OBVIOUS
<1>1. PICK i \in Fresh(es, rows) :
        e = [id |-> FirstId + Cardinality(es) + Cardinality({j \in Fresh(es, rows) : j < i}),
             row |-> rows[i], via |-> kind, at |-> clock]
  BY DEF Inserted
<1>2. i \in DOMAIN rows
  BY DEF Fresh
<1> QED BY <1>1, <1>2

\* Entries keep their type and stay finitely many.
LEMMA InsertedType ==
  ASSUME NEW es \in SUBSET [id : Nat, row : Rows, via : Kinds, at : 0..MaxClock], IsFiniteSet(es),
         NEW rows \in Seq(Rows), NEW kind \in Kinds, clock \in 0..MaxClock
  PROVE  /\ Inserted(es, rows, kind) \subseteq [id : Nat, row : Rows, via : Kinds, at : 0..MaxClock]
         /\ IsFiniteSet(Inserted(es, rows, kind))
<1> DEFINE F == Fresh(es, rows)
           Id(i) == FirstId + Cardinality(es) + Cardinality({j \in F : j < i})
           f == [i \in F |-> [id |-> Id(i), row |-> rows[i], via |-> kind, at |-> clock]]
           new == {f[i] : i \in F}
<1>1. F \subseteq 1..Len(rows) /\ IsFiniteSet(F)
  BY FreshFinite
<1>2. \A i \in F : Id(i) \in Nat
  <2> SUFFICES ASSUME NEW i \in F PROVE Id(i) \in Nat
    OBVIOUS
  <2>1. IsFiniteSet({j \in F : j < i})
    BY <1>1, FS_Subset
  <2>2. Cardinality({j \in F : j < i}) \in Nat /\ Cardinality(es) \in Nat
    BY <2>1, FS_CardinalityType
  <2> QED BY <2>2, InputAssumption
<1>3. Inserted(es, rows, kind) = es \union new
  BY DEF Inserted
<1>4. \A i \in F : rows[i] \in Rows
  BY <1>1
<1>5. new \subseteq [id : Nat, row : Rows, via : Kinds, at : 0..MaxClock]
  <2> HIDE DEF F, Id
  <2> QED BY <1>2, <1>4
<1>6. IsFiniteSet(new)
  <2>1. f \in Surjection(F, new)
    <3> HIDE DEF F, Id
    <3> QED BY DEF Surjection
  <2> HIDE DEF F, Id, f, new
  <2> QED BY <1>1, <2>1, FS_Surjection
<1> HIDE DEF new
<1>7. IsFiniteSet(es \union new)
  BY <1>6, FS_Union
<1> QED BY <1>3, <1>5, <1>7

-----------------------------------------------------------------------------
(* Typing.  The ids are counted, so the ledger has to stay finite; the      *)
(* baseline is the date of the first row of the opening that is applied.    *)

LedgerInv == LedgerTypeOK /\ IsFiniteSet(entries)

\* What the check of an operation has established about its locals.
Checked(t) ==
  /\ t.pc \in {"statement", "applyStatement"} =>
       /\ t.rows \in Statements
       /\ t.base # NoDate => \A i \in DOMAIN t.rows : t.rows[i].date > t.base
  /\ t.pc \in {"history", "applyHistory"} =>
       /\ t.rows \in Statements
       /\ t.base # NoDate
       /\ \A i \in DOMAIN t.rows : t.rows[i].date <= t.base
       /\ SelfContained(t.rows)
  /\ t.pc = "applyOpening" => t.rows \in Openings

AllChecked == \A c \in Callers : Checked(task[c])

\* What is checked stays true of the locals until the operation ends: nobody
\* else writes them (the arguments and locals of apply_statement and the rest).
LEMMA CheckedStep ==
  ASSUME LedgerInv, AllChecked, [Next]_vars
  PROVE  AllChecked'
<1> USE DEF AllChecked
<1>t. task \in [Callers -> Tasks]
  BY DEF LedgerInv, LedgerTypeOK
<1>i. Checked(Idle)
  BY DEF Checked, Idle
<1>e. ASSUME NEW c \in Callers, NEW t, Checked(t), task' = [task EXCEPT ![c] = t]
      PROVE  AllChecked'
  BY <1>e, <1>t
<1>k. ASSUME UNCHANGED task PROVE AllChecked'
  BY <1>k
<1>1. ASSUME NEW c \in Callers, NEW rows \in Statements, CheckStatement(c, rows)
      PROVE  AllChecked'
  <2> DEFINE t == [pc |-> "statement", rows |-> rows, base |-> baseline, seen |-> <<0, 0>>]
  <2>1. Checked(t)
    BY <1>1 DEF CheckStatement, AfterBaseline, DatesOf, Checked
  <2>2. task' = [task EXCEPT ![c] = t]
    BY <1>1 DEF CheckStatement, Begin
  <2> QED BY <1>e, <2>1, <2>2
<1>2. ASSUME NEW c \in Callers, NEW rows \in Statements, CheckHistory(c, rows)
      PROVE  AllChecked'
  <2> DEFINE t == [pc |-> "history", rows |-> rows, base |-> baseline, seen |-> <<0, 0>>]
  <2>1. Checked(t)
    BY <1>2 DEF CheckHistory, UpToBaseline, DatesOf, Checked
  <2>2. task' = [task EXCEPT ![c] = t]
    BY <1>2 DEF CheckHistory, Begin
  <2> QED BY <1>e, <2>1, <2>2
<1>3. ASSUME NEW c \in Callers, NEW rows \in Openings, CheckOpening(c, rows)
      PROVE  AllChecked'
  <2> DEFINE t == [pc |-> "applyOpening", rows |-> rows, base |-> baseline, seen |-> <<0, 0>>]
  <2>1. Checked(t)
    BY DEF Checked
  <2>2. task' = [task EXCEPT ![c] = t]
    BY <1>3 DEF CheckOpening, Begin
  <2> QED BY <1>e, <2>1, <2>2
<1>4. ASSUME NEW c \in Callers, Begin(c, "insertCash", <<>>) PROVE AllChecked'
  <2> DEFINE t == [pc |-> "insertCash", rows |-> <<>>, base |-> baseline, seen |-> <<0, 0>>]
  <2>1. Checked(t)
    BY DEF Checked
  <2>2. task' = [task EXCEPT ![c] = t]
    BY <1>4 DEF Begin
  <2> QED BY <1>e, <2>1, <2>2
<1>5. ASSUME NEW c \in Callers, PreviewStatement(c) PROVE AllChecked'
  <2> DEFINE t == [pc |-> "applyStatement", rows |-> task[c].rows,
                  base |-> task[c].base, seen |-> Version]
  <2>1. Checked(t)
    BY <1>5, <1>t DEF PreviewStatement, Checked, Tasks
  <2>2. task' = [task EXCEPT ![c] = t] \/ task' = [task EXCEPT ![c] = Idle]
    BY <1>5 DEF PreviewStatement, Previewed
  <2> QED BY <1>e, <1>i, <2>1, <2>2
<1>6. ASSUME NEW c \in Callers, PreviewHistory(c) PROVE AllChecked'
  <2> DEFINE t == [pc |-> "applyHistory", rows |-> task[c].rows,
                  base |-> task[c].base, seen |-> Version]
  <2>1. Checked(t)
    BY <1>6, <1>t DEF PreviewHistory, Checked, Tasks
  <2>2. task' = [task EXCEPT ![c] = t] \/ task' = [task EXCEPT ![c] = Idle]
    BY <1>6 DEF PreviewHistory, Previewed
  <2> QED BY <1>e, <1>i, <2>1, <2>2
<1>7. ASSUME NEW c \in Callers, task' = [task EXCEPT ![c] = Idle] PROVE AllChecked'
  BY <1>e, <1>i, <1>7
<1>8. CASE UNCHANGED vars \/ Tick \/ \E c \in Callers, a \in CostAnchors : RecordCostAnchor(c, a)
  BY <1>8, <1>k DEF vars, Tick, RecordCostAnchor
<1>9. ASSUME NEW c \in Callers,
             \/ ApplyStatement(c) \/ ApplyHistory(c) \/ ApplyRefused(c)
             \/ ApplyOpening(c) \/ OpeningRefused(c) \/ InsertCash(c)
      PROVE  AllChecked'
  BY <1>7, <1>9 DEF ApplyStatement, ApplyHistory, ApplyRefused, ApplyOpening,
     OpeningRefused, InsertCash
<1>10. ASSUME NEW c \in Callers, ProjectCash(c) \/ \E b \in Balances : DateCash(c, b)
       PROVE  AllChecked'
  BY <1>4, <1>10 DEF ProjectCash, DateCash
<1> QED BY <1>1, <1>2, <1>3, <1>5, <1>6, <1>8, <1>9, <1>10 DEF Next

\* A caller between two operations is well typed.
LEMMA IdleType == Idle \in Tasks
  BY DEF Idle, Tasks, Batches

\* Every batch a caller holds is a sequence of rows.
LEMMA BatchType == \A rows \in Batches : rows \in Seq(Rows)
<1>1. <<>> \in Seq(Rows)
  OBVIOUS
<1>2. \A rows \in Statements \union Openings : rows \in Seq(Rows)
  BY InputAssumption
<1> QED BY <1>1, <1>2 DEF Batches

\* Starting an operation keeps types.
LEMMA BeginType ==
  ASSUME LedgerInv, NEW c \in Callers, NEW rows \in Batches,
         NEW pc \in {"statement", "history", "applyOpening", "insertCash"},
         Begin(c, pc, rows)
  PROVE  task' \in [Callers -> Tasks] /\ ops' \in 0..MaxOps
<1> DEFINE t == [pc |-> pc, rows |-> rows, base |-> baseline, seen |-> <<0, 0>>]
<1>2. t \in Tasks
  BY DEF LedgerInv, LedgerTypeOK, Tasks
<1>3. task' = [task EXCEPT ![c] = t]
  BY DEF Begin
<1> HIDE DEF t
<1>4. task' \in [Callers -> Tasks]
  BY <1>2, <1>3 DEF LedgerInv, LedgerTypeOK
<1>5. ops' \in 0..MaxOps
  BY InputAssumption DEF Begin, LedgerInv, LedgerTypeOK
<1> QED BY <1>4, <1>5

\* Ending an operation keeps types.
LEMMA EndType ==
  ASSUME LedgerInv, NEW c \in Callers, task' = [task EXCEPT ![c] = Idle]
  PROVE  task' \in [Callers -> Tasks]
  BY IdleType DEF LedgerInv, LedgerTypeOK

\* A preview keeps types.
LEMMA PreviewedType ==
  ASSUME LedgerInv, NEW c \in Callers, NEW accepted,
         NEW next \in {"applyStatement", "applyHistory"}, Previewed(c, accepted, next)
  PROVE  LedgerInv'
<1>1. Version \in Nat \X Nat
  <2>1. Cardinality(entries) \in Nat
    BY FS_CardinalityType DEF LedgerInv
  <2> QED BY <2>1 DEF Version, LedgerInv, LedgerTypeOK
<1> DEFINE t == [pc |-> next, rows |-> task[c].rows, base |-> task[c].base, seen |-> Version]
<1>2. t \in Tasks
  BY <1>1 DEF LedgerInv, LedgerTypeOK, Tasks
<1>3. task' = [task EXCEPT ![c] = t] \/ task' = [task EXCEPT ![c] = Idle]
  BY DEF Previewed
<1> HIDE DEF t
<1>4. task' \in [Callers -> Tasks]
  BY <1>2, <1>3, IdleType DEF LedgerInv, LedgerTypeOK
<1> QED BY <1>4 DEF Previewed, LedgerInv, LedgerTypeOK

\* Each step of a caller and of the clock keeps types.
LEMMA LedgerTypeStep ==
  ASSUME LedgerInv, AllChecked, [Next]_vars
  PROVE  LedgerInv'
<1>u. CASE UNCHANGED vars
  BY <1>u DEF vars, LedgerInv, LedgerTypeOK
<1>s. \A c \in Callers : task[c].rows \in Seq(Rows)
  BY BatchType DEF LedgerInv, LedgerTypeOK, Tasks
<1>k. /\ "broker_statement" \in Kinds
      /\ "historical_closed_statement" \in Kinds
      /\ "opening_snapshot" \in Kinds
  BY DEF Kinds
<1>b. <<>> \in Batches /\ Statements \subseteq Batches /\ Openings \subseteq Batches
  BY DEF Batches
<1>1. ASSUME NEW c \in Callers, NEW rows \in Statements, CheckStatement(c, rows)
      PROVE  LedgerInv'
  BY <1>1, <1>b, BeginType DEF CheckStatement, LedgerInv, LedgerTypeOK
<1>2. ASSUME NEW c \in Callers, NEW rows \in Statements, CheckHistory(c, rows)
      PROVE  LedgerInv'
  BY <1>2, <1>b, BeginType DEF CheckHistory, LedgerInv, LedgerTypeOK
<1>3. ASSUME NEW c \in Callers, NEW rows \in Openings, CheckOpening(c, rows)
      PROVE  LedgerInv'
  BY <1>3, <1>b, BeginType DEF CheckOpening, LedgerInv, LedgerTypeOK
<1>4. ASSUME NEW c \in Callers, NEW a \in CostAnchors, RecordCostAnchor(c, a)
      PROVE  LedgerInv'
  <2>1. anchors' \in Seq(CostAnchors)
    BY <1>4 DEF RecordCostAnchor, LedgerInv, LedgerTypeOK
  <2>2. ops' \in 0..MaxOps
    BY <1>4, InputAssumption DEF RecordCostAnchor, LedgerInv, LedgerTypeOK
  <2> QED BY <1>4, <2>1, <2>2 DEF RecordCostAnchor, LedgerInv, LedgerTypeOK
<1>5. ASSUME NEW c \in Callers, NEW b \in Balances, DateCash(c, b)
      PROVE  LedgerInv'
  <2>1. Begin(c, "insertCash", <<>>)
    BY <1>5 DEF DateCash
  <2>2. task' \in [Callers -> Tasks] /\ ops' \in 0..MaxOps
    BY <2>1, <1>b, BeginType
  <2> QED BY <1>5, <2>2 DEF DateCash, LedgerInv, LedgerTypeOK
<1>6. ASSUME NEW c \in Callers, PreviewStatement(c) PROVE LedgerInv'
  BY <1>6, PreviewedType DEF PreviewStatement
<1>7. ASSUME NEW c \in Callers, PreviewHistory(c) PROVE LedgerInv'
  BY <1>7, PreviewedType DEF PreviewHistory
<1>8. ASSUME NEW c \in Callers, ApplyStatement(c) PROVE LedgerInv'
  <2>1. entries' \in SUBSET [id : Nat, row : Rows, via : Kinds, at : 0..MaxClock] /\ IsFiniteSet(entries')
    BY <1>8, <1>s, <1>k, InsertedType DEF ApplyStatement, LedgerInv, LedgerTypeOK
  <2>2. task' \in [Callers -> Tasks]
    BY <1>8, EndType DEF ApplyStatement
  <2> QED BY <1>8, <2>1, <2>2 DEF ApplyStatement, LedgerInv, LedgerTypeOK
<1>9. ASSUME NEW c \in Callers, ApplyHistory(c) PROVE LedgerInv'
  <2>1. entries' \in SUBSET [id : Nat, row : Rows, via : Kinds, at : 0..MaxClock] /\ IsFiniteSet(entries')
    BY <1>9, <1>s, <1>k, InsertedType DEF ApplyHistory, LedgerInv, LedgerTypeOK
  <2>2. task' \in [Callers -> Tasks]
    BY <1>9, EndType DEF ApplyHistory
  <2> QED BY <1>9, <2>1, <2>2 DEF ApplyHistory, LedgerInv, LedgerTypeOK
<1>10. ASSUME NEW c \in Callers, ApplyRefused(c) \/ OpeningRefused(c) PROVE LedgerInv'
  <2>1. task' \in [Callers -> Tasks]
    BY <1>10, EndType DEF ApplyRefused, OpeningRefused
  <2> QED BY <1>10, <2>1 DEF ApplyRefused, OpeningRefused, LedgerInv, LedgerTypeOK
<1>11. ASSUME NEW c \in Callers, ApplyOpening(c) PROVE LedgerInv'
  <2>1. entries' \in SUBSET [id : Nat, row : Rows, via : Kinds, at : 0..MaxClock] /\ IsFiniteSet(entries')
    BY <1>11, <1>s, <1>k, InsertedType DEF ApplyOpening, LedgerInv, LedgerTypeOK
  <2>2. task' \in [Callers -> Tasks]
    BY <1>11, EndType DEF ApplyOpening
  <2>3. baseline' \in Dates
    <3>1. task[c].rows \in Openings
      BY <1>11 DEF ApplyOpening, AllChecked, Checked
    <3>2. 1 \in DOMAIN task[c].rows
      BY <3>1, InputAssumption
    <3>3. task[c].rows[1] \in Rows
      BY <3>2, <1>s
    <3> QED BY <1>11, <3>3 DEF ApplyOpening, Rows
  <2>4. raced' \in BOOLEAN
    BY <1>11 DEF ApplyOpening, StaleOpening, LedgerInv, LedgerTypeOK
  <2> QED BY <1>11, <2>1, <2>2, <2>3, <2>4 DEF ApplyOpening, LedgerInv, LedgerTypeOK
<1>12. ASSUME NEW c \in Callers, ProjectCash(c) PROVE LedgerInv'
  <2>1. Begin(c, "insertCash", <<>>)
    BY <1>12 DEF ProjectCash
  <2>2. task' \in [Callers -> Tasks] /\ ops' \in 0..MaxOps
    BY <2>1, <1>b, BeginType
  <2> QED BY <1>12, <2>2 DEF ProjectCash, LedgerInv, LedgerTypeOK
<1>13. ASSUME NEW c \in Callers, InsertCash(c) PROVE LedgerInv'
  <2>1. task' \in [Callers -> Tasks]
    BY <1>13, EndType DEF InsertCash
  <2> QED BY <1>13, <2>1 DEF InsertCash, LedgerInv, LedgerTypeOK
<1>14. CASE Tick
  BY <1>14, InputAssumption DEF Tick, LedgerInv, LedgerTypeOK
<1> QED BY <1>u, <1>1, <1>2, <1>3, <1>4, <1>5, <1>6, <1>7, <1>8, <1>9, <1>10, <1>11,
           <1>12, <1>13, <1>14 DEF Next

\* Types and checks are kept together.
LEMMA LedgerInduction == Spec => [](LedgerInv /\ AllChecked)
<1>1. Init => LedgerInv /\ AllChecked
  <2> SUFFICES ASSUME Init PROVE LedgerInv /\ AllChecked
    OBVIOUS
  <2>1. LedgerInv
    <3>1. 0 \in 0..MaxClock /\ 0 \in 0..MaxOps
      BY InputAssumption
    <3>2. task \in [Callers -> Tasks]
      BY IdleType DEF Init
    <3>3. anchors \in Seq(CostAnchors)
      BY DEF Init
    <3> QED BY <3>1, <3>2, <3>3, FS_EmptySet DEF Init, LedgerInv, LedgerTypeOK
  <2>2. AllChecked
    BY DEF Init, AllChecked, Checked, Idle
  <2> QED BY <2>1, <2>2
<1>2. LedgerInv /\ AllChecked /\ [Next]_vars => (LedgerInv /\ AllChecked)'
  BY LedgerTypeStep, CheckedStep
<1> QED BY <1>1, <1>2, PTL DEF Spec

\* Every reachable ledger is well typed: the baseline is a trade date, entries
\* and anchors have the rows of their inputs, the callers hold batches
\* (the portfolio schema and its dataclasses).
THEOREM LedgerTyped == Spec => []LedgerTypeOK
<1>1. LedgerInv => LedgerTypeOK
  BY DEF LedgerInv
<1> QED BY <1>1, LedgerInduction, PTL

-----------------------------------------------------------------------------
(* The baseline.  BaselineSplits is not inductive: it says nothing of the   *)
(* batches on their way, nor of a ledger that has no baseline yet.  Until   *)
(* an opening is committed on a stale check, every import on its way has    *)
(* read the current baseline, and history exists only with a baseline.      *)

Importing == {"statement", "applyStatement", "history", "applyHistory"}

\* An entry and what its batch was.
Filed(e) ==
  /\ e.via = "opening_snapshot" => baseline # NoDate
  /\ e.via \in {"broker_statement", "historical_closed_statement"} => e.row.type # "OPENING"

Splits(e) ==
  /\ e.via = "opening_snapshot" => e.row.date = baseline
  /\ e.via = "broker_statement" /\ baseline # NoDate => e.row.date > baseline
  /\ e.via = "historical_closed_statement" => baseline # NoDate /\ e.row.date <= baseline

BaselineInv ==
  /\ \A e \in entries : Filed(e)
  /\ ~raced => /\ \A c \in Callers : task[c].pc \in Importing => task[c].base = baseline
               /\ \A e \in entries : Splits(e)

\* No two kinds of batch have one name.
LEMMA KindsDiffer ==
  /\ "opening_snapshot" # "broker_statement"
  /\ "opening_snapshot" # "historical_closed_statement"
  /\ "broker_statement" # "historical_closed_statement"
  OBVIOUS

\* The rows of a statement are no opening rows.
LEMMA FlowRows ==
  ASSUME NEW rows \in Statements
  PROVE  rows \in Seq(Rows) /\ \A i \in DOMAIN rows : rows[i].type # "OPENING"
  BY InputAssumption DEF FlowTypes

\* A step that changes neither the ledger nor the baseline, and that starts or
\* goes on with one operation on the baseline it has read, keeps the invariant.
LEMMA BaselineKept ==
  ASSUME LedgerInv, BaselineInv, UNCHANGED <<baseline, entries, raced>>,
         NEW c \in Callers, NEW t, task' = [task EXCEPT ![c] = t],
         t.pc \in Importing => t.base = baseline \/ (task[c].pc \in Importing /\ t.base = task[c].base)
  PROVE  BaselineInv'
<1>1. \A e \in entries' : Filed(e)'
  BY DEF BaselineInv, Filed
<1>2. ASSUME ~raced' PROVE \A e \in entries' : Splits(e)'
  BY <1>2 DEF BaselineInv, Splits
<1>3. ASSUME ~raced', NEW d \in Callers, task'[d].pc \in Importing
      PROVE  task'[d].base = baseline'
  BY <1>3 DEF BaselineInv, LedgerInv, LedgerTypeOK
<1> QED BY <1>1, <1>2, <1>3 DEF BaselineInv

\* Booking a statement or a historical batch that has been checked against
\* the current baseline keeps both sides of it apart.
LEMMA BookedSplits ==
  ASSUME LedgerInv, BaselineInv, NEW c \in Callers, Checked(task[c]),
         ApplyStatement(c) \/ ApplyHistory(c)
  PROVE  BaselineInv'
<1> DEFINE rows == task[c].rows
<1>t. task' = [task EXCEPT ![c] = Idle] /\ UNCHANGED <<baseline, raced>>
  BY DEF ApplyStatement, ApplyHistory
<1>r. rows \in Statements
  BY DEF ApplyStatement, ApplyHistory, Checked
<1>s. rows \in Seq(Rows) /\ \A i \in DOMAIN rows : rows[i].type # "OPENING"
  BY <1>r, FlowRows
<1>1. ASSUME NEW e \in entries' \ entries
      PROVE  \/ /\ ApplyStatement(c) /\ e.via = "broker_statement"
                /\ \E i \in DOMAIN rows : e.row = rows[i]
             \/ /\ ApplyHistory(c) /\ e.via = "historical_closed_statement"
                /\ \E i \in DOMAIN rows : e.row = rows[i]
  BY <1>1, <1>s, InsertedFrom DEF ApplyStatement, ApplyHistory
<1>2. \A e \in entries' : Filed(e)'
  <2> SUFFICES ASSUME NEW e \in entries' PROVE Filed(e)'
    OBVIOUS
  <2>1. CASE e \in entries
    BY <2>1, <1>t DEF BaselineInv, Filed
  <2>2. CASE e \notin entries
    BY <2>2, <1>1, <1>s, KindsDiffer DEF Filed
  <2> QED BY <2>1, <2>2
<1>3. ASSUME ~raced' PROVE \A e \in entries' : Splits(e)'
  <2>b. ~raced /\ task[c].base = baseline
    BY <1>3, <1>t DEF BaselineInv, Importing, ApplyStatement, ApplyHistory
  <2> SUFFICES ASSUME NEW e \in entries' PROVE Splits(e)'
    OBVIOUS
  <2>1. CASE e \in entries
    BY <2>1, <2>b, <1>t DEF BaselineInv, Splits
  <2>2. CASE e \notin entries
    <3>1. CASE ApplyStatement(c) /\ e.via = "broker_statement"
      <4>1. PICK i \in DOMAIN rows : e.row = rows[i]
        BY <2>2, <1>1
      <4>2. baseline # NoDate => rows[i].date > baseline
        BY <3>1, <2>b DEF ApplyStatement, Checked
      <4> QED BY <3>1, <4>1, <4>2, <1>t, KindsDiffer DEF Splits
    <3>2. CASE ApplyHistory(c) /\ e.via = "historical_closed_statement"
      <4>1. PICK i \in DOMAIN rows : e.row = rows[i]
        BY <2>2, <1>1
      <4>2. baseline # NoDate /\ rows[i].date <= baseline
        BY <3>2, <2>b DEF ApplyHistory, Checked
      <4> QED BY <3>2, <4>1, <4>2, <1>t, KindsDiffer DEF Splits
    <3> QED BY <2>2, <1>1, <3>1, <3>2
  <2> QED BY <2>1, <2>2
<1>4. ASSUME ~raced', NEW d \in Callers, task'[d].pc \in Importing
      PROVE  task'[d].base = baseline'
  BY <1>4, <1>t DEF BaselineInv, LedgerInv, LedgerTypeOK, Idle, Importing
<1> QED BY <1>2, <1>3, <1>4 DEF BaselineInv

\* An opening that is committed on a check that still holds finds no history
\* and no statement, and only openings of its own date.
LEMMA OpenedSplits ==
  ASSUME LedgerInv, BaselineInv, NEW c \in Callers, Checked(task[c]), ApplyOpening(c)
  PROVE  BaselineInv'
<1> DEFINE rows == task[c].rows
           day == rows[1].date
<1>t. task' = [task EXCEPT ![c] = Idle] /\ baseline' = day
  BY DEF ApplyOpening
<1>r. rows \in Openings
  BY DEF ApplyOpening, Checked
<1>s. /\ rows \in Seq(Rows) /\ 1 \in DOMAIN rows
      /\ \A i \in DOMAIN rows : rows[i].date = day
  BY <1>r, InputAssumption
<1>d. day \in Dates /\ day # NoDate
  <2>1. rows[1] \in Rows
    BY <1>s
  <2> QED BY <2>1, InputAssumption DEF Rows
<1>1. ASSUME NEW e \in entries' \ entries
      PROVE  e.via = "opening_snapshot" /\ \E i \in DOMAIN rows : e.row = rows[i]
  BY <1>1, <1>s, InsertedFrom DEF ApplyOpening
<1>2. \A e \in entries' : Filed(e)'
  <2> SUFFICES ASSUME NEW e \in entries' PROVE Filed(e)'
    OBVIOUS
  <2>1. CASE e \in entries
    BY <2>1, <1>t, <1>d DEF BaselineInv, Filed
  <2>2. CASE e \notin entries
    BY <2>2, <1>1, <1>t, <1>d, KindsDiffer DEF Filed
  <2> QED BY <2>1, <2>2
<1>o. ASSUME ~raced' PROVE ~raced /\ ~StaleOpening(c, day)
  BY <1>o DEF ApplyOpening
<1>3. ASSUME ~raced' PROVE \A e \in entries' : Splits(e)'
  <2>b. ~raced /\ baseline \in {NoDate, day} /\ NoFlows
    BY <1>3, <1>o DEF StaleOpening, OpeningAllowed
  <2> SUFFICES ASSUME NEW e \in entries' PROVE Splits(e)'
    OBVIOUS
  <2>1. CASE e \in entries
    <3>1. e.via \notin {"broker_statement", "historical_closed_statement"}
      BY <2>1, <2>b DEF NoFlows, BaselineInv, Filed
    <3>2. e.via = "opening_snapshot" => e.row.date = day
      BY <2>1, <2>b DEF BaselineInv, Filed, Splits
    <3> QED BY <3>1, <3>2, <1>t DEF Splits
  <2>2. CASE e \notin entries
    BY <2>2, <1>1, <1>s, <1>t, KindsDiffer DEF Splits
  <2> QED BY <2>1, <2>2
<1>4. ASSUME ~raced', NEW d \in Callers, task'[d].pc \in Importing
      PROVE  task'[d].base = baseline'
  BY <1>4, <1>o, <1>t DEF StaleOpening, LedgerInv, LedgerTypeOK, Idle, Importing
<1> QED BY <1>2, <1>3, <1>4 DEF BaselineInv

\* Each step keeps the baseline between openings, statements and history.
LEMMA BaselineStep ==
  ASSUME LedgerInv, AllChecked, BaselineInv, [Next]_vars
  PROVE  BaselineInv'
<1>k. ASSUME UNCHANGED <<baseline, entries, raced, task>> PROVE BaselineInv'
  BY <1>k DEF BaselineInv, Filed, Splits
<1>i. Idle.pc \notin Importing
  BY DEF Idle, Importing
<1>1. CASE UNCHANGED vars \/ Tick
  BY <1>1, <1>k DEF vars, Tick
<1>2. ASSUME NEW c \in Callers, NEW pc, NEW rows, Begin(c, pc, rows),
             UNCHANGED <<baseline, entries, raced>>
      PROVE  BaselineInv'
  <2> DEFINE t == [pc |-> pc, rows |-> rows, base |-> baseline, seen |-> <<0, 0>>]
  <2>1. task' = [task EXCEPT ![c] = t]
    BY <1>2 DEF Begin
  <2> QED BY <1>2, <2>1, BaselineKept
<1>3. ASSUME NEW c \in Callers,
             \/ \E rows \in Statements : CheckStatement(c, rows) \/ CheckHistory(c, rows)
             \/ \E rows \in Openings : CheckOpening(c, rows)
             \/ \E b \in Balances : DateCash(c, b)
             \/ ProjectCash(c)
      PROVE  BaselineInv'
  BY <1>2, <1>3 DEF CheckStatement, CheckHistory, CheckOpening, DateCash, ProjectCash
<1>4. ASSUME NEW c \in Callers, PreviewStatement(c) \/ PreviewHistory(c)
      PROVE  BaselineInv'
  <2>1. PICK next : \E accepted : Previewed(c, accepted, next)
    BY <1>4 DEF PreviewStatement, PreviewHistory
  <2>2. task[c].pc \in Importing
    BY <1>4 DEF PreviewStatement, PreviewHistory, Importing
  <2> DEFINE t == [pc |-> next, rows |-> task[c].rows, base |-> task[c].base,
                   seen |-> Version]
  <2>3. task' = [task EXCEPT ![c] = t] \/ task' = [task EXCEPT ![c] = Idle]
    BY <2>1 DEF Previewed
  <2>4. UNCHANGED <<baseline, entries, raced>>
    BY <2>1 DEF Previewed
  <2>5. t.base = task[c].base
    OBVIOUS
  <2> HIDE DEF t
  <2> QED BY <1>i, <2>2, <2>3, <2>4, <2>5, BaselineKept
<1>5. ASSUME NEW c \in Callers, ApplyRefused(c) \/ OpeningRefused(c) \/ InsertCash(c)
      PROVE  BaselineInv'
  BY <1>5, <1>i, BaselineKept DEF ApplyRefused, OpeningRefused, InsertCash
<1>6. ASSUME NEW c \in Callers, ApplyStatement(c) \/ ApplyHistory(c) PROVE BaselineInv'
  BY <1>6, BookedSplits DEF AllChecked
<1>7. ASSUME NEW c \in Callers, ApplyOpening(c) PROVE BaselineInv'
  BY <1>7, OpenedSplits DEF AllChecked
<1>8. ASSUME NEW c \in Callers, NEW a \in CostAnchors, RecordCostAnchor(c, a)
      PROVE  BaselineInv'
  BY <1>8, <1>k DEF RecordCostAnchor
<1> QED BY <1>1, <1>3, <1>4, <1>5, <1>6, <1>7, <1>8 DEF Next

\* Until an opening is committed on a stale check, openings lie on the baseline,
\* statements after it and history not after it, whatever operations of
\* whatever callers overlap (apply_opening_snapshot, apply_statement,
\* apply_historical_closed_statement).
THEOREM BaselineSplit == Spec => []BaselineSplits
<1>1. Init => BaselineInv
  BY DEF Init, BaselineInv, Filed, Splits, Importing, Idle
<1>2. LedgerInv /\ AllChecked /\ BaselineInv /\ [Next]_vars => BaselineInv'
  BY BaselineStep
<1>3. BaselineInv => BaselineSplits
  BY DEF BaselineInv, BaselineSplits, Splits
<1> QED BY <1>1, <1>2, <1>3, LedgerInduction, PTL DEF Spec

-----------------------------------------------------------------------------
(* What was known.  A row is dated in the transaction that inserts it, so a  *)
(* cutoff that is over has all its rows; a confirmed balance is dated before *)
(* its caller connects, and is the exception the property names.             *)

\* Snapshots of cash are listed, and a caller that is about to insert has one.
CashListed ==
  \E S : /\ cash \in Seq(S)
         /\ draft \in [Callers -> Seq(S)]
         /\ \A c \in Callers : task[c].pc = "insertCash" => \E s \in S : draft[c] = <<s>>

\* A sequence over a set is one over a larger set.
LEMMA SeqGrows == ASSUME NEW S, NEW T, S \subseteq T PROVE Seq(S) \subseteq Seq(T)
  OBVIOUS

\* The projection is one snapshot dated by the clock, or none.
LEMMA ProjectionOne ==
  ASSUME NEW es, NEW cs, NEW now
  PROVE  CashProjection(es, cs, now) = <<>>
         \/ \E s : CashProjection(es, cs, now) = <<s>> /\ s.at = now
<1> DEFINE a == Newest([i \in ByUser(cs) |-> ByDate(cs, i)])
           flows == AfterAnchor(es, cs[a].asOf)
           amount == cs[a].amount + MapThenSumSet(LAMBDA e : CashFlow(e.row), flows)
           s == [asOf |-> Max({e.row.date : e \in flows}), amount |-> amount,
                 source |-> "statement_calculated", at |-> now,
                 anchor |-> a, rows |-> Booking(flows)]
<1>1. CashProjection(es, cs, now) = <<>> \/ CashProjection(es, cs, now) = <<s>>
  BY Zenon DEF CashProjection
<1> HIDE DEF a, flows, amount
<1>2. s.at = now
  OBVIOUS
<1> HIDE DEF s
<1> QED BY <1>1, <1>2

\* A booking adds such a snapshot of cash, or none.
LEMMA WithProjection ==
  ASSUME NEW es, NEW cs, NEW now, NEW after,
         after = WithSnapshot(cs, CashProjection(es, cs, now))
  PROVE  after = cs \/ \E s, p : p = <<s>> /\ after = cs \o p /\ s.at = now
<1> DEFINE projection == CashProjection(es, cs, now)
<1>1. projection = <<>> \/ \E s : projection = <<s>> /\ s.at = now
  BY ProjectionOne
<1>2. after = WithSnapshot(cs, projection)
  OBVIOUS
<1> HIDE DEF projection
<1>3. after = cs \/ (projection # <<>> /\ after = cs \o projection)
  BY <1>2, Zenon DEF WithSnapshot
<1> QED BY <1>1, <1>3

\* A statement that is booked adds such a snapshot of cash, or none.
LEMMA StatementCash ==
  ASSUME NEW c \in Callers, ApplyStatement(c)
  PROVE  \E s : cash' = cash \/ (s.at = clock /\ cash' = cash \o <<s>>)
<1>1. PICK es, after : /\ after = cash'
                       /\ after = WithSnapshot(cash, CashProjection(es, cash, clock))
  BY DEF ApplyStatement
<1>2. after = cash \/ \E s, p : p = <<s>> /\ after = cash \o p /\ s.at = clock
  BY <1>1, WithProjection
<1>3. CASE after = cash
  BY <1>1, <1>3
<1>4. ASSUME NEW s, NEW p, p = <<s>>, s.at = clock, after = cash \o p
      PROVE  s.at = clock /\ cash' = cash \o <<s>>
  BY <1>1, <1>4
<1> QED BY <1>2, <1>3, <1>4

\* The balance of a cutoff does not depend on rows that were recorded later.
LEMMA LaterBalance ==
  ASSUME NEW S, NEW cs \in Seq(S), NEW s, NEW day, NEW cutoff, ~ (s.at <= cutoff)
  PROVE  SnapshotCash(cs \o <<s>>, day, cutoff) = SnapshotCash(cs, day, cutoff)
<1> DEFINE ds == cs \o <<s>>
           K == KnownBalances(cs, day, cutoff)
           last(q) == {i \in K : \A j \in K :
                         ~ LexLess(<<q[i].asOf, q[i].at>>, <<q[j].asOf, q[j].at>>)}
<1>1. /\ DOMAIN ds = DOMAIN cs \union {Len(cs) + 1}
      /\ \A i \in DOMAIN cs : ds[i] = cs[i]
      /\ ds[Len(cs) + 1] = s
  <2>1. cs \in Seq(S \union {s}) /\ <<s>> \in Seq(S \union {s})
    BY SeqGrows
  <2> QED BY <2>1
<1> HIDE DEF ds
<1>2. KnownBalances(ds, day, cutoff) = K
  BY <1>1 DEF KnownBalances
<1>3. \A i \in K : ds[i] = cs[i]
  BY <1>1 DEF KnownBalances
<1> HIDE DEF K
<1>4. last(ds) = last(cs)
  BY <1>3
<1>5. {ds[i] : i \in last(ds)} = {cs[i] : i \in last(cs)}
  BY <1>3, <1>4
<1>6. /\ SnapshotCash(ds, day, cutoff) =
           IF Cardinality({ds[i] : i \in last(ds)}) = 1 THEN {ds[i] : i \in last(ds)} ELSE {}
      /\ SnapshotCash(cs, day, cutoff) =
           IF Cardinality({cs[i] : i \in last(cs)}) = 1 THEN {cs[i] : i \in last(cs)} ELSE {}
  BY <1>2 DEF SnapshotCash, K
<1> QED BY <1>5, <1>6 DEF ds

\* Rows inserted after a cutoff do not change the ledger of that cutoff.
LEMMA LaterRows ==
  ASSUME NEW es, NEW rows, NEW kind, NEW day, NEW cutoff \in 0..MaxClock,
         clock \in 0..MaxClock, cutoff < clock
  PROVE  SnapshotLedger(Inserted(es, rows, kind), day, cutoff) = SnapshotLedger(es, day, cutoff)
<1>1. ASSUME NEW e \in Inserted(es, rows, kind) \ es PROVE e.at = clock
  <2>1. PICK i \in Fresh(es, rows) :
          e = [id |-> FirstId + Cardinality(es) + Cardinality({j \in Fresh(es, rows) : j < i}),
               row |-> rows[i], via |-> kind, at |-> clock]
    BY DEF Inserted
  <2> QED BY <2>1
<1>2. {e \in Inserted(es, rows, kind) : e.at <= cutoff} = {e \in es : e.at <= cutoff}
  <2>1. es \subseteq Inserted(es, rows, kind)
    BY DEF Inserted
  <2>2. ~ (clock <= cutoff)
    BY InputAssumption
  <2> QED BY <1>1, <2>1, <2>2
<1> QED BY <1>2 DEF SnapshotLedger
\* Snapshots stay listed: one more for a booking or for an insert.
LEMMA CashListedStep ==
  ASSUME LedgerInv, CashListed, [Next]_vars
  PROVE  CashListed'
<1> PICK S : /\ cash \in Seq(S)
             /\ draft \in [Callers -> Seq(S)]
             /\ \A c \in Callers : task[c].pc = "insertCash" => \E s \in S : draft[c] = <<s>>
  BY DEF CashListed
<1>t. task \in [Callers -> Tasks]
  BY DEF LedgerInv, LedgerTypeOK
<1>k. ASSUME NEW c \in Callers, NEW t, task' = [task EXCEPT ![c] = t], t.pc # "insertCash",
             UNCHANGED <<cash, draft>>
      PROVE  CashListed'
  BY <1>k, <1>t DEF CashListed
<1>d. ASSUME NEW c \in Callers, NEW s, Begin(c, "insertCash", <<>>),
             draft' = [draft EXCEPT ![c] = <<s>>], UNCHANGED cash
      PROVE  CashListed'
  <2> DEFINE T == S \union {s}
  <2>1. cash' \in Seq(T) /\ <<s>> \in Seq(T) /\ \A d \in Callers : draft[d] \in Seq(T)
    BY <1>d, SeqGrows
  <2>2. draft' \in [Callers -> Seq(T)]
    <3> HIDE DEF T
    <3> QED BY <1>d, <2>1
  <2>3. ASSUME NEW d \in Callers, task'[d].pc = "insertCash"
        PROVE  \E r \in T : draft'[d] = <<r>>
    <3>1. CASE d = c
      BY <1>d, <3>1
    <3>2. CASE d # c
      BY <1>d, <1>t, <2>3, <3>2 DEF Begin
    <3> QED BY <3>1, <3>2
  <2> HIDE DEF T
  <2> QED BY <2>1, <2>2, <2>3 DEF CashListed
<1>i. Idle.pc # "insertCash"
  BY DEF Idle
<1>1. CASE UNCHANGED vars \/ Tick \/ \E c \in Callers, a \in CostAnchors : RecordCostAnchor(c, a)
  <2>1. UNCHANGED <<cash, draft, task>>
    BY <1>1 DEF vars, Tick, RecordCostAnchor
  <2> QED BY <2>1 DEF CashListed
<1>2. ASSUME NEW c \in Callers,
             \/ \E rows \in Statements : CheckStatement(c, rows) \/ CheckHistory(c, rows)
             \/ \E rows \in Openings : CheckOpening(c, rows)
      PROVE  CashListed'
  <2>1. PICK pc \in {"statement", "history", "applyOpening"} :
          \E rows : Begin(c, pc, rows) /\ UNCHANGED <<cash, draft>>
    BY <1>2 DEF CheckStatement, CheckHistory, CheckOpening
  <2>2. PICK rows : Begin(c, pc, rows) /\ UNCHANGED <<cash, draft>>
    BY <2>1
  <2> DEFINE t == [pc |-> pc, rows |-> rows, base |-> baseline, seen |-> <<0, 0>>]
  <2>3. task' = [task EXCEPT ![c] = t]
    BY <2>2 DEF Begin
  <2>4. t.pc # "insertCash"
    BY <2>1
  <2> HIDE DEF t
  <2> QED BY <1>k, <2>2, <2>3, <2>4
<1>3. ASSUME NEW c \in Callers, PreviewStatement(c) \/ PreviewHistory(c)
      PROVE  CashListed'
  <2>1. PICK next \in {"applyStatement", "applyHistory"} :
          \E accepted : Previewed(c, accepted, next)
    BY <1>3 DEF PreviewStatement, PreviewHistory
  <2> DEFINE t == [pc |-> next, rows |-> task[c].rows, base |-> task[c].base,
                   seen |-> Version]
  <2>2. (task' = [task EXCEPT ![c] = t] \/ task' = [task EXCEPT ![c] = Idle])
        /\ UNCHANGED <<cash, draft>>
    BY <2>1 DEF Previewed
  <2>3. t.pc # "insertCash"
    BY <2>1
  <2> HIDE DEF t
  <2> QED BY <1>k, <1>i, <2>2, <2>3
<1>4. ASSUME NEW c \in Callers,
             \/ ApplyHistory(c) \/ ApplyRefused(c) \/ ApplyOpening(c) \/ OpeningRefused(c)
      PROVE  CashListed'
  BY <1>4, <1>k, <1>i DEF ApplyHistory, ApplyRefused, ApplyOpening, OpeningRefused
<1>5. ASSUME NEW c \in Callers, ApplyStatement(c) PROVE CashListed'
  <2>1. PICK s : cash' = cash \/ cash' = cash \o <<s>>
    BY <1>5, StatementCash
  <2> DEFINE T == S \union {s}
  <2>2. cash \in Seq(T) /\ <<s>> \in Seq(T) /\ \A d \in Callers : draft[d] \in Seq(T)
    BY SeqGrows
  <2>3. cash' \in Seq(T)
    <3> HIDE DEF T
    <3> QED BY <2>1, <2>2
  <2>4. draft' \in [Callers -> Seq(T)]
    <3> HIDE DEF T
    <3> QED BY <1>5, <2>2 DEF ApplyStatement
  <2>5. ASSUME NEW d \in Callers, task'[d].pc = "insertCash"
        PROVE  \E r \in T : draft'[d] = <<r>>
    BY <1>5, <1>t, <1>i, <2>5 DEF ApplyStatement
  <2> HIDE DEF T
  <2> QED BY <2>3, <2>4, <2>5 DEF CashListed
<1>6. ASSUME NEW c \in Callers, NEW b \in Balances, DateCash(c, b) PROVE CashListed'
  BY <1>6, <1>d DEF DateCash
<1>7. ASSUME NEW c \in Callers, ProjectCash(c) PROVE CashListed'
  <2>1. PICK s : CashProjection(entries, cash, clock) = <<s>>
    BY <1>7, ProjectionOne DEF ProjectCash
  <2> QED BY <1>7, <1>d, <2>1 DEF ProjectCash
<1>8. ASSUME NEW c \in Callers, InsertCash(c) PROVE CashListed'
  <2>1. cash' \in Seq(S)
    BY <1>8 DEF InsertCash
  <2>2. draft' \in [Callers -> Seq(S)]
    BY <1>8 DEF InsertCash
  <2>3. ASSUME NEW d \in Callers, task'[d].pc = "insertCash"
        PROVE  \E s \in S : draft'[d] = <<s>>
    BY <1>8, <1>t, <1>i, <2>3 DEF InsertCash
  <2> QED BY <2>1, <2>2, <2>3 DEF CashListed
<1> QED BY <1>1, <1>2, <1>3, <1>4, <1>5, <1>6, <1>7, <1>8 DEF Next

\* What was known at a second that is over stays known, and nothing is added to
\* it but a confirmed balance that was dated before (_snapshot_ledger,
\* _snapshot_cash of a cutoff): a rebuilt snapshot reads what it has read.
THEOREM PastKept == Spec => PastStaysKnown
<1>1. Init => CashListed
  <2> SUFFICES ASSUME Init PROVE CashListed
    OBVIOUS
  <2>1. cash \in Seq({}) /\ draft \in [Callers -> Seq({})]
    BY DEF Init
  <2> QED BY <2>1 DEF CashListed, Init, Idle
<1>2. ASSUME LedgerInv, CashListed, Next, NEW cutoff \in 0..MaxClock, NEW day \in Dates,
             cutoff < clock
      PROVE  /\ SnapshotLedger(entries', day, cutoff) = SnapshotLedger(entries, day, cutoff)
             /\ \/ SnapshotCash(cash', day, cutoff) = SnapshotCash(cash, day, cutoff)
                \/ \E c \in Callers : InsertCash(c) /\ draft[c][1].at <= cutoff
  <2>c. clock \in 0..MaxClock /\ ~ (clock <= cutoff)
    BY <1>2, InputAssumption DEF LedgerInv, LedgerTypeOK
  <2>s. PICK S : /\ cash \in Seq(S)
                 /\ \A c \in Callers : task[c].pc = "insertCash" =>
                      \E s \in S : draft[c] = <<s>>
    BY <1>2 DEF CashListed
  <2>1. SnapshotLedger(entries', day, cutoff) = SnapshotLedger(entries, day, cutoff)
    <3>1. entries' = entries \/ \E rows, kind : entries' = Inserted(entries, rows, kind)
      BY <1>2 DEF Next, CheckStatement, CheckHistory, CheckOpening, RecordCostAnchor, DateCash,
         PreviewStatement, PreviewHistory, Previewed, ApplyStatement, ApplyHistory, ApplyRefused,
         ApplyOpening, OpeningRefused, ProjectCash, InsertCash, Tick
    <3> QED BY <1>2, <2>c, <3>1, LaterRows
  <2>2. ASSUME NEW c \in Callers, ApplyStatement(c)
        PROVE  SnapshotCash(cash', day, cutoff) = SnapshotCash(cash, day, cutoff)
    <3>1. PICK s : cash' = cash \/ (s.at = clock /\ cash' = cash \o <<s>>)
      BY <2>2, StatementCash
    <3>2. CASE cash' = cash
      BY <3>2
    <3>3. CASE s.at = clock /\ cash' = cash \o <<s>>
      <4>1. ~ (s.at <= cutoff)
        BY <2>c, <3>3
      <4> QED BY <2>s, <3>3, <4>1, LaterBalance
    <3> QED BY <3>1, <3>2, <3>3
  <2>3. ASSUME NEW c \in Callers, InsertCash(c), ~ (draft[c][1].at <= cutoff)
        PROVE  SnapshotCash(cash', day, cutoff) = SnapshotCash(cash, day, cutoff)
    <3>1. PICK s \in S : draft[c] = <<s>>
      BY <2>3, <2>s DEF InsertCash
    <3>2. cash' = cash \o <<s>> /\ ~ (s.at <= cutoff)
      BY <2>3, <3>1 DEF InsertCash
    <3> QED BY <2>s, <3>2, LaterBalance
  <2>4. CASE cash' = cash
    BY <2>1, <2>4
  <2>5. cash' = cash \/ \E c \in Callers : ApplyStatement(c) \/ InsertCash(c)
    BY <1>2 DEF Next, CheckStatement, CheckHistory, CheckOpening, RecordCostAnchor, DateCash,
       PreviewStatement, PreviewHistory, Previewed, ApplyHistory, ApplyRefused,
       ApplyOpening, OpeningRefused, ProjectCash, Tick
  <2> QED BY <2>1, <2>2, <2>3, <2>4, <2>5
<1>3. LedgerInv /\ CashListed /\ [Next]_vars => CashListed'
  BY CashListedStep
<1>4. LedgerInv /\ CashListed /\ [Next]_vars =>
        [\A cutoff \in 0..MaxClock, day \in Dates : cutoff < clock =>
           /\ SnapshotLedger(entries', day, cutoff) = SnapshotLedger(entries, day, cutoff)
           /\ \/ SnapshotCash(cash', day, cutoff) = SnapshotCash(cash, day, cutoff)
              \/ \E c \in Callers : InsertCash(c) /\ draft[c][1].at <= cutoff]_vars
  BY <1>2
<1> QED BY <1>1, <1>3, <1>4, LedgerInduction, PTL DEF Spec, PastStaysKnown

-----------------------------------------------------------------------------
(* The order of a replay. *)

StrictOrder(S, lt) ==
  /\ \A x \in S : <<x, x>> \notin lt
  /\ \A x, y \in S : x # y => <<x, y>> \in lt \/ <<y, x>> \in lt
  /\ \A x, y, z \in S : <<x, y>> \in lt /\ <<y, z>> \in lt => <<x, z>> \in lt

\* In a finite set in order, everything has its place: one more than what is before it.
LEMMA Ranking ==
  ASSUME NEW S, IsFiniteSet(S), NEW lt, StrictOrder(S, lt)
  PROVE  \E place \in Bijection(S, 1..Cardinality(S)) :
           /\ \A x \in S : place[x] = Cardinality({y \in S : <<y, x>> \in lt}) + 1
           /\ \A x, y \in S : <<x, y>> \in lt <=> place[x] < place[y]
<1> DEFINE Before(x) == {y \in S : <<y, x>> \in lt}
           place == [x \in S |-> Cardinality(Before(x)) + 1]
           N == Cardinality(S)
<1>1. ASSUME NEW x \in S PROVE IsFiniteSet(Before(x)) /\ Cardinality(Before(x)) \in Nat
  BY FS_Subset, FS_CardinalityType
<1>2. ASSUME NEW x \in S, NEW y \in S, <<x, y>> \in lt PROVE place[x] < place[y]
  <2>1. Before(x) \subseteq Before(y) /\ x \in Before(y) /\ x \notin Before(x)
    BY <1>2 DEF StrictOrder
  <2>2. Cardinality(Before(x)) <= Cardinality(Before(y)) /\ Cardinality(Before(x)) # Cardinality(Before(y))
    <3> HIDE DEF Before
    <3> QED BY <1>1, <2>1, FS_Subset
  <2> HIDE DEF Before
  <2> QED BY <1>1, <2>2
<1>3. N \in Nat
  BY FS_CardinalityType
<1>4. ASSUME NEW x \in S PROVE place[x] \in 1..N
  <2>1. x \notin Before(x) /\ Before(x) \subseteq S
    BY DEF StrictOrder
  <2>2. Cardinality(Before(x)) <= N /\ Cardinality(Before(x)) # N
    <3> HIDE DEF Before
    <3> QED BY <2>1, FS_Subset
  <2> HIDE DEF Before, N
  <2> QED BY <1>1, <1>3, <2>2
<1>5. \A x, y \in S : x # y => place[x] # place[y]
  <2> SUFFICES ASSUME NEW x \in S, NEW y \in S, x # y PROVE place[x] # place[y]
    OBVIOUS
  <2>1. place[x] \in Nat /\ place[y] \in Nat
    <3> HIDE DEF place, N
    <3> QED BY <1>3, <1>4
  <2>2. place[x] < place[y] \/ place[y] < place[x]
    <3> HIDE DEF place
    <3> QED BY <1>2 DEF StrictOrder
  <2> HIDE DEF place
  <2> QED BY <2>1, <2>2
<1>6. \A x, y \in S : <<x, y>> \in lt <=> place[x] < place[y]
  <2> SUFFICES ASSUME NEW x \in S, NEW y \in S, place[x] < place[y] PROVE <<x, y>> \in lt
    BY <1>2
  <2>1. place[x] \in Nat /\ place[y] \in Nat
    <3> HIDE DEF place, N
    <3> QED BY <1>3, <1>4
  <2>2. x # y /\ <<y, x>> \notin lt
    <3> HIDE DEF place
    <3> QED BY <1>2, <2>1
  <2> QED BY <2>2 DEF StrictOrder
<1>7. place \in [S -> 1..N]
  <2>1. place = [x \in S |-> place[x]]
    OBVIOUS
  <2> HIDE DEF place, N
  <2> QED BY <1>4, <2>1
<1>8. \A x \in S : place[x] = Cardinality({y \in S : <<y, x>> \in lt}) + 1
  OBVIOUS
<1> HIDE DEF place, N
<1>9. place \in Injection(S, 1..N)
  BY <1>5, <1>7 DEF Injection, IsInjective
<1>10. IsFiniteSet(1..N) /\ Cardinality(1..N) = N
  BY <1>3, FS_Interval
<1>11. place \in Surjection(S, 1..N)
  BY <1>9, <1>10, FS_Injection DEF N
<1>12. place \in Bijection(S, 1..N)
  BY <1>9, <1>11 DEF Bijection
<1> QED BY <1>6, <1>8, <1>12 DEF N

\* Rows with different keys, in the order of their keys.
Keyed(keyed, R) ==
  /\ IsFiniteSet(keyed)
  /\ \A x \in keyed : x.row \in R
  /\ StrictOrder(keyed, {xy \in keyed \X keyed : LexLess(xy[1].key, xy[2].key)})

\* SortedRows lists them all, each once.
IsSorting(at, keyed) ==
  /\ at \in [1..Cardinality(keyed) -> keyed]
  /\ \A x \in keyed : \E n \in 1..Cardinality(keyed) : at[n] = x
  /\ \A m, n \in 1..Cardinality(keyed) : LexLess(at[m].key, at[n].key) <=> m < n

LEMMA Sorting ==
  ASSUME NEW R, NEW keyed, Keyed(keyed, R)
  PROVE  /\ Cardinality(keyed) \in Nat
         /\ SortedRows(keyed) \in Seq(R) /\ Len(SortedRows(keyed)) = Cardinality(keyed)
         /\ \E at : /\ IsSorting(at, keyed)
                    /\ \A n \in 1..Cardinality(keyed) : SortedRows(keyed)[n] = at[n].row
<1> DEFINE lt == {xy \in keyed \X keyed : LexLess(xy[1].key, xy[2].key)}
           N == Cardinality(keyed)
           Place(x) == Cardinality({y \in keyed : LexLess(y.key, x.key)}) + 1
           placed == {[place |-> Place(x), row |-> x.row] : x \in keyed}
           rows == [n \in 1..N |-> (CHOOSE p \in placed : p.place = n).row]
<1>1. IsFiniteSet(keyed) /\ StrictOrder(keyed, lt)
  BY DEF Keyed
<1>2. PICK place \in Bijection(keyed, 1..N) :
        /\ \A x \in keyed : place[x] = Cardinality({y \in keyed : <<y, x>> \in lt}) + 1
        /\ \A x, y \in keyed : <<x, y>> \in lt <=> place[x] < place[y]
  <2> HIDE DEF lt, N
  <2> QED BY <1>1, Ranking DEF N
<1>3. \A x \in keyed : place[x] = Place(x)
  <2> SUFFICES ASSUME NEW x \in keyed PROVE place[x] = Place(x)
    OBVIOUS
  <2>1. {y \in keyed : <<y, x>> \in lt} = {y \in keyed : LexLess(y.key, x.key)}
    OBVIOUS
  <2> QED BY <1>2, <2>1
<1>4. N \in Nat
  BY <1>1, FS_CardinalityType
<1> DEFINE at == [n \in 1..N |-> CHOOSE x \in keyed : place[x] = n]
<1> HIDE DEF N
<1>5. ASSUME NEW n \in 1..N PROVE at[n] \in keyed /\ place[at[n]] = n
  <2>1. \E x \in keyed : place[x] = n
    BY <1>2 DEF Bijection, Surjection
  <2> QED BY <2>1
<1>6. \A x \in keyed : place[x] \in 1..N /\ at[place[x]] = x
  <2> SUFFICES ASSUME NEW x \in keyed PROVE place[x] \in 1..N /\ at[place[x]] = x
    OBVIOUS
  <2>1. place[x] \in 1..N
    BY <1>2 DEF Bijection, Surjection
  <2>2. at[place[x]] \in keyed /\ place[at[place[x]]] = place[x]
    <3> HIDE DEF at
    <3> QED BY <1>5, <2>1
  <2> HIDE DEF at
  <2> QED BY <1>2, <2>1, <2>2 DEF Bijection, Injection, IsInjective
<1>7. at \in [1..N -> keyed]
  <2>1. at = [n \in 1..N |-> at[n]]
    OBVIOUS
  <2> HIDE DEF at
  <2> QED BY <1>5, <2>1
<1> HIDE DEF at
<1>8. \A m, n \in 1..N : LexLess(at[m].key, at[n].key) <=> m < n
  <2> SUFFICES ASSUME NEW m \in 1..N, NEW n \in 1..N PROVE LexLess(at[m].key, at[n].key) <=> m < n
    OBVIOUS
  <2>1. at[m] \in keyed /\ at[n] \in keyed /\ place[at[m]] = m /\ place[at[n]] = n
    BY <1>5
  <2>2. <<at[m], at[n]>> \in lt <=> LexLess(at[m].key, at[n].key)
    BY <2>1
  <2> HIDE DEF lt
  <2> QED BY <1>2, <2>1, <2>2
<1>9. ASSUME NEW n \in 1..N PROVE rows[n] = at[n].row
  <2> DEFINE p == [place |-> n, row |-> at[n].row]
  <2>1. p \in placed
    <3>1. at[n] \in keyed /\ n = Place(at[n])
      BY <1>3, <1>5
    <3> HIDE DEF Place
    <3> QED BY <3>1
  <2>2. ASSUME NEW q \in placed, q.place = n PROVE q = p
    <3>1. PICK x \in keyed : q = [place |-> Place(x), row |-> x.row]
      OBVIOUS
    <3>2. place[x] = n
      BY <1>3, <2>2, <3>1
    <3>3. x = at[n]
      BY <1>6, <3>2
    <3> QED BY <2>2, <3>1, <3>3
  <2>3. p.place = n
    OBVIOUS
  <2>5. rows[n] = (CHOOSE q \in placed : q.place = n).row
    <3> HIDE DEF placed
    <3> QED OBVIOUS
  <2>6. p.row = at[n].row
    OBVIOUS
  <2> HIDE DEF placed, p, rows
  <2>4. (CHOOSE q \in placed : q.place = n) = p
    BY <2>1, <2>2, <2>3
  <2> QED BY <2>4, <2>5, <2>6
<1>10. rows \in Seq(R) /\ Len(rows) = N /\ SortedRows(keyed) = rows
  <2>1. \A n \in 1..N : at[n].row \in R
    BY <1>7 DEF Keyed
  <2>2. rows = [n \in 1..N |-> rows[n]]
    OBVIOUS
  <2>3. rows \in [1..N -> R]
    <3> HIDE DEF rows
    <3> QED BY <1>9, <2>1, <2>2
  <2>4. SortedRows(keyed) = <<>> \o rows
    BY DEF SortedRows, N
  <2> HIDE DEF rows
  <2>5. rows \in Seq(R) /\ Len(rows) = N
    BY <1>4, <2>3
  <2> QED BY <2>4, <2>5
<1> HIDE DEF rows
<1>11. IsSorting(at, keyed)
  BY <1>6, <1>7, <1>8 DEF IsSorting, N
<1> QED BY <1>4, <1>9, <1>10, <1>11 DEF N

-----------------------------------------------------------------------------
(* The keys. *)

\* Tuples of n numbers are in order.
LEMMA LexOrder ==
  ASSUME NEW n \in Nat, NEW a \in [1..n -> Int], NEW b \in [1..n -> Int], NEW c \in [1..n -> Int]
  PROVE  /\ ~ LexLess(a, a)
         /\ a # b => LexLess(a, b) \/ LexLess(b, a)
         /\ LexLess(a, b) /\ LexLess(b, c) => LexLess(a, c)
<1>1. ~ LexLess(a, a)
  BY DEF LexLess
<1>2. ASSUME a # b PROVE LexLess(a, b) \/ LexLess(b, a)
  <2> DEFINE D == {i \in 1..n : a[i] # b[i]}
  <2>1. D \in SUBSET Nat /\ D # {}
    <3>1. D = {} => \A i \in 1..n : a[i] = b[i]
      OBVIOUS
    <3>2. (\A i \in 1..n : a[i] = b[i]) => a = b
      OBVIOUS
    <3>3. D \in SUBSET Nat
      OBVIOUS
    <3> HIDE DEF D
    <3> QED BY <1>2, <3>1, <3>2, <3>3
  <2>2. PICK i \in D : \A k \in D : i <= k
    <3> HIDE DEF D
    <3> QED BY <2>1, LeastNumber
  <2>3. \A j \in 1..(i - 1) : a[j] = b[j]
    BY <2>2
  <2>4. a[i] < b[i] \/ b[i] < a[i]
    BY <2>2
  <2> QED BY <2>2, <2>3, <2>4 DEF LexLess
<1>3. ASSUME LexLess(a, b), LexLess(b, c) PROVE LexLess(a, c)
  <2>1. PICK i \in 1..n : a[i] < b[i] /\ \A j \in 1..(i - 1) : a[j] = b[j]
    BY <1>3 DEF LexLess
  <2>2. PICK k \in 1..n : b[k] < c[k] /\ \A j \in 1..(k - 1) : b[j] = c[j]
    BY <1>3 DEF LexLess
  <2>3. CASE i <= k
    <3>1. a[i] < c[i]
      BY <2>1, <2>2, <2>3
    <3>2. \A j \in 1..(i - 1) : a[j] = c[j]
      BY <2>1, <2>2, <2>3
    <3> QED BY <3>1, <3>2 DEF LexLess
  <2>4. CASE k < i
    <3>1. a[k] < c[k]
      BY <2>1, <2>2, <2>4
    <3>2. \A j \in 1..(k - 1) : a[j] = c[j]
      BY <2>1, <2>2, <2>4
    <3> QED BY <3>1, <3>2 DEF LexLess
  <2> QED BY <2>3, <2>4
<1> QED BY <1>1, <1>2, <1>3

\* Rows with different keys of n numbers are in order.
LEMMA KeyedRows ==
  ASSUME NEW n \in Nat, NEW R, NEW keyed, IsFiniteSet(keyed),
         \A x \in keyed : x.row \in R /\ x.key \in [1..n -> Int],
         \A x, y \in keyed : x.key = y.key => x = y
  PROVE  Keyed(keyed, R)
<1> DEFINE lt == {xy \in keyed \X keyed : LexLess(xy[1].key, xy[2].key)}
<1>0. \A x, y \in keyed : <<x, y>> \in lt <=> LexLess(x.key, y.key)
  OBVIOUS
<1> HIDE DEF lt
<1>1. \A x \in keyed : <<x, x>> \notin lt
  BY <1>0, LexOrder
<1>2. \A x, y \in keyed : x # y => <<x, y>> \in lt \/ <<y, x>> \in lt
  BY <1>0, LexOrder
<1>3. \A x, y, z \in keyed : <<x, y>> \in lt /\ <<y, z>> \in lt => <<x, z>> \in lt
  BY <1>0, LexOrder
<1>4. StrictOrder(keyed, lt)
  BY <1>1, <1>2, <1>3 DEF StrictOrder
<1> QED BY <1>4 DEF Keyed, lt

\* What an id is padded with to compare it as text.
LEMMA DigitsType ==
  \A k : /\ Digits(k) \in {0, 1, 2, 3, 4}
         /\ Powers[IdDigits + 1 - Digits(k)] \in {1, 10, 100, 1000, 10000}
<1>1. ASSUME NEW k PROVE Digits(k) \in {0, 1, 2, 3, 4}
  <2> DEFINE D == {d \in 1..IdDigits : Powers[d] <= k}
  <2>1. D \subseteq 1..4
    BY DEF IdDigits
  <2>2. IsFiniteSet(1..4) /\ Cardinality(1..4) = 4
    <3>1. 1 \in Int /\ 4 \in Int /\ 4 - 1 + 1 = 4 /\ ~ (1 > 4)
      OBVIOUS
    <3> QED BY <3>1, FS_Interval
  <2> HIDE DEF D
  <2>3. Cardinality(D) \in Nat /\ Cardinality(D) <= 4
    BY <2>1, <2>2, FS_Subset, FS_CardinalityType
  <2> QED BY <2>3 DEF Digits, D
<1>2. ASSUME NEW k PROVE Powers[IdDigits + 1 - Digits(k)] \in {1, 10, 100, 1000, 10000}
  BY <1>1 DEF Powers, IdDigits
<1> QED BY <1>1, <1>2

\* The text of an id names the id.
LEMMA TextsDiffer ==
  ASSUME NEW m \in Nat, NEW n \in Nat
  PROVE  /\ AsText(n)[1] \in Int /\ AsText(n)[2] \in Int /\ AsText(n) = << AsText(n)[1], AsText(n)[2] >>
         /\ AsText(m) = AsText(n) => m = n
<1>1. \A k : Digits(k) \in {0, 1, 2, 3, 4}
  BY DigitsType
<1>2. \A k : Powers[IdDigits + 1 - Digits(k)] \in {1, 10, 100, 1000, 10000}
  BY DigitsType
<1>3. AsText(n)[1] = n * Powers[IdDigits + 1 - Digits(n)] /\ AsText(n)[2] = Digits(n)
  BY DEF AsText
<1>4. AsText(m)[1] = m * Powers[IdDigits + 1 - Digits(m)] /\ AsText(m)[2] = Digits(m)
  BY DEF AsText
<1>5. AsText(n) = << AsText(n)[1], AsText(n)[2] >>
  BY <1>3 DEF AsText
<1>6. AsText(n)[1] \in Int /\ AsText(n)[2] \in Int
  <2> DEFINE p == Powers[IdDigits + 1 - Digits(n)]
             d == Digits(n)
  <2>1. p \in Int /\ d \in Int
    BY <1>1, <1>2
  <2>2. AsText(n)[1] = n * p /\ AsText(n)[2] = d
    BY <1>3
  <2> HIDE DEF p, d
  <2> QED BY <2>1, <2>2
<1>7. ASSUME AsText(m) = AsText(n) PROVE m = n
  <2> DEFINE p == Powers[IdDigits + 1 - Digits(n)]
  <2>1. p \in {1, 10, 100, 1000, 10000}
    BY <1>2
  <2>2. m * p = n * p
    BY <1>3, <1>4, <1>7
  <2> HIDE DEF p
  <2>3. CASE p = 1
    BY <2>2, <2>3
  <2>4. CASE p = 10
    BY <2>2, <2>4
  <2>5. CASE p = 100
    BY <2>2, <2>5
  <2>6. CASE p = 1000
    BY <2>2, <2>6
  <2>7. CASE p = 10000
    BY <2>2, <2>7
  <2> QED BY <2>1, <2>3, <2>4, <2>5, <2>6, <2>7
<1> QED BY <1>5, <1>6, <1>7

LEMMA KeyJoined ==
  ASSUME NEW s \in Seq(Int), NEW t \in Seq(Int), Len(s) = 3, Len(t) = 2
  PROVE  /\ s \o t \in [1..5 -> Int]
         /\ (s \o t)[3] = s[3] /\ (s \o t)[4] = t[1] /\ (s \o t)[5] = t[2]
<1> DEFINE u == s \o t
<1>1. /\ u \in Seq(Int) /\ Len(u) = Len(s) + Len(t)
      /\ \A i \in 1..(Len(s) + Len(t)) : u[i] = IF i <= Len(s) THEN s[i] ELSE t[i - Len(s)]
  BY ConcatProperties, Zenon
<1> HIDE DEF u
<1>2. Len(s) + Len(t) = 5
  OBVIOUS
<1>3. u \in [1..5 -> Int]
  BY <1>1, <1>2
<1>4. u[3] = s[3] /\ u[4] = t[4 - 3] /\ u[5] = t[5 - 3]
  <2>1. \A i \in 1..5 : u[i] = IF i <= 3 THEN s[i] ELSE t[i - 3]
    BY <1>1, <1>2
  <2> QED BY <2>1
<1>5. 4 - 3 = 1 /\ 5 - 3 = 2
  OBVIOUS
<1> QED BY <1>3, <1>4, <1>5 DEF u

\* A sort key of five parts.
FiveParts(key, c, d, e) == key \in [1..5 -> Int] /\ key[3] = c /\ key[4] = d /\ key[5] = e

LEMMA KeyParts ==
  ASSUME NEW a \in Int, NEW b \in Int, NEW c \in Int, NEW d \in Int, NEW e \in Int
  PROVE  FiveParts(<< a, b, c >> \o << d, e >>, c, d, e)
<1> DEFINE s == << a, b, c >>
           t == << d, e >>
<1>1. s \in Seq(Int) /\ t \in Seq(Int) /\ Len(s) = 3 /\ Len(t) = 2
  OBVIOUS
<1>2. s[3] = c /\ t[1] = d /\ t[2] = e
  OBVIOUS
<1> HIDE DEF s, t
<1> DEFINE u == s \o t
<1>3. u \in [1..5 -> Int] /\ u[3] = s[3] /\ u[4] = t[1] /\ u[5] = t[2]
  BY <1>1, KeyJoined, Zenon
<1> HIDE DEF u
<1>4. FiveParts(u, c, d, e)
  BY <1>2, <1>3 DEF FiveParts
<1> QED BY <1>4, Zenon DEF u, s, t

LEMMA PlacesFinite ==
  ASSUME NEW S, NEW s \in Seq(S), NEW T, T \subseteq DOMAIN s
  PROVE  IsFiniteSet(T) /\ \A i \in T : i \in Nat /\ s[i] \in S
<1>1. T \subseteq 1..Len(s) /\ 1 \in Int /\ Len(s) \in Int
  OBVIOUS
<1>2. IsFiniteSet(1..Len(s))
  BY <1>1, FS_Interval
<1> QED BY <1>1, <1>2, FS_Subset

Entry == [id : Nat, row : Rows, via : Kinds, at : 0..MaxClock]

\* No two of finitely many entries have the same id.
Distinct(es) == IsFiniteSet(es) /\ \A e, f \in es : e.id = f.id => e = f

\* Ids are given in turn, so no two entries have the same.
IdsDiffer(es) ==
  /\ IsFiniteSet(es)
  /\ \A e \in es : e.id \in FirstId..(FirstId + Cardinality(es) - 1)
  /\ \A e, f \in es : e.id = f.id => e = f

LEMMA DistinctIds == ASSUME NEW es, IdsDiffer(es) PROVE Distinct(es)
  BY DEF IdsDiffer, Distinct

\* The ids of the new go on from the last one.
GoesOn(es, F, new, f, place) ==
  /\ f \in [F -> new] /\ \A y \in new : \E x \in F : f[x] = y
  /\ place \in [F -> 0..(Cardinality(F) - 1)]
  /\ \A i, j \in F : place[i] = place[j] => i = j
  /\ \A i \in F : f[i].id = FirstId + Cardinality(es) + place[i]

LEMMA IdsGoOn ==
  ASSUME NEW es, IdsDiffer(es), NEW F, IsFiniteSet(F), NEW new, NEW f, NEW place,
         GoesOn(es, F, new, f, place)
  PROVE  IdsDiffer(es \union new)
<1>0. /\ f \in [F -> new] /\ \A y \in new : \E x \in F : f[x] = y
      /\ place \in [F -> 0..(Cardinality(F) - 1)]
      /\ \A i, j \in F : place[i] = place[j] => i = j
      /\ \A i \in F : f[i].id = FirstId + Cardinality(es) + place[i]
  BY DEF GoesOn
<1> DEFINE N == Cardinality(es)
           M == Cardinality(F)
<1>1. N \in Nat /\ M \in Nat /\ FirstId \in Nat /\ IsFiniteSet(es)
  BY FS_CardinalityType, InputAssumption DEF IdsDiffer
<1>2. \A e \in es : e.id \in FirstId..(FirstId + N - 1)
  BY DEF IdsDiffer
<1>3. \A i \in F : place[i] \in 0..(M - 1) /\ f[i].id = FirstId + N + place[i]
  BY <1>0
<1>4. \A e, g \in es : e.id = g.id => e = g
  BY DEF IdsDiffer
<1> HIDE DEF N, M
<1>5. \A i, j \in F : f[i].id = f[j].id => f[i] = f[j] /\ i = j
  <2> SUFFICES ASSUME NEW i \in F, NEW j \in F, f[i].id = f[j].id PROVE i = j
    OBVIOUS
  <2>1. place[i] = place[j]
    BY <1>1, <1>3
  <2> QED BY <1>0, <2>1
<1>6. IsFiniteSet(new) /\ Cardinality(new) = M
  <2>1. f \in Surjection(F, new) /\ f \in Injection(F, new)
    BY <1>0, <1>5 DEF Surjection, Injection, IsInjective
  <2> QED BY <2>1, FS_Surjection DEF M
<1>7. \A i \in F : f[i].id \in (FirstId + N)..(FirstId + N + M - 1)
  BY <1>1, <1>3
<1>8. \A y \in new : y.id \in (FirstId + N)..(FirstId + N + M - 1)
  BY <1>0, <1>7
<1>9. es \intersect new = {}
  BY <1>1, <1>2, <1>8
<1>10. Cardinality(es \union new) = N + M /\ IsFiniteSet(es \union new)
  <2>1. Cardinality(es \intersect new) = 0
    BY <1>9, FS_EmptySet
  <2>2. Cardinality(es \union new) = Cardinality(es) + Cardinality(new) - Cardinality(es \intersect new)
    BY <1>1, <1>6, FS_Union
  <2>3. IsFiniteSet(es \union new)
    BY <1>1, <1>6, FS_Union
  <2>4. Cardinality(es) = N
    BY DEF N
  <2> QED BY <1>1, <1>6, <2>1, <2>2, <2>3, <2>4
<1>11. \A e \in es \union new : e.id \in FirstId..(FirstId + (N + M) - 1)
  BY <1>1, <1>2, <1>8
<1>12. ASSUME NEW e \in es \union new, NEW g \in es \union new, e.id = g.id PROVE e = g
  <2>1. CASE e \in es /\ g \in es
    BY <1>4, <1>12, <2>1
  <2>2. CASE e \in new /\ g \in new
    BY <1>0, <1>5, <1>12, <2>2
  <2>3. CASE e \in es /\ g \in new
    BY <1>1, <1>2, <1>8, <1>12, <2>3
  <2>4. CASE e \in new /\ g \in es
    BY <1>1, <1>2, <1>8, <1>12, <2>4
  <2> QED BY <2>1, <2>2, <2>3, <2>4
<1> DEFINE all == es \union new
<1> HIDE DEF all
<1>13. IsFiniteSet(all) /\ Cardinality(all) = N + M
  BY <1>10 DEF all
<1>14. \A e \in all : e.id \in FirstId..(FirstId + Cardinality(all) - 1)
  BY <1>11, <1>13 DEF all
<1>15. \A e, g \in all : e.id = g.id => e = g
  BY <1>12 DEF all
<1>16. IdsDiffer(all)
  BY <1>13, <1>14, <1>15 DEF IdsDiffer
<1> QED BY <1>16 DEF all

\* What INSERT OR IGNORE adds: one entry for each fresh row, in their order.
AddsAs(es, rows, kind, new, f, place) ==
  /\ Inserted(es, rows, kind) = es \union new
  /\ IsFiniteSet(Fresh(es, rows))
  /\ GoesOn(es, Fresh(es, rows), new, f, place)
  /\ \A i \in Fresh(es, rows) : f[i].row = rows[i]
  /\ \A i, j \in Fresh(es, rows) : i < j <=> place[i] < place[j]

\* The fresh rows become entries, in their order.
LEMMA InsertedAs ==
  ASSUME NEW es, NEW rows, rows \in Seq(Rows), NEW kind
  PROVE  \E new, f, place : AddsAs(es, rows, kind, new, f, place)
<1> DEFINE F == Fresh(es, rows)
           Earlier(i) == {j \in F : j < i}
           N == Cardinality(es)
           f == [i \in F |-> [id |-> FirstId + N + Cardinality(Earlier(i)),
                              row |-> rows[i], via |-> kind, at |-> clock]]
           new == {f[i] : i \in F}
           lt == {xy \in F \X F : xy[1] < xy[2]}
<1>1. F \subseteq 1..Len(rows) /\ IsFiniteSet(F) /\ F \subseteq Nat
  <2>1. 1..Len(rows) \subseteq Nat
    OBVIOUS
  <2> HIDE DEF F
  <2> QED BY <2>1, FreshFinite DEF F
<1>2. StrictOrder(F, lt)
  <2> HIDE DEF F
  <2> QED BY <1>1 DEF StrictOrder
<1>3. PICK place \in Bijection(F, 1..Cardinality(F)) :
        /\ \A x \in F : place[x] = Cardinality({y \in F : <<y, x>> \in lt}) + 1
        /\ \A x, y \in F : <<x, y>> \in lt <=> place[x] < place[y]
  <2> HIDE DEF F, lt
  <2> QED BY <1>1, <1>2, Ranking
<1>4. \A x \in F : place[x] = Cardinality(Earlier(x)) + 1
  <2> SUFFICES ASSUME NEW x \in F PROVE place[x] = Cardinality(Earlier(x)) + 1
    OBVIOUS
  <2>1. {y \in F : <<y, x>> \in lt} = Earlier(x)
    OBVIOUS
  <2> QED BY <1>3, <2>1
<1>5. Cardinality(F) \in Nat
  <2> HIDE DEF F
  <2> QED BY <1>1, FS_CardinalityType
<1>6. \A i \in F : Cardinality(Earlier(i)) \in 0..(Cardinality(F) - 1)
  <2> SUFFICES ASSUME NEW i \in F PROVE Cardinality(Earlier(i)) \in 0..(Cardinality(F) - 1)
    OBVIOUS
  <2>1. Cardinality(Earlier(i)) \in Nat
    <3>1. Earlier(i) \subseteq F
      OBVIOUS
    <3> HIDE DEF F, Earlier
    <3> QED BY <1>1, <3>1, FS_Subset, FS_CardinalityType
  <2>2. place[i] \in 1..Cardinality(F)
    <3> HIDE DEF F
    <3> QED BY <1>3 DEF Bijection, Surjection
  <2> HIDE DEF F, Earlier
  <2> QED BY <1>4, <1>5, <2>1, <2>2
<1> DEFINE before == [i \in F |-> Cardinality(Earlier(i))]
<1>7. \A i, j \in F : before[i] = before[j] => i = j
  <2>1. \A i \in F : place[i] = before[i] + 1
    BY <1>4
  <2> HIDE DEF F, Earlier, before
  <2> QED BY <1>3, <2>1 DEF Bijection, Injection, IsInjective
<1>8. before \in [F -> 0..(Cardinality(F) - 1)]
  <2> HIDE DEF F, Earlier
  <2> QED BY <1>6
<1>o. \A i, j \in F : i < j <=> before[i] < before[j]
  <2>1. \A i \in F : place[i] = before[i] + 1
    BY <1>4
  <2>2. \A i, j \in F : i < j <=> <<i, j>> \in lt
    OBVIOUS
  <2> HIDE DEF F, Earlier, before, lt
  <2>3. \A i \in F : before[i] \in Int
    BY <1>8
  <2>4. \A i, j \in F : <<i, j>> \in lt <=> place[i] < place[j]
    BY <1>3
  <2>5. \A i, j \in F : place[i] < place[j] <=> before[i] < before[j]
    BY <2>1, <2>3
  <2> QED BY <2>2, <2>4, <2>5
<1>9. \A i \in F : f[i].id = FirstId + Cardinality(es) + before[i]
  <2> HIDE DEF F, Earlier
  <2> QED OBVIOUS
<1>10. f \in [F -> new] /\ \A y \in new : \E x \in F : f[x] = y
  <2> HIDE DEF F, Earlier, N
  <2> QED OBVIOUS
<1>11. Inserted(es, rows, kind) = es \union new
  BY DEF Inserted
<1>12. \A i \in F : f[i].row = rows[i]
  <2> HIDE DEF F, Earlier
  <2> QED OBVIOUS
<1> HIDE DEF f, new, before, F
<1>13. GoesOn(es, F, new, f, before)
  BY <1>7, <1>8, <1>9, <1>10 DEF GoesOn
<1>14. AddsAs(es, rows, kind, new, f, before)
  BY <1>1, <1>11, <1>12, <1>13, <1>o DEF AddsAs, F
<1> QED BY <1>14

LEMMA InsertedIds ==
  ASSUME NEW es, IdsDiffer(es), NEW rows, rows \in Seq(Rows), NEW kind
  PROVE  IdsDiffer(Inserted(es, rows, kind))
<1>1. PICK new, f, place : AddsAs(es, rows, kind, new, f, place)
  BY InsertedAs
<1>2. IdsDiffer(es \union new)
  BY <1>1, IdsGoOn DEF AddsAs
<1> QED BY <1>1, <1>2 DEF AddsAs

-----------------------------------------------------------------------------
LEMMA EntryRowType ==
  ASSUME NEW row \in Rows
  PROVE  row \in LedgerRow(Codes) /\ row.date \in Int /\ row.time \in Int
<1>1. row.date \in Nat \ {0}
  BY InputAssumption DEF Rows, NoDate
<1>2. row.type \in {"OPENING", "BUY", "SELL", "DIVIDEND", "CASH_FEE", "COST_REBASE"}
  BY DEF Rows, FlowTypes
<1>3. row.time \in Nat
  BY DEF Rows, EndOfDay
<1>4. row.code \in Codes /\ row.qty \in Nat /\ row.amount \in Int
  BY DEF Rows
<1>5. row = [date |-> row.date, time |-> row.time, type |-> row.type, code |-> row.code,
             qty |-> row.qty, amount |-> row.amount]
  BY DEF Rows
<1> QED BY <1>1, <1>2, <1>3, <1>4, <1>5 DEF LedgerRow

LEMMA LiveType ==
  ASSUME NEW as \in Seq(CostAnchors)
  PROVE  IsFiniteSet(Live(as)) /\ \A i \in Live(as) : i \in Nat /\ as[i] \in CostAnchors
<1>1. Live(as) \subseteq DOMAIN as
  BY DEF Live
<1> QED BY <1>1, PlacesFinite

LEMMA AnchorRowType ==
  ASSUME NEW a \in CostAnchors
  PROVE  /\ [date |-> a.date, time |-> EndOfDay, type |-> "COST_REBASE",
             code |-> a.code, qty |-> a.qty, amount |-> a.cost] \in LedgerRow(Codes)
         /\ a.date \in Int
<1>1. a.date \in Nat \ {0} /\ a.code \in Codes /\ a.qty \in Nat /\ a.cost \in Int
  BY InputAssumption DEF NoDate
<1>2. EndOfDay \in Nat
  BY DEF EndOfDay
<1> QED BY <1>1, <1>2 DEF LedgerRow

\* The parts of a sort key.
EntryKey(x, row, text) == x = [key |-> <<row.date, row.time, 0>> \o text, row |-> row]

LEMMA EntryKeyed ==
  ASSUME NEW row \in Rows, NEW text, text[1] \in Int, text[2] \in Int,
         text = << text[1], text[2] >>, NEW x, EntryKey(x, row, text)
  PROVE  /\ x.key \in [1..5 -> Int] /\ x.row = row /\ x.row \in LedgerRow(Codes)
         /\ x.key[3] = 0 /\ x.key[4] = text[1] /\ x.key[5] = text[2]
<1>1. x.row = row /\ row \in LedgerRow(Codes) /\ row.date \in Int /\ row.time \in Int
  BY EntryRowType DEF EntryKey
<1> DEFINE d == row.date  t == row.time  p == text[1]  q == text[2]
<1>2. x.key = <<d, t, 0>> \o <<p, q>>
  <2>1. x.key = <<row.date, row.time, 0>> \o text
    BY DEF EntryKey
  <2> QED BY <2>1
<1>3. d \in Int /\ t \in Int /\ p \in Int /\ q \in Int /\ 0 \in Int
  BY <1>1
<1> HIDE DEF d, t, p, q
<1>k. FiveParts(<<d, t, 0>> \o <<p, q>>, 0, p, q)
  BY <1>3, KeyParts, Zenon
<1>4. x.key \in [1..5 -> Int] /\ x.key[3] = 0 /\ x.key[4] = p /\ x.key[5] = q
  BY <1>2, <1>k, Zenon DEF FiveParts
<1> QED BY <1>1, <1>4 DEF p, q

AnchorKey(x, i, a) ==
  x = [key |-> <<a.date, EndOfDay, 1, i, 0>>,
       row |-> [date |-> a.date, time |-> EndOfDay, type |-> "COST_REBASE",
                code |-> a.code, qty |-> a.qty, amount |-> a.cost]]

LEMMA AnchorKeyed ==
  ASSUME NEW i \in Nat, NEW a \in CostAnchors, NEW x, AnchorKey(x, i, a)
  PROVE  x.key \in [1..5 -> Int] /\ x.row \in LedgerRow(Codes) /\ x.key[3] = 1 /\ x.key[4] = i
<1>1. x.row \in LedgerRow(Codes) /\ a.date \in Int
  BY AnchorRowType DEF AnchorKey
<1>2. EndOfDay \in Int
  BY DEF EndOfDay
<1> DEFINE d == a.date  z == EndOfDay
<1>3. d \in Int /\ z \in Int /\ i \in Int /\ 1 \in Int /\ 0 \in Int
  BY <1>1, <1>2
<1>4. x.key = <<d, z, 1, i, 0>>
  BY DEF AnchorKey
<1> HIDE DEF d, z
<1>k. \A key : key = << d, z, 1, i, 0 >> => key \in [1..5 -> Int] /\ key[3] = 1 /\ key[4] = i
  BY <1>3
<1>5. x.key \in [1..5 -> Int] /\ x.key[3] = 1 /\ x.key[4] = i
  BY <1>4, <1>k, Zenon
<1> QED BY <1>1, <1>5

LEMMA TextParts ==
  ASSUME NEW m \in Nat, NEW n \in Nat, AsText(m)[1] = AsText(n)[1], AsText(m)[2] = AsText(n)[2]
  PROVE  m = n
<1>1. AsText(m) = << AsText(m)[1], AsText(m)[2] >> /\ AsText(n) = << AsText(n)[1], AsText(n)[2] >>
  BY TextsDiffer
<1>2. AsText(m) = AsText(n)
  BY <1>1
<1> QED BY <1>2, TextsDiffer

\* What is listed and in which order: the entries of the ledger and the anchors.
LEMMA LedgerKeyed ==
  ASSUME NEW es \in SUBSET Entry, IsFiniteSet(es), \A e, f \in es : e.id = f.id => e = f,
         NEW as \in Seq(CostAnchors)
  PROVE  Keyed(KeyedEntries(es, [n \in Ids(es) |-> AsText(n)]) \union KeyedAnchors(as), LedgerRow(Codes))
<1> DEFINE idKey == [n \in Ids(es) |-> AsText(n)]
           k == [e \in es |-> [key |-> <<e.row.date, e.row.time, 0>> \o idKey[e.id], row |-> e.row]]
           h == [i \in Live(as) |->
                  [key |-> <<as[i].date, EndOfDay, 1, i, 0>>,
                   row |-> [date |-> as[i].date, time |-> EndOfDay, type |-> "COST_REBASE",
                            code |-> as[i].code, qty |-> as[i].qty, amount |-> as[i].cost]]]
           E == {k[e] : e \in es}
           A == {h[i] : i \in Live(as)}
<1>1. KeyedEntries(es, idKey) = E /\ KeyedAnchors(as) = A
  BY DEF KeyedEntries, KeyedAnchors
<1>2. ASSUME NEW e \in es
      PROVE  /\ k[e].key \in [1..5 -> Int] /\ k[e].row \in LedgerRow(Codes) /\ k[e].key[3] = 0
             /\ k[e].key[4] = AsText(e.id)[1] /\ k[e].key[5] = AsText(e.id)[2]
  <2>1. idKey[e.id] = AsText(e.id)
    BY DEF Ids
  <2>2. e.id \in Nat /\ e.row \in Rows
    BY DEF Entry
  <2> DEFINE text == AsText(e.id)
             x == k[e]
             row == e.row
  <2>3. EntryKey(x, row, text)
    <3> HIDE DEF idKey
    <3> QED BY <2>1 DEF EntryKey
  <2>4. text[1] \in Int /\ text[2] \in Int /\ text = << text[1], text[2] >>
    BY <2>2, TextsDiffer
  <2>5. row \in Rows
    BY <2>2
  <2> HIDE DEF text, x, row
  <2>6. /\ x.key \in [1..5 -> Int] /\ x.row = row /\ x.row \in LedgerRow(Codes)
        /\ x.key[3] = 0 /\ x.key[4] = text[1] /\ x.key[5] = text[2]
    BY <2>3, <2>4, <2>5, EntryKeyed
  <2> QED BY <2>6 DEF x, text
<1>3. ASSUME NEW i \in Live(as)
      PROVE  h[i].key \in [1..5 -> Int] /\ h[i].row \in LedgerRow(Codes) /\ h[i].key[3] = 1 /\ h[i].key[4] = i
  <2> DEFINE x == h[i]
             a == as[i]
  <2>1. AnchorKey(x, i, a)
    BY DEF AnchorKey
  <2>2. i \in Nat /\ a \in CostAnchors
    BY LiveType
  <2> HIDE DEF x, a
  <2>3. x.key \in [1..5 -> Int] /\ x.row \in LedgerRow(Codes) /\ x.key[3] = 1 /\ x.key[4] = i
    BY <2>1, <2>2, AnchorKeyed
  <2> QED BY <2>3 DEF x
<1>s. k \in Surjection(es, E) /\ h \in Surjection(Live(as), A)
  <2>1. k \in [es -> E] /\ h \in [Live(as) -> A]
    <3> HIDE DEF idKey
    <3> QED OBVIOUS
  <2>2. \A y \in E : \E e \in es : k[e] = y
    OBVIOUS
  <2>3. \A y \in A : \E i \in Live(as) : h[i] = y
    OBVIOUS
  <2> HIDE DEF k, h, E, A
  <2> QED BY <2>1, <2>2, <2>3 DEF Surjection
<1>4. IsFiniteSet(E \union A)
  <2> HIDE DEF E, A, k, h
  <2> QED BY <1>s, LiveType, FS_Surjection, FS_Union
<1> HIDE DEF k, h
<1>5. \A x \in E \union A : x.row \in LedgerRow(Codes) /\ x.key \in [1..5 -> Int]
  BY <1>2, <1>3
<1>6. ASSUME NEW x \in E \union A, NEW y \in E \union A, x.key = y.key PROVE x = y
  <2>0. x.key[3] = y.key[3] /\ x.key[4] = y.key[4] /\ x.key[5] = y.key[5]
    BY <1>6
  <2>1. CASE x \in E /\ y \in E
    <3>1. PICK e \in es : x = k[e]
      BY <2>1
    <3>2. PICK f \in es : y = k[f]
      BY <2>1
    <3>3. e.id \in Nat /\ f.id \in Nat
      BY DEF Entry
    <3>4. AsText(e.id)[1] = AsText(f.id)[1] /\ AsText(e.id)[2] = AsText(f.id)[2]
      BY <1>2, <2>0, <3>1, <3>2
    <3>5. e.id = f.id
      BY <3>3, <3>4, TextParts
    <3>6. e = f
      BY <3>5
    <3> QED BY <3>1, <3>2, <3>6
  <2>2. CASE x \in E /\ y \in A
    <3>1. PICK e \in es : x = k[e]
      BY <2>2
    <3>2. PICK j \in Live(as) : y = h[j]
      BY <2>2
    <3>3. x.key[3] = 0 /\ y.key[3] = 1
      BY <1>2, <1>3, <3>1, <3>2
    <3>4. 0 # 1
      OBVIOUS
    <3> QED BY <2>0, <3>3, <3>4, Zenon
  <2>3. CASE x \in A /\ y \in E
    <3>1. PICK j \in Live(as) : x = h[j]
      BY <2>3
    <3>2. PICK e \in es : y = k[e]
      BY <2>3
    <3>3. x.key[3] = 1 /\ y.key[3] = 0
      BY <1>2, <1>3, <3>1, <3>2
    <3>4. 0 # 1
      OBVIOUS
    <3> QED BY <2>0, <3>3, <3>4, Zenon
  <2>4. CASE x \in A /\ y \in A
    <3>1. PICK i \in Live(as) : x = h[i]
      BY <2>4
    <3>2. PICK j \in Live(as) : y = h[j]
      BY <2>4
    <3>3. x.key[4] = i /\ y.key[4] = j
      BY <1>3, <3>1, <3>2
    <3> QED BY <2>0, <3>1, <3>2, <3>3
  <2> QED BY <2>1, <2>2, <2>3, <2>4
<1> DEFINE all == E \union A
<1>7. Keyed(all, LedgerRow(Codes))
  <2>1. 5 \in Nat /\ IsFiniteSet(all)
    BY <1>4
  <2>2. \A x \in all : x.row \in LedgerRow(Codes) /\ x.key \in [1..5 -> Int]
    BY <1>5
  <2>3. \A x, y \in all : x.key = y.key => x = y
    BY <1>6
  <2> HIDE DEF all
  <2> QED BY <2>1, <2>2, <2>3, KeyedRows
<1> QED BY <1>1, <1>7

LEMMA OrderedLedgerType ==
  ASSUME NEW es \in SUBSET Entry, Distinct(es), NEW as \in Seq(CostAnchors)
  PROVE  OrderedLedger(es, as) \in Seq(LedgerRow(Codes))
<1> DEFINE keyed == KeyedEntries(es, [n \in Ids(es) |-> AsText(n)]) \union KeyedAnchors(as)
<1>1. Keyed(keyed, LedgerRow(Codes))
  BY LedgerKeyed DEF Distinct
<1> HIDE DEF keyed
<1>2. SortedRows(keyed) \in Seq(LedgerRow(Codes))
  BY <1>1, Sorting
<1> QED BY <1>2 DEF OrderedLedger, keyed

\* What a day leaves of a ledger is its beginning.
LEMMA DayPlaces ==
  ASSUME NEW R, NEW rows \in Seq(R), NEW day
  PROVE  \E k \in 0..Len(rows) : LedgerAsOf(rows, day) = SubSeq(rows, 1, k)
<1> DEFINE D == {i \in DOMAIN rows : rows[i].date <= day}
           k == Cardinality(D)
<1>1. Len(rows) \in Nat /\ D \subseteq 1..Len(rows)
  OBVIOUS
<1>2. k \in Nat /\ k <= Len(rows)
  <2>1. IsFiniteSet(1..Len(rows)) /\ Cardinality(1..Len(rows)) = Len(rows)
    <3>1. 1 \in Int /\ Len(rows) \in Int /\ (IF 1 > Len(rows) THEN 0 ELSE Len(rows) - 1 + 1) = Len(rows)
      BY <1>1
    <3> QED BY <3>1, FS_Interval
  <2> HIDE DEF D
  <2> QED BY <1>1, <2>1, FS_Subset, FS_CardinalityType
<1>3. LedgerAsOf(rows, day) = SubSeq(rows, 1, k)
  BY DEF LedgerAsOf
<1> HIDE DEF k
<1> QED BY <1>1, <1>2, <1>3

LEMMA LedgerAsOfType ==
  ASSUME NEW R, NEW rows \in Seq(R), NEW day
  PROVE  LedgerAsOf(rows, day) \in Seq(R)
<1>1. PICK k \in 0..Len(rows) : LedgerAsOf(rows, day) = SubSeq(rows, 1, k)
  BY DayPlaces
<1>2. SubSeq(rows, 1, k) \in Seq(R)
  <2>1. Len(rows) \in Nat
    OBVIOUS
  <2> QED BY <2>1
<1> QED BY <1>1, <1>2

-----------------------------------------------------------------------------
(* Every day of the ledger, typed, and its replays. *)

IdsInv == IdsDiffer(entries)

LEMMA IdsStep == LedgerInv /\ IdsInv /\ [Next]_vars => IdsInv'
<1> SUFFICES ASSUME LedgerInv, IdsInv, [Next]_vars PROVE IdsInv'
  OBVIOUS
<1>1. \A c \in Callers : task[c].rows \in Seq(Rows)
  BY BatchType DEF LedgerInv, LedgerTypeOK, Tasks
<1>2. entries' = entries \/ \E rows \in Seq(Rows), kind \in Kinds : entries' = Inserted(entries, rows, kind)
  <2>1. CASE UNCHANGED vars
    BY <2>1 DEF vars
  <2>2. CASE Next
    <3>1. ASSUME NEW c \in Callers, ApplyStatement(c) \/ ApplyHistory(c) \/ ApplyOpening(c)
          PROVE \E rows \in Seq(Rows), kind \in Kinds : entries' = Inserted(entries, rows, kind)
      BY <1>1, <3>1 DEF ApplyStatement, ApplyHistory, ApplyOpening, Kinds
    <3> QED BY <2>2, <3>1 DEF Next, CheckStatement, CheckHistory, CheckOpening, RecordCostAnchor, DateCash,
           PreviewStatement, PreviewHistory, Previewed, ApplyRefused,
           OpeningRefused, ProjectCash, InsertCash, Tick
  <2> QED BY <2>1, <2>2
<1>3. CASE entries' = entries
  BY <1>3 DEF IdsInv, IdsDiffer
<1>4. CASE \E rows \in Seq(Rows), kind \in Kinds : entries' = Inserted(entries, rows, kind)
  <2>1. PICK rows \in Seq(Rows) : \E kind \in Kinds : entries' = Inserted(entries, rows, kind)
    BY <1>4
  <2>2. PICK kind \in Kinds : entries' = Inserted(entries, rows, kind)
    BY <2>1
  <2>3. IdsDiffer(Inserted(entries, rows, kind))
    BY InsertedIds DEF IdsInv
  <2>4. IdsDiffer(entries')
    BY <2>2, <2>3
  <2> QED BY <2>4 DEF IdsInv, IdsDiffer
<1> QED BY <1>2, <1>3, <1>4

LEMMA IdsInduction == Spec => [](LedgerInv /\ IdsInv)
<1>1. Init => IdsInv
  <2> SUFFICES ASSUME Init PROVE IdsInv
    OBVIOUS
  <2>1. entries = {}
    BY DEF Init
  <2> QED BY <2>1, FS_EmptySet DEF IdsInv, IdsDiffer
<1> QED BY <1>1, IdsStep, LedgerInduction, PTL DEF Spec

LEMMA DaysTyped ==
  ASSUME LedgerInv, IdsInv, NEW day
  PROVE  LedgerAsOf(OrderedLedger(entries, anchors), day) \in Seq(LedgerRow(Codes))
<1>1. entries \in SUBSET Entry /\ anchors \in Seq(CostAnchors)
  BY DEF LedgerInv, LedgerTypeOK, Entry
<1>2. OrderedLedger(entries, anchors) \in Seq(LedgerRow(Codes))
  BY <1>1, OrderedLedgerType, DistinctIds DEF IdsInv
<1> QED BY <1>2, LedgerAsOfType

(* On every day whose rows replay, realised profit, cash income and the cost *)
(* that remains account for every flow of the ledger, whichever batches were *)
(* booked and anchors recorded.                                              *)
THEOREM MoneyAccounted == Spec => []BooksBalance
<1>1. LedgerInv /\ IdsInv => BooksBalance
  BY DaysTyped, ReplayBalances DEF BooksBalance, Accepts
<1> QED BY <1>1, IdsInduction, PTL

(* On every day whose rows replay, the position view, the closed-cycle view  *)
(* and the operation view agree on the profit and on the cycles.             *)
THEOREM ViewsAgree == Spec => []CyclesAgree
<1>1. LedgerInv /\ IdsInv => CyclesAgree
  BY DaysTyped, ReplaysAgree DEF CyclesAgree, Accepts
<1> QED BY <1>1, IdsInduction, PTL

\* Rows in their order among more rows: at the places g; between them is the rest.
PartOf(short, long, part, rest, g) ==
  /\ g \in [0..Len(short) -> 0..Len(long)] /\ g[0] = 0
  /\ \A i \in 1..Len(short) :
       /\ g[i - 1] < g[i] /\ short[i] = long[g[i]] /\ \E x \in part : short[i] = x.row
       /\ \A j \in (g[i - 1] + 1)..(g[i] - 1) : \E x \in rest : long[j] = x.row

\* A part keeps its order.
LEMMA SortedPart ==
  ASSUME NEW R, NEW all, Keyed(all, R), NEW part, part \subseteq all
  PROVE  Keyed(part, R) /\ \E g : PartOf(SortedRows(part), SortedRows(all), part, all \ part, g)
<1> DEFINE N == Cardinality(all)
           M == Cardinality(part)
           long == SortedRows(all)
           short == SortedRows(part)
<1>1. Keyed(part, R)
  <2>1. IsFiniteSet(part)
    BY FS_Subset DEF Keyed
  <2>2. \A x \in part : x.row \in R
    BY DEF Keyed
  <2>3. StrictOrder(part, {xy \in part \X part : LexLess(xy[1].key, xy[2].key)})
    <3> DEFINE lt == {xy \in all \X all : LexLess(xy[1].key, xy[2].key)}
               ltp == {xy \in part \X part : LexLess(xy[1].key, xy[2].key)}
    <3>1. StrictOrder(all, lt)
      BY DEF Keyed
    <3>2. \A x, y \in part : <<x, y>> \in ltp <=> <<x, y>> \in lt
      OBVIOUS
    <3> HIDE DEF lt, ltp
    <3>3. StrictOrder(part, ltp)
      BY <3>1, <3>2 DEF StrictOrder
    <3> QED BY <3>3 DEF ltp
  <2> QED BY <2>1, <2>2, <2>3 DEF Keyed
<1>2. PICK a : /\ IsSorting(a, all) /\ N \in Nat /\ Len(long) = N
               /\ \A n \in 1..N : long[n] = a[n].row
  BY Sorting
<1>3. PICK b : /\ IsSorting(b, part) /\ M \in Nat /\ Len(short) = M
               /\ \A n \in 1..M : short[n] = b[n].row
  BY <1>1, Sorting
<1>4. /\ a \in [1..N -> all] /\ \A x \in all : \E n \in 1..N : a[n] = x
      /\ \A m, n \in 1..N : LexLess(a[m].key, a[n].key) <=> m < n
  BY <1>2 DEF IsSorting
<1>5. /\ b \in [1..M -> part] /\ \A x \in part : \E n \in 1..M : b[n] = x
      /\ \A m, n \in 1..M : LexLess(b[m].key, b[n].key) <=> m < n
  BY <1>3 DEF IsSorting
<1> HIDE DEF N, M, long, short
<1> DEFINE g == [i \in 0..M |-> IF i = 0 THEN 0 ELSE CHOOSE n \in 1..N : a[n] = b[i]]
<1>6. ASSUME NEW i \in 1..M PROVE g[i] \in 1..N /\ a[g[i]] = b[i] /\ b[i] \in part
  <2>1. b[i] \in part /\ b[i] \in all
    BY <1>5
  <2>2. \E n \in 1..N : a[n] = b[i]
    BY <1>4, <2>1
  <2>3. g[i] = CHOOSE n \in 1..N : a[n] = b[i]
    BY <1>3
  <2> QED BY <2>1, <2>2, <2>3
<1>7. g[0] = 0
  BY <1>3
<1>8. DOMAIN g = 0..M /\ g = [i \in 0..M |-> g[i]]
  OBVIOUS
<1> HIDE DEF g
<1>9. g \in [0..M -> 0..N]
  <2>1. ASSUME NEW i \in 0..M PROVE g[i] \in 0..N
    <3>1. CASE i = 0
      BY <1>2, <1>7, <3>1
    <3>2. CASE i # 0
      <4>1. i \in 1..M
        BY <1>3, <3>2
      <4>2. g[i] \in 1..N
        BY <1>6, <4>1
      <4> QED BY <1>2, <4>2
    <3> QED BY <3>1, <3>2
  <2> QED BY <1>8, <2>1
<1>10. ASSUME NEW i \in 1..M, NEW k \in 1..M PROVE g[i] < g[k] <=> i < k
  <2>1. g[i] \in 1..N /\ g[k] \in 1..N /\ a[g[i]] = b[i] /\ a[g[k]] = b[k]
    BY <1>6
  <2>2. LexLess(a[g[i]].key, a[g[k]].key) <=> g[i] < g[k]
    BY <1>4, <2>1
  <2>3. LexLess(b[i].key, b[k].key) <=> i < k
    BY <1>5
  <2> QED BY <2>1, <2>2, <2>3
<1>11. ASSUME NEW i \in 1..M PROVE g[i - 1] < g[i]
  <2>1. CASE i = 1
    <3>1. g[i] \in 1..N
      BY <1>6
    <3> QED BY <1>2, <1>7, <2>1, <3>1
  <2>2. CASE i # 1
    <3>1. i - 1 \in 1..M /\ i - 1 < i
      BY <1>3, <2>2
    <3> QED BY <1>10, <3>1
  <2> QED BY <2>1, <2>2
<1>12. ASSUME NEW i \in 1..M PROVE short[i] = long[g[i]] /\ \E x \in part : short[i] = x.row
  <2>1. short[i] = b[i].row /\ g[i] \in 1..N /\ a[g[i]] = b[i] /\ b[i] \in part
    BY <1>3, <1>6
  <2>2. long[g[i]] = a[g[i]].row
    BY <1>2, <2>1
  <2> QED BY <2>1, <2>2
<1>13. ASSUME NEW i \in 1..M, NEW j \in (g[i - 1] + 1)..(g[i] - 1)
       PROVE  \E x \in all \ part : long[j] = x.row
  <2>0. i - 1 \in 0..M /\ g[i - 1] \in 0..N /\ g[i] \in 1..N
    BY <1>3, <1>6, <1>9
  <2>1. j \in 1..N /\ j < g[i] /\ g[i - 1] < j
    BY <1>2, <2>0
  <2>2. long[j] = a[j].row /\ a[j] \in all
    BY <1>2, <1>4, <2>1
  <2>3. ASSUME a[j] \in part PROVE FALSE
    <3>1. PICK k \in 1..M : b[k] = a[j]
      BY <1>5, <2>3
    <3>2. k < i
      <4>1. LexLess(a[j].key, a[g[i]].key)
        BY <1>4, <2>0, <2>1
      <4>2. LexLess(b[k].key, b[i].key)
        BY <1>6, <3>1, <4>1
      <4> QED BY <1>5, <4>2
    <3>3. i - 1 \in 1..M
      BY <1>3, <3>2
    <3>4. i - 1 < k
      <4>1. g[i - 1] \in 1..N /\ a[g[i - 1]] = b[i - 1]
        BY <1>6, <3>3
      <4>2. LexLess(a[g[i - 1]].key, a[j].key)
        BY <1>4, <2>1, <4>1
      <4>3. LexLess(b[i - 1].key, b[k].key)
        BY <3>1, <4>1, <4>2
      <4> QED BY <1>5, <3>3, <4>3
    <3> QED BY <1>3, <3>2, <3>4
  <2> QED BY <2>2, <2>3
<1>14. Len(short) = M /\ Len(long) = N
  BY <1>2, <1>3
<1>15. PartOf(short, long, part, all \ part, g)
  BY <1>7, <1>9, <1>11, <1>12, <1>13, <1>14 DEF PartOf
<1> QED BY <1>1, <1>15 DEF short, long

LEMMA EntriesNoRebase ==
  ASSUME NEW es \in SUBSET Entry, NEW idKey, NEW x \in KeyedEntries(es, idKey)
  PROVE  x.row.type # "COST_REBASE"
<1>1. PICK e \in es : x = [key |-> <<e.row.date, e.row.time, 0>> \o idKey[e.id], row |-> e.row]
  BY Zenon DEF KeyedEntries
<1>2. x.row = e.row
  BY <1>1, Zenon
<1>3. e.row \in Rows
  BY DEF Entry
<1>4. e.row.type \in FlowTypes \union {"OPENING"}
  BY <1>3 DEF Rows
<1> QED BY <1>2, <1>4 DEF FlowTypes

LEMMA AnchorsRebase ==
  ASSUME NEW as, NEW x \in KeyedAnchors(as)
  PROVE  x.row.type = "COST_REBASE"
<1>1. PICK i \in Live(as) : AnchorKey(x, i, as[i])
  BY Zenon DEF KeyedAnchors, AnchorKey
<1> QED BY <1>1 DEF AnchorKey

\* Without its anchors, a ledger lies within itself.
LEMMA EntriesWithin ==
  ASSUME NEW es \in SUBSET Entry, Distinct(es), NEW as \in Seq(CostAnchors)
  PROVE  \E g : Within(OrderedLedger(es, <<>>), OrderedLedger(es, as), g)
<1> DEFINE part == KeyedEntries(es, [n \in Ids(es) |-> AsText(n)])
           rest == KeyedAnchors(as)
           all == part \union rest
<1>1. Keyed(all, LedgerRow(Codes))
  BY LedgerKeyed DEF Distinct
<1>2. \A x \in part : x.row.type # "COST_REBASE"
  BY EntriesNoRebase
<1>3. \A x \in rest : x.row.type = "COST_REBASE"
  BY AnchorsRebase
<1>4. OrderedLedger(es, as) = SortedRows(all)
  BY DEF OrderedLedger
<1>5. OrderedLedger(es, <<>>) = SortedRows(part)
  <2>1. KeyedAnchors(<<>>) = {}
    BY DEF KeyedAnchors, Live
  <2> HIDE DEF part
  <2>2. part \union KeyedAnchors(<<>>) = part
    BY <2>1
  <2> QED BY <2>2 DEF OrderedLedger, part
<1> HIDE DEF part, rest
<1>6. part \subseteq all
  OBVIOUS
<1>7. PICK g : PartOf(SortedRows(part), SortedRows(all), part, all \ part, g)
  <2> HIDE DEF all
  <2> QED BY <1>1, <1>6, SortedPart
<1>8. \A x \in all \ part : x.row.type = "COST_REBASE"
  BY <1>3
<1> DEFINE short == SortedRows(part)
           long == SortedRows(all)
           gap == all \ part
<1> HIDE DEF all, short, long, gap
<1>9. PartOf(short, long, part, gap, g)
  BY <1>7 DEF short, long, gap
<1>10. \A x \in gap : x.row.type = "COST_REBASE"
  BY <1>8 DEF gap
<1>11. Within(short, long, g)
  <2>1. g \in [0..Len(short) -> 0..Len(long)] /\ g[0] = 0
    BY <1>9 DEF PartOf
  <2>2. ASSUME NEW i \in 1..Len(short)
        PROVE  /\ g[i - 1] < g[i] /\ short[i] = long[g[i]] /\ short[i].type # "COST_REBASE"
               /\ \A j \in (g[i - 1] + 1)..(g[i] - 1) : long[j].type = "COST_REBASE"
    <3>1. g[i - 1] < g[i] /\ short[i] = long[g[i]] /\ \E x \in part : short[i] = x.row
      BY <1>9 DEF PartOf
    <3>2. \A j \in (g[i - 1] + 1)..(g[i] - 1) : \E x \in gap : long[j] = x.row
      BY <1>9 DEF PartOf
    <3> QED BY <1>2, <1>10, <3>1, <3>2
  <2> QED BY <2>1, <2>2 DEF Within
<1> QED BY <1>4, <1>5, <1>11 DEF short, long

LEMMA WithoutAnchors ==
  ASSUME NEW es \in SUBSET Entry, Distinct(es), NEW as \in Seq(CostAnchors),
         Accepts(OrderedLedger(es, as))
  PROVE  Accepts(OrderedLedger(es, <<>>))
<1> DEFINE long == OrderedLedger(es, as)
           short == OrderedLedger(es, <<>>)
<1>1. <<>> \in Seq(CostAnchors)
  OBVIOUS
<1>2. long \in Seq(LedgerRow(Codes)) /\ short \in Seq(LedgerRow(Codes))
  BY <1>1, OrderedLedgerType
<1>3. PICK g : Within(short, long, g)
  BY EntriesWithin
<1> HIDE DEF long, short
<1>4. \A code \in Codes : PositionState(long, code).ok
  BY DEF Accepts, long
<1>5. \A code \in Codes : PositionState(short, code).ok
  BY <1>2, <1>3, <1>4, WithinAccepted
<1> QED BY <1>5 DEF Accepts, short

\* The beginning of a ledger without anchors.
LEMMA BeginningWithin ==
  ASSUME NEW codes, NEW rows \in Seq(LedgerRow(codes)),
         \A i \in 1..Len(rows) : rows[i].type # "COST_REBASE", NEW k \in 0..Len(rows)
  PROVE  /\ SubSeq(rows, 1, k) \in Seq(LedgerRow(codes))
         /\ Within(SubSeq(rows, 1, k), rows, [i \in 0..k |-> i])
<1> DEFINE s == SubSeq(rows, 1, k)
           g == [i \in 0..k |-> i]
<1>1. Len(rows) \in Nat /\ k \in Nat /\ k <= Len(rows)
  OBVIOUS
<1>2. s \in Seq(LedgerRow(codes)) /\ Len(s) = k /\ \A i \in 1..k : s[i] = rows[i]
  BY <1>1
<1> HIDE DEF s
<1>3. g \in [0..k -> 0..Len(rows)] /\ g[0] = 0
  BY <1>1
<1>4. ASSUME NEW i \in 1..k
      PROVE  /\ g[i - 1] < g[i] /\ s[i] = rows[g[i]] /\ s[i].type # "COST_REBASE"
             /\ \A j \in (g[i - 1] + 1)..(g[i] - 1) : rows[j].type = "COST_REBASE"
  <2>1. g[i - 1] = i - 1 /\ g[i] = i /\ i \in 1..Len(rows)
    BY <1>1
  <2> HIDE DEF g
  <2>2. \A j \in (g[i - 1] + 1)..(g[i] - 1) : FALSE
    BY <2>1
  <2> QED BY <1>2, <2>1, <2>2
<1>5. Within(s, rows, g)
  <2> HIDE DEF g
  <2> QED BY <1>2, <1>3, <1>4 DEF Within
<1> QED BY <1>2, <1>5 DEF s

LEMMA EntriesRows ==
  ASSUME NEW es \in SUBSET Entry, Distinct(es)
  PROVE  \A i \in 1..Len(OrderedLedger(es, <<>>)) : OrderedLedger(es, <<>>)[i].type # "COST_REBASE"
<1>1. <<>> \in Seq(CostAnchors)
  OBVIOUS
<1>2. PICK g : Within(OrderedLedger(es, <<>>), OrderedLedger(es, <<>>), g)
  BY <1>1, EntriesWithin
<1> QED BY <1>2 DEF Within

LEMMA EveryDayAccepted ==
  ASSUME NEW es \in SUBSET Entry, Distinct(es), Accepts(OrderedLedger(es, <<>>)), NEW day
  PROVE  Accepts(LedgerAsOf(OrderedLedger(es, <<>>), day))
<1> DEFINE rows == OrderedLedger(es, <<>>)
<1>1. rows \in Seq(LedgerRow(Codes))
  <2>1. <<>> \in Seq(CostAnchors)
    OBVIOUS
  <2> QED BY <2>1, OrderedLedgerType
<1>2. \A i \in 1..Len(rows) : rows[i].type # "COST_REBASE"
  BY EntriesRows
<1>3. \A code \in Codes : PositionState(rows, code).ok
  BY DEF Accepts
<1> HIDE DEF rows
<1>4. PICK k \in 0..Len(rows) : LedgerAsOf(rows, day) = SubSeq(rows, 1, k)
  BY <1>1, DayPlaces
<1> DEFINE part == SubSeq(rows, 1, k)
           g == [i \in 0..k |-> i]
<1>5. part \in Seq(LedgerRow(Codes)) /\ Within(part, rows, g)
  BY <1>1, <1>2, BeginningWithin
<1> HIDE DEF part, g
<1>6. \A code \in Codes : PositionState(part, code).ok
  BY <1>1, <1>3, <1>5, WithinAccepted
<1>7. Accepts(part)
  BY <1>6 DEF Accepts
<1> QED BY <1>4, <1>7 DEF part, rows

LEMMA NothingAccepted == Accepts(OrderedLedger({}, <<>>))
<1> DEFINE rows == OrderedLedger({}, <<>>)
           keyed == KeyedEntries({}, [n \in Ids({}) |-> AsText(n)]) \union KeyedAnchors(<<>>)
<1>1. Distinct({}) /\ <<>> \in Seq(CostAnchors)
  BY FS_EmptySet DEF Distinct
<1>2. rows \in Seq(LedgerRow(Codes))
  BY <1>1, OrderedLedgerType
<1>3. Keyed(keyed, LedgerRow(Codes))
  BY <1>1, LedgerKeyed, FS_EmptySet
<1>4. keyed = {}
  BY DEF KeyedEntries, KeyedAnchors, Live
<1>5. rows = SortedRows(keyed)
  BY DEF OrderedLedger
<1> HIDE DEF keyed
<1>6. Len(SortedRows(keyed)) = 0
  BY <1>3, <1>4, Sorting, FS_EmptySet
<1> HIDE DEF rows
<1>7. Len(rows) = 0
  BY <1>5, <1>6
<1>8. ASSUME NEW code \in Codes PROVE PositionState(rows, code).ok
  <2>1. PositionState(rows, code) = Flat
    BY <1>2, <1>7, PositionRuns
  <2> QED BY <2>1 DEF Flat
<1> QED BY <1>8 DEF Accepts, rows

-----------------------------------------------------------------------------
(* Without its anchors the whole ledger replays. *)
LedgerReplays == Accepts(OrderedLedger(entries, <<>>))

LEMMA ReplaysStep ==
  LedgerInv /\ IdsInv /\ LedgerReplays /\ [Next]_vars /\ LedgerInv' /\ IdsInv' => LedgerReplays'
<1> SUFFICES ASSUME LedgerInv, IdsInv, LedgerReplays, [Next]_vars, LedgerInv', IdsInv'
             PROVE  LedgerReplays'
  OBVIOUS
<1>1. entries' = entries \/ (anchors' = anchors /\ Replays(entries', anchors))
  BY DEF vars, Next, CheckStatement, CheckHistory, CheckOpening, RecordCostAnchor, DateCash,
     PreviewStatement, PreviewHistory, Previewed, ApplyStatement, ApplyHistory, ApplyRefused,
     ApplyOpening, OpeningRefused, ProjectCash, InsertCash, Tick
<1>2. CASE entries' = entries
  BY <1>2 DEF LedgerReplays
<1>3. CASE anchors' = anchors /\ Replays(entries', anchors)
  <2>1. entries' \in SUBSET Entry /\ Distinct(entries')
    BY DEF LedgerInv, LedgerTypeOK, Entry, IdsInv, IdsDiffer, Distinct
  <2>2. anchors \in Seq(CostAnchors)
    BY DEF LedgerInv, LedgerTypeOK
  <2>3. Accepts(OrderedLedger(entries', anchors))
    BY <1>3 DEF Replays
  <2>4. Accepts(OrderedLedger(entries', <<>>))
    BY <2>1, <2>2, <2>3, WithoutAnchors
  <2> QED BY <2>4 DEF LedgerReplays
<1> QED BY <1>1, <1>2, <1>3

\* The first ledger has no rows, so it replays.
LEMMA EmptyReplays == Init => LedgerReplays
<1> SUFFICES ASSUME Init PROVE LedgerReplays
  OBVIOUS
<1>1. entries = {}
  BY DEF Init
<1> QED BY <1>1, NothingAccepted DEF LedgerReplays

-----------------------------------------------------------------------------
(* A ledger is parted on a day: what is before it, and the rest. *)

\* A sorting ranks: what is at n has n - 1 before it.
IsRanking(at, keyed) ==
  /\ IsSorting(at, keyed)
  /\ \A n \in 1..Cardinality(keyed) : Cardinality({y \in keyed : LexLess(y.key, at[n].key)}) + 1 = n

\* The sorted rows are listed by rank.
LEMMA Rankings ==
  ASSUME NEW R, NEW keyed, Keyed(keyed, R)
  PROVE  /\ Cardinality(keyed) \in Nat
         /\ SortedRows(keyed) \in Seq(R) /\ Len(SortedRows(keyed)) = Cardinality(keyed)
         /\ \E at : /\ IsRanking(at, keyed)
                    /\ \A n \in 1..Cardinality(keyed) : SortedRows(keyed)[n] = at[n].row
<1> DEFINE N == Cardinality(keyed)
           Before(n, at) == {y \in keyed : LexLess(y.key, at[n].key)}
<1>1. /\ N \in Nat
      /\ SortedRows(keyed) \in Seq(R) /\ Len(SortedRows(keyed)) = N
  BY Sorting
<1>2. PICK at : /\ IsSorting(at, keyed)
                /\ \A n \in 1..N : SortedRows(keyed)[n] = at[n].row
  BY Sorting
<1>3. /\ at \in [1..N -> keyed] /\ \A x \in keyed : \E n \in 1..N : at[n] = x
      /\ \A m, n \in 1..N : LexLess(at[m].key, at[n].key) <=> m < n
  BY <1>2 DEF IsSorting
<1>4. ASSUME NEW n \in 1..N PROVE Cardinality(Before(n, at)) + 1 = n
  <2> DEFINE B == Before(n, at)
             h == [m \in 1..(n - 1) |-> at[m]]
  <2>1. n - 1 \in Nat /\ 1..(n - 1) \subseteq 1..N
    BY <1>1
  <2>2. h \in [1..(n - 1) -> B]
    <3>1. ASSUME NEW m \in 1..(n - 1) PROVE at[m] \in B
      <4>1. m \in 1..N /\ m < n
        BY <1>1, <2>1
      <4> HIDE DEF N
      <4> QED BY <1>3, <4>1
    <3> HIDE DEF B
    <3> QED BY <3>1
  <2>3. \A x \in B : \E m \in 1..(n - 1) : h[m] = x
    <3> SUFFICES ASSUME NEW x \in B PROVE \E m \in 1..(n - 1) : h[m] = x
      OBVIOUS
    <3>1. x \in keyed /\ LexLess(x.key, at[n].key)
      OBVIOUS
    <3>2. PICK m \in 1..N : at[m] = x
      BY <1>3, <3>1
    <3>3. m < n
      BY <1>3, <3>1, <3>2
    <3>4. m \in 1..(n - 1)
      BY <1>1, <3>3
    <3> QED BY <3>2, <3>4
  <2>4. \A i, j \in 1..(n - 1) : h[i] = h[j] => i = j
    <3> SUFFICES ASSUME NEW i \in 1..(n - 1), NEW j \in 1..(n - 1), at[i] = at[j] PROVE i = j
      OBVIOUS
    <3>1. i \in 1..N /\ j \in 1..N
      BY <2>1
    <3>2. LexLess(at[i].key, at[j].key) <=> LexLess(at[j].key, at[i].key)
      OBVIOUS
    <3>3. i < j <=> j < i
      <4> HIDE DEF N
      <4> QED BY <1>3, <3>1, <3>2
    <3> QED BY <1>1, <3>1, <3>3
  <2> HIDE DEF B, h
  <2>5. h \in Surjection(1..(n - 1), B) /\ h \in Injection(1..(n - 1), B)
    BY <2>2, <2>3, <2>4 DEF Surjection, Injection, IsInjective
  <2>6. IsFiniteSet(1..(n - 1)) /\ Cardinality(1..(n - 1)) = n - 1
    <3> DEFINE q == n - 1
    <3>1. 1 \in Int /\ q \in Int /\ (IF 1 > q THEN 0 ELSE q - 1 + 1) = q
      BY <2>1
    <3> HIDE DEF q
    <3>2. IsFiniteSet(1..q) /\ Cardinality(1..q) = q
      BY <3>1, FS_Interval
    <3> QED BY <3>2 DEF q
  <2>7. Cardinality(B) = n - 1
    BY <2>5, <2>6, FS_Surjection
  <2> QED BY <1>1, <2>7 DEF B
<1>5. IsRanking(at, keyed)
  BY <1>2, <1>4 DEF IsRanking
<1> QED BY <1>1, <1>2, <1>5

\* Of two sets of keyed rows, one comes wholly before the other.
Halves(early, late, R) ==
  /\ Keyed(early \union late, R) /\ early \intersect late = {}
  /\ \A x \in early, y \in late : LexLess(x.key, y.key)

\* What comes wholly before the rest, is listed before it.
LEMMA SortedSplit ==
  ASSUME NEW R, NEW early, NEW late, Halves(early, late, R)
  PROVE  SortedRows(early \union late) = SortedRows(early) \o SortedRows(late)
<1> USE DEF Halves
<1> DEFINE all == early \union late
           k == Cardinality(early)
           m == Cardinality(late)
           N == Cardinality(all)
           s == SortedRows(early)
           t == SortedRows(late)
           u == SortedRows(all)
           lt == {xy \in all \X all : LexLess(xy[1].key, xy[2].key)}
<1>1. Keyed(early, R) /\ Keyed(late, R)
  BY SortedPart
<1>2. /\ k \in Nat /\ s \in Seq(R) /\ Len(s) = k
      /\ m \in Nat /\ t \in Seq(R) /\ Len(t) = m
      /\ N \in Nat /\ u \in Seq(R) /\ Len(u) = N
  BY <1>1, Sorting
<1>3. PICK a : IsRanking(a, early) /\ \A n \in 1..k : s[n] = a[n].row
  BY <1>1, Rankings
<1>4. PICK b : IsRanking(b, late) /\ \A n \in 1..m : t[n] = b[n].row
  BY <1>1, Rankings
<1>5. PICK c : IsRanking(c, all) /\ \A n \in 1..N : u[n] = c[n].row
  BY Rankings
<1>6. N = k + m
  <2>1. IsFiniteSet(early) /\ IsFiniteSet(late)
    BY <1>1 DEF Keyed
  <2>2. Cardinality(early \intersect late) = 0
    BY FS_EmptySet
  <2>3. Cardinality(all) = Cardinality(early) + Cardinality(late) - Cardinality(early \intersect late)
    BY <2>1, FS_Union
  <2> HIDE DEF all
  <2> QED BY <1>2, <2>2, <2>3
<1>7. StrictOrder(all, lt)
  BY DEF Keyed
<1>8. \A x, y \in all : LexLess(x.key, y.key) => ~ LexLess(y.key, x.key)
  <2> SUFFICES ASSUME NEW x \in all, NEW y \in all, LexLess(x.key, y.key), LexLess(y.key, x.key) PROVE FALSE
    OBVIOUS
  <2>1. << x, y >> \in lt /\ << y, x >> \in lt
    OBVIOUS
  <2> HIDE DEF all, lt
  <2> QED BY <1>7, <2>1 DEF StrictOrder
<1>9. ASSUME NEW n \in 1..N, NEW x \in all, Cardinality({y \in all : LexLess(y.key, x.key)}) + 1 = n
      PROVE  u[n] = x.row
  <2>1. PICK i \in 1..N : c[i] = x
    BY <1>5 DEF IsRanking, IsSorting
  <2>2. Cardinality({y \in all : LexLess(y.key, c[i].key)}) + 1 = i
    BY <1>5 DEF IsRanking
  <2>3. i = n
    BY <1>9, <2>1, <2>2
  <2> QED BY <1>5, <2>1, <2>3
<1>10. ASSUME NEW n \in 1..k PROVE u[n] = s[n]
  <2> DEFINE x == a[n]
  <2>1. x \in early /\ Cardinality({y \in early : LexLess(y.key, x.key)}) + 1 = n
    BY <1>3 DEF IsRanking, IsSorting
  <2>2. s[n] = x.row
    BY <1>3
  <2> HIDE DEF x
  <2>3. {y \in all : LexLess(y.key, x.key)} = {y \in early : LexLess(y.key, x.key)}
    BY <1>8, <2>1
  <2>4. n \in 1..N
    BY <1>2, <1>6
  <2> QED BY <1>9, <2>1, <2>2, <2>3, <2>4
<1>11. ASSUME NEW n \in 1..m PROVE u[k + n] = t[n]
  <2> DEFINE x == b[n]
             B == {y \in late : LexLess(y.key, x.key)}
  <2>1. x \in late /\ Cardinality(B) + 1 = n
    BY <1>4 DEF IsRanking, IsSorting
  <2>2. t[n] = x.row
    BY <1>4
  <2> HIDE DEF x
  <2>3. {y \in all : LexLess(y.key, x.key)} = early \union B
    BY <2>1
  <2>4. early \intersect B = {} /\ B \subseteq late
    OBVIOUS
  <2> HIDE DEF B
  <2>5. IsFiniteSet(early) /\ IsFiniteSet(B)
    BY <1>1, <2>4, FS_Subset DEF Keyed
  <2>6. Cardinality(early \union B) = Cardinality(early) + Cardinality(B) - Cardinality(early \intersect B)
    BY <2>5, FS_Union
  <2>7. Cardinality(early \intersect B) = 0 /\ Cardinality(B) \in Nat
    BY <2>4, <2>5, FS_EmptySet, FS_CardinalityType
  <2> DEFINE j == k + n
  <2>8. Cardinality(early \union B) + 1 = j
    BY <1>2, <2>1, <2>6, <2>7
  <2>9. j \in 1..N
    BY <1>2, <1>6
  <2> HIDE DEF j
  <2>10. Cardinality({y \in all : LexLess(y.key, x.key)}) + 1 = j
    BY <2>3, <2>8
  <2>11. x \in all
    BY <2>1
  <2> HIDE DEF all
  <2>12. u[j] = x.row
    BY <1>9, <2>9, <2>10, <2>11
  <2> QED BY <2>2, <2>12 DEF j
<1> DEFINE v == s \o t
<1>12. /\ v \in Seq(R) /\ Len(v) = k + m
       /\ \A i \in 1..k : v[i] = s[i]
       /\ \A i \in 1..m : v[k + i] = t[i]
  <2> HIDE DEF s, t
  <2> QED BY <1>2, Joined
<1> HIDE DEF u, s, t, v, k, m, N, all
<1>13. ASSUME NEW i \in 1..N PROVE u[i] = v[i]
  <2>1. CASE i \in 1..k
    BY <1>10, <1>12, <2>1
  <2>2. CASE i \notin 1..k
    <3>1. i - k \in 1..m /\ k + (i - k) = i
      BY <1>2, <1>6, <2>2
    <3>2. u[k + (i - k)] = t[i - k] /\ v[k + (i - k)] = t[i - k]
      BY <1>11, <1>12, <3>1
    <3> QED BY <3>1, <3>2
  <2> QED BY <2>1, <2>2
<1>14. u = v
  BY <1>2, <1>6, <1>12, <1>13, SeqEqual
<1> QED BY <1>14 DEF u, v, s, t, all

\* An entry with its sort key.
Filing(e) == [key |-> <<e.row.date, e.row.time, 0>> \o AsText(e.id), row |-> e.row]
Filings(es) == {Filing(e) : e \in es}

\* A sort key starts with the date.
LEMMA FirstPart ==
  ASSUME NEW a \in Int, NEW b \in Int, NEW c \in Int, NEW d \in Int, NEW e \in Int
  PROVE  (<< a, b, c >> \o << d, e >>)[1] = a
<1> DEFINE s == << a, b, c >>
           t == << d, e >>
           u == s \o t
<1>1. s \in Seq(Int) /\ t \in Seq(Int) /\ Len(s) = 3 /\ Len(t) = 2 /\ s[1] = a
  OBVIOUS
<1> HIDE DEF s, t
<1>2. /\ Len(u) = Len(s) + Len(t)
      /\ \A i \in 1..(Len(s) + Len(t)) : u[i] = IF i <= Len(s) THEN s[i] ELSE t[i - Len(s)]
  BY <1>1, ConcatProperties, Zenon
<1> HIDE DEF u
<1>3. u[1] = s[1]
  <2>1. Len(s) + Len(t) = 5 /\ Len(s) = 3
    BY <1>1
  <2>2. \A i \in 1..5 : u[i] = IF i <= 3 THEN s[i] ELSE t[i - 3]
    BY <1>2, <2>1
  <2> QED BY <2>2
<1> QED BY <1>1, <1>3 DEF u, s, t

\* The parts of an entry's sort key.
LEMMA FilingParts ==
  ASSUME NEW e \in Entry
  PROVE  /\ Filing(e).key \in [1..5 -> Int] /\ Filing(e).row = e.row /\ e.row \in Rows
         /\ Filing(e).key[1] = e.row.date
         /\ Filing(e).key[4] = AsText(e.id)[1] /\ Filing(e).key[5] = AsText(e.id)[2]
<1> DEFINE text == AsText(e.id)
           x == Filing(e)
           row == e.row
<1>1. e.id \in Nat /\ row \in Rows
  BY DEF Entry
<1>2. text[1] \in Int /\ text[2] \in Int /\ text = << text[1], text[2] >>
  BY <1>1, TextsDiffer
<1>3. EntryKey(x, row, text)
  BY DEF EntryKey, Filing
<1>4. row.date \in Int /\ row.time \in Int
  BY <1>1, EntryRowType
<1>5. x.key = <<row.date, row.time, 0>> \o text
  BY DEF Filing
<1> HIDE DEF text, x, row
<1>6. /\ x.key \in [1..5 -> Int] /\ x.row = row
      /\ x.key[4] = text[1] /\ x.key[5] = text[2]
  BY <1>1, <1>2, <1>3, EntryKeyed
<1>7. x.key[1] = row.date
  <2> DEFINE d == row.date  t == row.time  p == text[1]  q == text[2]
  <2>1. d \in Int /\ t \in Int /\ p \in Int /\ q \in Int /\ 0 \in Int
    BY <1>2, <1>4
  <2>2. x.key = <<d, t, 0>> \o <<p, q>>
    BY <1>2, <1>5
  <2> HIDE DEF d, t, p, q
  <2>3. (<<d, t, 0>> \o <<p, q>>)[1] = d
    BY <2>1, FirstPart
  <2>4. x.key[1] = d
    BY <2>2, <2>3
  <2> QED BY <2>4 DEF d
<1> QED BY <1>1, <1>6, <1>7 DEF text, x, row

\* Entries have different sort keys, since their ids differ.
LEMMA FilingsDiffer ==
  ASSUME NEW es \in SUBSET Entry, \A e, f \in es : e.id = f.id => e = f
  PROVE  \A e, f \in es : Filing(e) = Filing(f) => e = f
<1> SUFFICES ASSUME NEW e \in es, NEW f \in es, Filing(e) = Filing(f) PROVE e.id = f.id
  OBVIOUS
<1>1. /\ Filing(e).key[4] = AsText(e.id)[1] /\ Filing(e).key[5] = AsText(e.id)[2]
      /\ Filing(f).key[4] = AsText(f.id)[1] /\ Filing(f).key[5] = AsText(f.id)[2]
  BY FilingParts
<1>2. e.id \in Nat /\ f.id \in Nat
  BY DEF Entry
<1> QED BY <1>1, <1>2, TextParts

\* A ledger without anchors lists the filings of its entries.
LEMMA LedgerFilings ==
  ASSUME NEW es \in SUBSET Entry, IsFiniteSet(es), \A e, f \in es : e.id = f.id => e = f
  PROVE  OrderedLedger(es, <<>>) = SortedRows(Filings(es)) /\ Keyed(Filings(es), LedgerRow(Codes))
<1> DEFINE idKey == [n \in Ids(es) |-> AsText(n)]
           k == KeyedEntries(es, idKey)
<1>1. k = Filings(es)
  <2>1. \A e \in es : idKey[e.id] = AsText(e.id)
    BY DEF Ids
  <2> HIDE DEF idKey
  <2> DEFINE f(e) == [key |-> <<e.row.date, e.row.time, 0>> \o idKey[e.id], row |-> e.row]
  <2>2. \A e \in es : f(e) = Filing(e)
    BY <2>1 DEF Filing
  <2>3. k = {f(e) : e \in es}
    BY Zenon DEF KeyedEntries
  <2> HIDE DEF f, k
  <2>4. {f(e) : e \in es} = {Filing(e) : e \in es}
    BY <2>2
  <2> QED BY <2>3, <2>4 DEF Filings
<1>2. k \union KeyedAnchors(<<>>) = k
  <2>1. KeyedAnchors(<<>>) = {}
    BY DEF KeyedAnchors, Live
  <2> HIDE DEF k
  <2> QED BY <2>1
<1>3. Keyed(k \union KeyedAnchors(<<>>), LedgerRow(Codes))
  <2>1. <<>> \in Seq(CostAnchors)
    OBVIOUS
  <2> QED BY <2>1, LedgerKeyed
<1>4. OrderedLedger(es, <<>>) = SortedRows(k \union KeyedAnchors(<<>>))
  BY DEF OrderedLedger
<1> HIDE DEF k
<1> QED BY <1>1, <1>2, <1>3, <1>4

Early(es, day) == {e \in es : e.row.date < day}
Late(es, day) == {e \in es : e.row.date >= day}

\* A day parts a ledger in two.
LEMMA DayParts ==
  ASSUME NEW es \in SUBSET Entry, IsFiniteSet(es), \A e, f \in es : e.id = f.id => e = f, NEW day \in Int
  PROVE  /\ OrderedLedger(es, <<>>) = OrderedLedger(Early(es, day), <<>>) \o OrderedLedger(Late(es, day), <<>>)
         /\ OrderedLedger(Early(es, day), <<>>) \in Seq(LedgerRow(Codes))
         /\ OrderedLedger(Late(es, day), <<>>) \in Seq(LedgerRow(Codes))
         /\ \A i \in 1..Len(OrderedLedger(Early(es, day), <<>>)) : OrderedLedger(Early(es, day), <<>>)[i].date < day
         /\ \A i \in 1..Len(OrderedLedger(Late(es, day), <<>>)) : OrderedLedger(Late(es, day), <<>>)[i].date >= day
<1> DEFINE A == Early(es, day)
           B == Late(es, day)
<1>1. A \in SUBSET Entry /\ B \in SUBSET Entry /\ A \subseteq es /\ B \subseteq es
  BY DEF Early, Late
<1>2. \A e \in es : e.row.date \in Int
  BY EntryRowType DEF Entry
<1>3. es = A \union B /\ A \intersect B = {}
  BY <1>2 DEF Early, Late
<1>4. (\A e \in A : e.row.date < day) /\ (\A e \in B : e.row.date >= day)
  BY DEF Early, Late
<1> HIDE DEF A, B
<1>5. IsFiniteSet(A) /\ IsFiniteSet(B)
  BY <1>1, FS_Subset
<1>6. /\ OrderedLedger(es, <<>>) = SortedRows(Filings(es)) /\ Keyed(Filings(es), LedgerRow(Codes))
      /\ OrderedLedger(A, <<>>) = SortedRows(Filings(A)) /\ Keyed(Filings(A), LedgerRow(Codes))
      /\ OrderedLedger(B, <<>>) = SortedRows(Filings(B)) /\ Keyed(Filings(B), LedgerRow(Codes))
  BY <1>1, <1>5, LedgerFilings
<1>7. Filings(es) = Filings(A) \union Filings(B)
  BY <1>3 DEF Filings
<1>8. Filings(A) \intersect Filings(B) = {}
  <2> SUFFICES ASSUME NEW x \in Filings(A), x \in Filings(B) PROVE FALSE
    OBVIOUS
  <2>1. PICK e \in A : x = Filing(e)
    BY DEF Filings
  <2>2. PICK f \in B : x = Filing(f)
    BY DEF Filings
  <2>3. e = f
    BY <1>1, <2>1, <2>2, FilingsDiffer
  <2> QED BY <1>3, <2>3
<1>9. ASSUME NEW x \in Filings(A), NEW y \in Filings(B) PROVE LexLess(x.key, y.key)
  <2>1. PICK e \in A : x = Filing(e)
    BY DEF Filings
  <2>2. PICK f \in B : y = Filing(f)
    BY DEF Filings
  <2>3. e \in Entry /\ f \in Entry
    BY <1>1
  <2>4. x.key \in [1..5 -> Int] /\ x.key[1] = e.row.date /\ y.key \in [1..5 -> Int] /\ y.key[1] = f.row.date
    BY <2>1, <2>2, <2>3, FilingParts
  <2>5. e.row.date \in Int /\ f.row.date \in Int /\ e.row.date < day /\ f.row.date >= day
    BY <1>1, <1>2, <1>4
  <2>6. x.key[1] < y.key[1]
    BY <2>4, <2>5
  <2>7. 1 \in DOMAIN x.key /\ 1..(1 - 1) = {}
    BY <2>4
  <2> QED BY <2>6, <2>7 DEF LexLess
<1>10. SortedRows(Filings(es)) = SortedRows(Filings(A)) \o SortedRows(Filings(B))
  <2> DEFINE p == Filings(A)
             q == Filings(B)
  <2>1. Halves(p, q, LedgerRow(Codes))
    BY <1>6, <1>7, <1>8, <1>9 DEF Halves
  <2> HIDE DEF p, q
  <2>2. SortedRows(p \union q) = SortedRows(p) \o SortedRows(q)
    BY <2>1, SortedSplit
  <2> QED BY <1>7, <2>2 DEF p, q
<1>11. ASSUME NEW C, C \subseteq es, Keyed(Filings(C), LedgerRow(Codes))
       PROVE  /\ SortedRows(Filings(C)) \in Seq(LedgerRow(Codes))
              /\ \A i \in 1..Len(SortedRows(Filings(C))) : \E e \in C : SortedRows(Filings(C))[i] = e.row
  <2> DEFINE s == SortedRows(Filings(C))
             N == Cardinality(Filings(C))
  <2>1. /\ s \in Seq(LedgerRow(Codes)) /\ Len(s) = N
        /\ \E at : IsSorting(at, Filings(C)) /\ \A n \in 1..N : s[n] = at[n].row
    BY <1>11, Sorting
  <2>2. PICK at : IsSorting(at, Filings(C)) /\ \A n \in 1..N : s[n] = at[n].row
    BY <2>1
  <2>3. at \in [1..N -> Filings(C)]
    BY <2>2 DEF IsSorting
  <2> HIDE DEF s, N
  <2>4. ASSUME NEW i \in 1..Len(s) PROVE \E e \in C : s[i] = e.row
    <3>1. s[i] = at[i].row /\ at[i] \in Filings(C)
      BY <2>1, <2>2, <2>3
    <3>2. PICK e \in C : at[i] = Filing(e)
      BY <3>1 DEF Filings
    <3>3. at[i].row = e.row
      BY <3>2 DEF Filing
    <3> QED BY <3>1, <3>3
  <2> QED BY <2>1, <2>4 DEF s
<1>12. /\ \A i \in 1..Len(SortedRows(Filings(A))) : SortedRows(Filings(A))[i].date < day
       /\ \A i \in 1..Len(SortedRows(Filings(B))) : SortedRows(Filings(B))[i].date >= day
       /\ SortedRows(Filings(A)) \in Seq(LedgerRow(Codes)) /\ SortedRows(Filings(B)) \in Seq(LedgerRow(Codes))
  <2> DEFINE s == SortedRows(Filings(A))
             t == SortedRows(Filings(B))
  <2>1. s \in Seq(LedgerRow(Codes)) /\ \A i \in 1..Len(s) : \E e \in A : s[i] = e.row
    BY <1>1, <1>6, <1>11
  <2>2. t \in Seq(LedgerRow(Codes)) /\ \A i \in 1..Len(t) : \E e \in B : t[i] = e.row
    BY <1>1, <1>6, <1>11
  <2> HIDE DEF s, t
  <2>3. (\A i \in 1..Len(s) : s[i].date < day) /\ (\A i \in 1..Len(t) : t[i].date >= day)
    BY <1>4, <2>1, <2>2
  <2> QED BY <2>1, <2>2, <2>3 DEF s, t
<1> QED BY <1>6, <1>10, <1>12 DEF A, B

\* What the report of the eve reads.
LEMMA EveRows ==
  ASSUME NEW es \in SUBSET Entry, IsFiniteSet(es), \A e, f \in es : e.id = f.id => e = f, NEW day \in Int
  PROVE  LedgerAsOf(OrderedLedger(es, <<>>), day - 1) = OrderedLedger(Early(es, day), <<>>)
<1> DEFINE u == OrderedLedger(es, <<>>)
           s == OrderedLedger(Early(es, day), <<>>)
           t == OrderedLedger(Late(es, day), <<>>)
           m == Len(s)
           n == Len(t)
           D == {i \in DOMAIN u : u[i].date <= day - 1}
<1>1. /\ u = s \o t /\ s \in Seq(LedgerRow(Codes)) /\ t \in Seq(LedgerRow(Codes))
      /\ \A i \in 1..m : s[i].date < day
      /\ \A i \in 1..n : t[i].date >= day
  BY DayParts
<1> HIDE DEF u, s, t
<1>2. /\ m \in Nat /\ n \in Nat /\ u \in Seq(LedgerRow(Codes)) /\ Len(u) = m + n
      /\ \A i \in 1..m : u[i] = s[i]
      /\ \A i \in 1..n : u[m + i] = t[i]
  BY <1>1, Joined
<1>3. (\A i \in 1..m : s[i].date \in Int) /\ (\A i \in 1..n : t[i].date \in Int)
  <2>1. \A x \in LedgerRow(Codes) : x.date \in Int
    BY DEF LedgerRow
  <2>2. (\A i \in 1..m : s[i] \in LedgerRow(Codes)) /\ (\A i \in 1..n : t[i] \in LedgerRow(Codes))
    BY <1>1
  <2> QED BY <2>1, <2>2
<1> HIDE DEF m, n
<1>4. D = 1..m
  <2>1. ASSUME NEW i \in DOMAIN u PROVE u[i].date <= day - 1 <=> i \in 1..m
    <3>1. CASE i \in 1..m
      BY <1>1, <1>2, <1>3, <3>1
    <3>2. CASE i \notin 1..m
      <4>1. i - m \in 1..n /\ m + (i - m) = i
        BY <1>2, <3>2
      <4>2. u[m + (i - m)] = t[i - m] /\ t[i - m].date >= day /\ t[i - m].date \in Int
        BY <1>1, <1>2, <1>3, <4>1
      <4> QED BY <3>2, <4>1, <4>2
    <3> QED BY <3>1, <3>2
  <2>2. 1..m \subseteq DOMAIN u
    BY <1>2
  <2> QED BY <2>1, <2>2
<1>5. Cardinality(1..m) = m
  <2>1. 1 \in Int /\ m \in Int /\ (IF 1 > m THEN 0 ELSE m - 1 + 1) = m
    BY <1>2
  <2> QED BY <2>1, FS_Interval
<1>6. LedgerAsOf(u, day - 1) = SubSeq(u, 1, m)
  BY <1>4, <1>5 DEF LedgerAsOf
<1> DEFINE v == SubSeq(u, 1, m)
<1>7. v \in Seq(LedgerRow(Codes)) /\ Len(v) = m /\ \A i \in 1..m : v[i] = u[i]
  BY <1>2
<1> HIDE DEF v
<1>8. Len(s) = m
  BY DEF m
<1>9. v = s
  BY <1>1, <1>2, <1>7, <1>8, SeqEqual
<1> QED BY <1>6, <1>9 DEF u, s, v

\* A quantity is what the rows of S have bought less what they have sold.
QtyOf(S, r, code, q) ==
  /\ IsFiniteSet(Units(S, r, code, Bought)) /\ IsFiniteSet(Units(S, r, code, Sold))
  /\ q = Cardinality(Units(S, r, code, Bought)) - Cardinality(Units(S, r, code, Sold))

\* The rows of S, each by a key of its own.
ByKey(K, S, r, keyed, R) ==
  /\ Keyed(keyed, R)
  /\ \A x \in S : K[x] \in keyed /\ K[x].row = r[x]
  /\ \A y \in keyed : \E x \in S : K[x] = y
  /\ \A x, y \in S : K[x] = K[y] => x = y

\* A sorted ledger holds what its rows, in any order, have bought less what they have sold.
LEMMA ListedQty ==
  ASSUME NEW codes, NEW K, NEW S, NEW r, NEW keyed, ByKey(K, S, r, keyed, LedgerRow(codes)),
         NEW code, PositionState(SortedRows(keyed), code).ok
  PROVE  QtyOf(S, r, code, PositionState(SortedRows(keyed), code).qty)
<1> DEFINE rows == SortedRows(keyed)
           n == Cardinality(keyed)
<1>1. /\ Keyed(keyed, LedgerRow(codes))
      /\ \A x \in S : K[x] \in keyed /\ K[x].row = r[x]
      /\ \A y \in keyed : \E x \in S : K[x] = y
      /\ \A x, y \in S : K[x] = K[y] => x = y
  BY DEF ByKey
<1>2. n \in Nat /\ rows \in Seq(LedgerRow(codes)) /\ Len(rows) = n
  BY <1>1, Sorting
<1>3. PICK at : IsSorting(at, keyed) /\ \A i \in 1..n : rows[i] = at[i].row
  BY <1>1, Sorting
<1>4. /\ at \in [1..n -> keyed] /\ \A x \in keyed : \E i \in 1..n : at[i] = x
      /\ \A i, j \in 1..n : LexLess(at[i].key, at[j].key) <=> i < j
  BY <1>3 DEF IsSorting
<1> DEFINE p == [i \in 1..n |-> CHOOSE x \in S : K[x] = at[i]]
<1>5. PositionState(rows, code).ok
  OBVIOUS
<1> HIDE DEF rows, n
<1>6. ASSUME NEW i \in 1..n PROVE p[i] \in S /\ K[p[i]] = at[i]
  <2>1. \E x \in S : K[x] = at[i]
    BY <1>1, <1>4
  <2> QED BY <2>1
<1>7. p \in [1..n -> S]
  <2>1. p = [i \in 1..n |-> p[i]]
    OBVIOUS
  <2> HIDE DEF p
  <2> QED BY <1>6, <2>1
<1> HIDE DEF p
<1>8. ASSUME NEW i \in 1..n, NEW j \in 1..n, p[i] = p[j] PROVE i = j
  <2>1. at[i] = at[j]
    BY <1>6, <1>8
  <2>2. i < j <=> j < i
    BY <1>4, <2>1
  <2> QED BY <1>2, <2>2
<1>9. ASSUME NEW x \in S PROVE \E i \in 1..n : p[i] = x
  <2>1. PICK i \in 1..n : at[i] = K[x]
    BY <1>1, <1>4
  <2> QED BY <1>1, <1>6, <2>1
<1>10. \A i \in 1..n : rows[i] = r[p[i]]
  BY <1>1, <1>3, <1>6
<1>11. Renames(p, 1..n, S, rows, r)
  BY <1>7, <1>8, <1>9, <1>10 DEF Renames
<1>12. QtyOf(1..n, rows, code, PositionState(rows, code).qty)
  BY <1>2, <1>5, QtyIsUnits DEF QtyOf
<1> DEFINE q == PositionState(rows, code).qty
<1> HIDE DEF q
<1>13. QtyOf(S, r, code, q)
  <2>1. QtyOf(1..n, rows, code, q)
    BY <1>12 DEF q
  <2>2. IsFiniteSet(Units(1..n, rows, code, Bought)) /\ IsFiniteSet(Units(1..n, rows, code, Sold))
    BY <2>1 DEF QtyOf
  <2>3. /\ IsFiniteSet(Units(S, r, code, Bought))
        /\ Cardinality(Units(S, r, code, Bought)) = Cardinality(Units(1..n, rows, code, Bought))
    BY <1>11, <2>2, UnitsRenamed
  <2>4. /\ IsFiniteSet(Units(S, r, code, Sold))
        /\ Cardinality(Units(S, r, code, Sold)) = Cardinality(Units(1..n, rows, code, Sold))
    BY <1>11, <2>2, UnitsRenamed
  <2> QED BY <2>1, <2>3, <2>4 DEF QtyOf
<1> QED BY <1>13 DEF q, rows

RowOf == [e \in Entry |-> e.row]

\* What a ledger holds is what its entries have bought less what they have sold.
LEMMA EntriesQty ==
  ASSUME NEW es \in SUBSET Entry, IsFiniteSet(es), \A e, f \in es : e.id = f.id => e = f,
         NEW code, PositionState(OrderedLedger(es, <<>>), code).ok
  PROVE  QtyOf(es, RowOf, code, PositionState(OrderedLedger(es, <<>>), code).qty)
<1> DEFINE keyed == Filings(es)
           K == [e \in es |-> Filing(e)]
<1>1. OrderedLedger(es, <<>>) = SortedRows(keyed) /\ Keyed(keyed, LedgerRow(Codes))
  BY LedgerFilings
<1>2. \A e \in es : K[e] \in keyed /\ K[e].row = RowOf[e]
  BY FilingParts DEF Filings, RowOf
<1>3. \A y \in keyed : \E e \in es : K[e] = y
  BY DEF Filings
<1>4. \A e, f \in es : K[e] = K[f] => e = f
  BY FilingsDiffer
<1> HIDE DEF keyed, K
<1>5. ByKey(K, es, RowOf, keyed, LedgerRow(Codes))
  BY <1>1, <1>2, <1>3, <1>4 DEF ByKey
<1>6. PositionState(SortedRows(keyed), code).ok
  BY <1>1
<1>7. QtyOf(es, RowOf, code, PositionState(SortedRows(keyed), code).qty)
  BY <1>5, <1>6, ListedQty
<1> QED BY <1>1, <1>7

\* A batch is self-contained: it holds nothing at its end.
LEMMA BatchBalances ==
  ASSUME NEW rows \in Seq(Rows), SelfContained(rows), NEW code
  PROVE  QtyOf(DOMAIN rows, rows, code, 0)
<1> DEFINE S == DOMAIN rows
           K == [i \in S |-> [key |-> <<rows[i].date, rows[i].time, i>>, row |-> rows[i]]]
           keyed == {[key |-> <<rows[i].date, rows[i].time, i>>, row |-> rows[i]] : i \in S}
<1>1. S = 1..Len(rows) /\ Len(rows) \in Nat
  OBVIOUS
<1>2. \A i \in S : rows[i] \in Rows
  OBVIOUS
<1>3. CASE \E i \in S : rows[i].code = code
  <2>1. PositionState(SortedRows(keyed), code).ok /\ PositionState(SortedRows(keyed), code).qty = 0
    BY <1>3 DEF SelfContained
  <2>2. IsFiniteSet(keyed)
    <3>1. K \in [S -> keyed] /\ \A y \in keyed : \E i \in S : K[i] = y
      <4> HIDE DEF S
      <4> QED OBVIOUS
    <3>2. IsFiniteSet(S)
      BY <1>1, FS_Interval
    <3> HIDE DEF S, K, keyed
    <3>3. K \in Surjection(S, keyed)
      BY <3>1 DEF Surjection
    <3> QED BY <3>2, <3>3, FS_Surjection
  <2>3. ASSUME NEW i \in S
        PROVE  K[i] \in keyed /\ K[i].row = rows[i] /\ K[i].key \in [1..3 -> Int] /\ K[i].key[3] = i
    <3> DEFINE d == rows[i].date  t == rows[i].time
    <3>1. d \in Int /\ t \in Int /\ i \in Int
      BY <1>1, <1>2, EntryRowType
    <3>2. K[i].key = << d, t, i >> /\ K[i].row = rows[i] /\ K[i] \in keyed
      <4> HIDE DEF S
      <4> QED OBVIOUS
    <3> HIDE DEF d, t, K, keyed
    <3>3. << d, t, i >> \in [1..3 -> Int] /\ << d, t, i >>[3] = i
      BY <3>1
    <3> QED BY <3>2, <3>3
  <2>4. \A y \in keyed : \E i \in S : K[i] = y
    <3> HIDE DEF S
    <3> QED OBVIOUS
  <2> HIDE DEF S, K, keyed
  <2>5. \A i \in S : rows[i] \in LedgerRow(Codes)
    BY <1>2, EntryRowType
  <2>6. \A x \in keyed : x.row \in LedgerRow(Codes) /\ x.key \in [1..3 -> Int]
    BY <2>3, <2>4, <2>5
  <2>7. \A x, y \in keyed : x.key = y.key => x = y
    <3> SUFFICES ASSUME NEW x \in keyed, NEW y \in keyed, x.key = y.key PROVE x = y
      OBVIOUS
    <3>1. PICK i \in S : K[i] = x
      BY <2>4
    <3>2. PICK j \in S : K[j] = y
      BY <2>4
    <3>3. i = j
      BY <2>3, <3>1, <3>2
    <3> QED BY <3>1, <3>2, <3>3
  <2>8. Keyed(keyed, LedgerRow(Codes))
    <3>1. 3 \in Nat
      OBVIOUS
    <3> QED BY <2>2, <2>6, <2>7, <3>1, KeyedRows
  <2>9. \A i, j \in S : K[i] = K[j] => i = j
    <3> SUFFICES ASSUME NEW i \in S, NEW j \in S, K[i] = K[j] PROVE i = j
      OBVIOUS
    <3>1. K[i].key[3] = i /\ K[j].key[3] = j
      BY <2>3
    <3> QED BY <3>1
  <2>10. ByKey(K, S, rows, keyed, LedgerRow(Codes))
    BY <2>3, <2>4, <2>8, <2>9 DEF ByKey
  <2>11. QtyOf(S, rows, code, PositionState(SortedRows(keyed), code).qty)
    BY <2>1, <2>10, ListedQty
  <2> QED BY <2>1, <2>11 DEF S
<1>4. CASE ~ \E i \in S : rows[i].code = code
  <2>1. Units(S, rows, code, Bought) = {} /\ Units(S, rows, code, Sold) = {}
    BY <1>4 DEF Units
  <2>2. IsFiniteSet({}) /\ Cardinality({}) = 0
    BY FS_EmptySet
  <2> DEFINE u == Units(S, rows, code, Bought)
             v == Units(S, rows, code, Sold)
  <2>3. u = {} /\ v = {}
    BY <2>1
  <2> HIDE DEF u, v
  <2>4. IsFiniteSet(u) /\ IsFiniteSet(v) /\ Cardinality(u) = 0 /\ Cardinality(v) = 0
    BY <2>2, <2>3
  <2>5. 0 = Cardinality(u) - Cardinality(v)
    BY <2>4
  <2> QED BY <2>4, <2>5 DEF QtyOf, u, v
<1> QED BY <1>3, <1>4

\* The new entries are the fresh rows by other names, and none of the old ones.
LEMMA NewEntries ==
  ASSUME NEW es, IdsDiffer(es), NEW rows, NEW kind, NEW new, NEW f, NEW place,
         AddsAs(es, rows, kind, new, f, place), new \subseteq Entry
  PROVE  es \intersect new = {} /\ Renames(f, Fresh(es, rows), new, rows, RowOf)
<1> DEFINE F == Fresh(es, rows)
           N == Cardinality(es)
           M == Cardinality(F)
<1>1. /\ f \in [F -> new] /\ \A y \in new : \E x \in F : f[x] = y
      /\ place \in [F -> 0..(M - 1)]
      /\ \A i, j \in F : place[i] = place[j] => i = j
      /\ \A i \in F : f[i].id = FirstId + N + place[i]
      /\ \A i \in F : f[i].row = rows[i]
  BY DEF AddsAs, GoesOn
<1>2. N \in Nat /\ M \in Nat /\ FirstId \in Nat
  BY FS_CardinalityType, InputAssumption DEF IdsDiffer, AddsAs
<1>3. \A e \in es : e.id \in FirstId..(FirstId + N - 1)
  BY DEF IdsDiffer
<1> HIDE DEF F, N, M
<1>4. \A i \in F : place[i] \in Nat
  BY <1>1, <1>2
<1>5. \A i, j \in F : f[i] = f[j] => i = j
  <2> SUFFICES ASSUME NEW i \in F, NEW j \in F, f[i] = f[j] PROVE i = j
    OBVIOUS
  <2>1. FirstId + N + place[i] = FirstId + N + place[j]
    BY <1>1
  <2>2. place[i] = place[j]
    BY <1>2, <1>4, <2>1
  <2> QED BY <1>1, <2>2
<1>6. es \intersect new = {}
  <2> SUFFICES ASSUME NEW e \in es, e \in new PROVE FALSE
    OBVIOUS
  <2>1. PICK i \in F : f[i] = e
    BY <1>1
  <2>2. e.id = FirstId + N + place[i] /\ e.id \in FirstId..(FirstId + N - 1) /\ place[i] \in Nat
    BY <1>1, <1>3, <1>4, <2>1
  <2> QED BY <1>2, <2>2
<1>7. \A i \in F : rows[i] = RowOf[f[i]]
  BY <1>1 DEF RowOf
<1>8. Renames(f, F, new, rows, RowOf)
  BY <1>1, <1>5, <1>7 DEF Renames
<1> QED BY <1>6, <1>8 DEF F

\* Two ledgers that were empty of a security on the eve of a day, and are the
\* same from that day on, hold the same of it.
LEMMA SameFromDay ==
  ASSUME NEW es \in SUBSET Entry, IdsDiffer(es), NEW fs \in SUBSET Entry, IdsDiffer(fs),
         NEW day \in Int, Late(es, day) = Late(fs, day), NEW code,
         PositionState(OrderedLedger(Early(es, day), <<>>), code).ok,
         PositionState(OrderedLedger(Early(es, day), <<>>), code).qty = 0,
         PositionState(OrderedLedger(Early(fs, day), <<>>), code).ok,
         PositionState(OrderedLedger(Early(fs, day), <<>>), code).qty = 0
  PROVE  Alike(PositionState(OrderedLedger(es, <<>>), code), PositionState(OrderedLedger(fs, <<>>), code))
<1> DEFINE s == OrderedLedger(Early(es, day), <<>>)
           o == OrderedLedger(Early(fs, day), <<>>)
           t == OrderedLedger(Late(es, day), <<>>)
           R == LedgerRow(Codes)
<1>1. /\ OrderedLedger(es, <<>>) = s \o t /\ s \in Seq(R) /\ t \in Seq(R)
      /\ \A i \in 1..Len(s) : s[i].date < day
      /\ \A i \in 1..Len(t) : t[i].date >= day
  BY DayParts DEF IdsDiffer
<1>2. /\ OrderedLedger(fs, <<>>) = o \o t /\ o \in Seq(R)
      /\ \A i \in 1..Len(o) : o[i].date < day
  BY DayParts DEF IdsDiffer
<1>3. PositionState(s, code).ok /\ PositionState(s, code).qty = 0 /\ PositionState(o, code).ok /\ PositionState(o, code).qty = 0
  OBVIOUS
<1> HIDE DEF s, o, t
<1>4. \A x \in R : x.date \in Int
  BY DEF LedgerRow
<1> HIDE DEF R
<1>5. Apart(s, t) /\ Apart(o, t)
  <2>1. \A i \in 1..Len(s) : s[i].date \in Int
    BY <1>1, <1>4
  <2>2. \A i \in 1..Len(t) : t[i].date \in Int
    BY <1>1, <1>4
  <2>3. \A i \in 1..Len(o) : o[i].date \in Int
    BY <1>2, <1>4
  <2>4. ASSUME NEW i \in 1..Len(s), NEW j \in 1..Len(t) PROVE s[i].date # t[j].date
    <3>1. s[i].date < day /\ t[j].date >= day /\ s[i].date \in Int /\ t[j].date \in Int
      BY <1>1, <2>1, <2>2
    <3> QED BY <3>1
  <2>5. ASSUME NEW i \in 1..Len(o), NEW j \in 1..Len(t) PROVE o[i].date # t[j].date
    <3>1. o[i].date < day /\ t[j].date >= day /\ o[i].date \in Int /\ t[j].date \in Int
      BY <1>1, <1>2, <2>2, <2>3
    <3> QED BY <3>1
  <2> QED BY <2>4, <2>5 DEF Apart
<1>6. ~ PositionState(s, code).open /\ PositionState(s, code).cost = 0
  BY <1>1, <1>3, NothingLeft DEF R
<1>7. ~ PositionState(o, code).open /\ PositionState(o, code).cost = 0
  BY <1>2, <1>3, NothingLeft DEF R
<1>8. Alike(PositionState(s, code), PositionState(o, code))
  BY <1>3, <1>6, <1>7 DEF Alike
<1>9. Alike(PositionState(s \o t, code), PositionState(o \o t, code))
  BY <1>1, <1>2, <1>5, <1>8, RunsOn DEF R
<1> QED BY <1>1, <1>2, <1>9

\* A self-contained batch of earlier days changes no holding of the eve.
LEMMA EveQty ==
  ASSUME NEW es \in SUBSET Entry, Distinct(es), NEW new \in SUBSET Entry, Distinct(es \union new),
         es \intersect new = {}, NEW rows, NEW S, NEW f, Renames(f, S, new, rows, RowOf), NEW code,
         QtyOf(S, rows, code, 0),
         PositionState(OrderedLedger(es, <<>>), code).ok,
         PositionState(OrderedLedger(es \union new, <<>>), code).ok
  PROVE  PositionState(OrderedLedger(es \union new, <<>>), code).qty = PositionState(OrderedLedger(es, <<>>), code).qty
<1> DEFINE q == PositionState(OrderedLedger(es, <<>>), code).qty
           z == PositionState(OrderedLedger(es \union new, <<>>), code).qty
           all == es \union new
<1>1. QtyOf(es, RowOf, code, q)
  BY EntriesQty DEF Distinct
<1>2. QtyOf(all, RowOf, code, z)
  <2>1. all \in SUBSET Entry /\ Distinct(all) /\ PositionState(OrderedLedger(all, <<>>), code).ok
    OBVIOUS
  <2>2. z = PositionState(OrderedLedger(all, <<>>), code).qty
    OBVIOUS
  <2> HIDE DEF all, z
  <2> QED BY <2>1, <2>2, EntriesQty DEF Distinct
<1> HIDE DEF q, z
<1>3. \A types \in {Bought, Sold} :
        /\ IsFiniteSet(Units(es, RowOf, code, types)) /\ IsFiniteSet(Units(S, rows, code, types))
  BY <1>1 DEF QtyOf
<1>4. ASSUME NEW types \in {Bought, Sold}
      PROVE  Cardinality(Units(all, RowOf, code, types)) =
               Cardinality(Units(es, RowOf, code, types)) + Cardinality(Units(S, rows, code, types))
  <2>1. /\ IsFiniteSet(Units(new, RowOf, code, types))
        /\ Cardinality(Units(new, RowOf, code, types)) = Cardinality(Units(S, rows, code, types))
    BY <1>3, UnitsRenamed
  <2>2. Cardinality(Units(all, RowOf, code, types)) =
          Cardinality(Units(es, RowOf, code, types)) + Cardinality(Units(new, RowOf, code, types))
    BY <1>3, <2>1, UnitsJoin
  <2> QED BY <2>1, <2>2
<1> DEFINE a(T, r, types) == Cardinality(Units(T, r, code, types))
<1>5. /\ q = a(es, RowOf, Bought) - a(es, RowOf, Sold)
      /\ z = a(all, RowOf, Bought) - a(all, RowOf, Sold)
      /\ 0 = a(S, rows, Bought) - a(S, rows, Sold)
  BY <1>1, <1>2 DEF QtyOf
<1>6. /\ a(es, RowOf, Bought) \in Nat /\ a(es, RowOf, Sold) \in Nat
      /\ a(S, rows, Bought) \in Nat /\ a(S, rows, Sold) \in Nat
  BY <1>3, FS_CardinalityType
<1>7. /\ a(all, RowOf, Bought) = a(es, RowOf, Bought) + a(S, rows, Bought)
      /\ a(all, RowOf, Sold) = a(es, RowOf, Sold) + a(S, rows, Sold)
  BY <1>4
<1> HIDE DEF a, all
<1>8. z = q
  BY <1>5, <1>6, <1>7
<1> QED BY <1>8 DEF z, q

(* A batch of closed histories that lies before the baseline's day, shares   *)
(* no row with the ledger and starts and ends with nothing held leaves every *)
(* current position as it was, whatever the ledger holds and whatever was    *)
(* booked between its preview and its transaction.                           *)
THEOREM OlderHistoryHarmless == Spec => OlderHistoryLeavesPositions
<1> DEFINE Inv == LedgerInv /\ IdsInv /\ LedgerReplays /\ AllChecked
<1>1. ASSUME Inv, Inv', NEW c \in Callers, ApplyHistory(c), NothingHeldBefore(baseline),
             \A i \in DOMAIN task[c].rows : task[c].rows[i].date < baseline,
             Fresh(entries, task[c].rows) = DOMAIN task[c].rows
      PROVE  Positions(entries') = Positions(entries)
  <2> DEFINE rows == task[c].rows
             kind == "historical_closed_statement"
             es == entries
             fs == entries'
             day == baseline
  <2>1. task[c].pc = "applyHistory" /\ fs = Inserted(es, rows, kind)
    BY <1>1 DEF ApplyHistory
  <2>2. rows \in Statements /\ SelfContained(rows)
    BY <1>1, <2>1 DEF AllChecked, Checked
  <2>3. rows \in Seq(Rows)
    BY <2>2, InputAssumption
  <2>4. /\ es \in SUBSET Entry /\ IdsDiffer(es) /\ Accepts(OrderedLedger(es, <<>>))
        /\ fs \in SUBSET Entry /\ IdsDiffer(fs) /\ Accepts(OrderedLedger(fs, <<>>))
    BY <1>1 DEF LedgerInv, LedgerTypeOK, Entry, IdsInv, IdsDiffer, LedgerReplays
  <2>5. day \in Int
    BY <1>1, InputAssumption DEF LedgerInv, LedgerTypeOK, NoDate
  <2>6. \A i \in DOMAIN rows : rows[i].date < day
    BY <1>1
  <2>7. Fresh(es, rows) = DOMAIN rows
    BY <1>1
  <2>8. \A code \in Codes : PositionState(LedgerAsOf(OrderedLedger(es, <<>>), day - 1), code).qty = 0
    BY <1>1 DEF NothingHeldBefore
  <2>9. Positions(es) = Positions(fs) <=> Positions(entries') = Positions(entries)
    OBVIOUS
  <2> HIDE DEF rows, kind, es, fs, day, Inv
  <2>10. PICK new, f, place : AddsAs(es, rows, kind, new, f, place)
    BY <2>3, InsertedAs
  <2>11. fs = es \union new /\ \A i \in DOMAIN rows : f[i].row = rows[i]
    BY <2>1, <2>7, <2>10 DEF AddsAs
  <2>12. new \subseteq Entry
    BY <2>4, <2>11
  <2>13. es \intersect new = {} /\ Renames(f, DOMAIN rows, new, rows, RowOf)
    BY <2>4, <2>7, <2>10, <2>12, NewEntries
  <2>14. \A e \in new : e.row.date < day
    <3>1. \A e \in new : \E i \in DOMAIN rows : f[i] = e
      BY <2>13 DEF Renames
    <3> QED BY <2>6, <2>11, <3>1
  <2> DEFINE a == Early(es, day)
             b == Early(fs, day)
  <2>15. b = a \union new /\ Late(es, day) = Late(fs, day) /\ a \intersect new = {}
    <3>1. \A e \in new : e.row.date \in Int
      BY <2>12, EntryRowType DEF Entry
    <3>2. \A e \in new : ~ (e.row.date >= day)
      BY <2>5, <2>14, <3>1
    <3>3. b = a \union new
      BY <2>11, <2>14 DEF Early
    <3>4. Late(es, day) = Late(fs, day)
      BY <2>11, <3>2 DEF Late
    <3> QED BY <2>13, <3>3, <3>4 DEF Early
  <2>16. /\ Distinct(es) /\ Distinct(fs)
         /\ a \in SUBSET Entry /\ Distinct(a) /\ b \in SUBSET Entry /\ Distinct(b)
    <3>1. a \subseteq es /\ b \subseteq fs
      BY DEF Early
    <3> HIDE DEF a, b
    <3> QED BY <2>4, <3>1, FS_Subset DEF Distinct, IdsDiffer
  <2>17. /\ LedgerAsOf(OrderedLedger(es, <<>>), day - 1) = OrderedLedger(a, <<>>)
         /\ LedgerAsOf(OrderedLedger(fs, <<>>), day - 1) = OrderedLedger(b, <<>>)
    BY <2>4, <2>5, <2>16, EveRows DEF Distinct
  <2>18. Accepts(OrderedLedger(a, <<>>)) /\ Accepts(OrderedLedger(b, <<>>))
    BY <2>4, <2>16, <2>17, EveryDayAccepted
  <2>19. ASSUME NEW code \in Codes
         PROVE  Alike(PositionState(OrderedLedger(es, <<>>), code), PositionState(OrderedLedger(fs, <<>>), code))
    <3>1. PositionState(OrderedLedger(a, <<>>), code).ok /\ PositionState(OrderedLedger(b, <<>>), code).ok
      BY <2>18 DEF Accepts
    <3>2. PositionState(OrderedLedger(a, <<>>), code).qty = 0
      BY <2>8, <2>17
    <3>3. QtyOf(DOMAIN rows, rows, code, 0)
      BY <2>2, <2>3, BatchBalances
    <3> DEFINE S == DOMAIN rows
    <3> HIDE DEF S, a, b
    <3>4. PositionState(OrderedLedger(b, <<>>), code).qty = PositionState(OrderedLedger(a, <<>>), code).qty
      <4>1. Renames(f, S, new, rows, RowOf) /\ QtyOf(S, rows, code, 0)
        BY <2>13, <3>3 DEF S
      <4>2. Distinct(a \union new) /\ PositionState(OrderedLedger(a \union new, <<>>), code).ok
        BY <2>15, <2>16, <3>1
      <4>3. PositionState(OrderedLedger(a \union new, <<>>), code).qty = PositionState(OrderedLedger(a, <<>>), code).qty
        BY <2>12, <2>15, <2>16, <3>1, <4>1, <4>2, EveQty
      <4> QED BY <2>15, <4>3
    <3>5. PositionState(OrderedLedger(b, <<>>), code).qty = 0
      BY <3>2, <3>4
    <3> QED BY <2>4, <2>5, <2>15, <3>1, <3>2, <3>5, SameFromDay DEF a, b
  <2>20. Positions(es) = Positions(fs)
    <3>1. \A code \in Codes :
            LET p == PositionState(OrderedLedger(es, <<>>), code)
                q == PositionState(OrderedLedger(fs, <<>>), code)
            IN <<p.qty, p.cost>> = <<q.qty, q.cost>>
      BY <2>19 DEF Alike
    <3> QED BY <3>1 DEF Positions
  <2> QED BY <2>9, <2>20
<1>2. Inv /\ Inv' => [\A c \in Callers :
          /\ ApplyHistory(c)
          /\ NothingHeldBefore(baseline)
          /\ \A i \in DOMAIN task[c].rows : task[c].rows[i].date < baseline
          /\ Fresh(entries, task[c].rows) = DOMAIN task[c].rows
          => Positions(entries') = Positions(entries)]_vars
  BY <1>1
<1>3. Init => LedgerReplays
  BY EmptyReplays
<1>4. LedgerInv /\ IdsInv /\ LedgerReplays /\ [Next]_vars /\ LedgerInv' /\ IdsInv' => LedgerReplays'
  BY ReplaysStep
<1>5. Spec => []Inv
  BY <1>3, <1>4, LedgerInduction, IdsInduction, PTL DEF Spec, Inv
<1> QED BY <1>2, <1>5, PTL DEF OlderHistoryLeavesPositions

-----------------------------------------------------------------------------
(* The sum of the flows, and the last of the keys. *)

\* The sums over the subsets of S, one element after the other.
Chosen(s) == CHOOSE x \in s : TRUE

FlowSums(S) ==
  CHOOSE f : f = [s \in SUBSET S |->
                    IF s = {} THEN 0 ELSE CashFlow(Chosen(s).row) + f[s \ {Chosen(s)}]]

LEMMA FewerLeft ==
  ASSUME NEW S, IsFiniteSet(S), NEW s \in SUBSET S, s # {}
  PROVE  /\ Chosen(s) \in s /\ s \ {Chosen(s)} \in SUBSET S
         /\ Cardinality(s) \in 1..Cardinality(S)
         /\ Cardinality(s \ {Chosen(s)}) = Cardinality(s) - 1
<1>1. Chosen(s) \in s
  BY DEF Chosen
<1>2. IsFiniteSet(s) /\ Cardinality(s) \in Nat /\ Cardinality(S) \in Nat /\ Cardinality(s) <= Cardinality(S)
  BY FS_Subset, FS_CardinalityType
<1>3. Cardinality(s) # 0
  BY <1>2, FS_EmptySet
<1>4. Cardinality(s \ {Chosen(s)}) = Cardinality(s) - 1
  BY <1>1, <1>2, FS_RemoveElement
<1> QED BY <1>1, <1>2, <1>3, <1>4

LEMMA FlowSumsType ==
  ASSUME NEW S, IsFiniteSet(S), \A x \in S : CashFlow(x.row) \in Int
  PROVE  FlowSums(S) \in [SUBSET S -> Int]
<1> DEFINE N == Cardinality(S)
           Q == [SUBSET S -> Int]
           Next1(h) == [s \in SUBSET S |->
                          IF s = {} THEN 0 ELSE CashFlow(Chosen(s).row) + h[s \ {Chosen(s)}]]
           F == [i \in 1..(N + 1) |-> [h \in Q |-> Next1(h)]]
           zero == [s \in SUBSET S |-> 0]
<1>1. N \in Nat /\ N + 1 \in Nat
  BY FS_CardinalityType
<1>2. ASSUME NEW h \in Q PROVE Next1(h) \in Q
  <2>1. ASSUME NEW s \in SUBSET S, s # {} PROVE CashFlow(Chosen(s).row) + h[s \ {Chosen(s)}] \in Int
    <3>1. CashFlow(Chosen(s).row) \in Int /\ s \ {Chosen(s)} \in SUBSET S
      BY <2>1, FewerLeft
    <3>2. h[s \ {Chosen(s)}] \in Int
      BY <3>1
    <3> QED BY <3>1, <3>2
  <2> QED BY <2>1
<1>3. F \in [1..(N + 1) -> [Q -> Q]] /\ zero \in Q
  <2>1. zero \in Q
    OBVIOUS
  <2> HIDE DEF Q, Next1, zero
  <2> QED BY <1>2, <2>1
<1>4. PICK f \in [0..(N + 1) -> Q] : f[0] = zero /\ \A i \in 1..(N + 1) : f[i] = F[i][f[i - 1]]
  <2> DEFINE M == N + 1
  <2> HIDE DEF F, Q, zero, M
  <2>1. M \in Nat /\ F \in [1..M -> [Q -> Q]] /\ zero \in Q
    BY <1>1, <1>3 DEF M
  <2>2. \E f \in [0..M -> Q] : IsRun(f, M, zero, F)
    BY <2>1, Recursion
  <2> QED BY <2>2 DEF IsRun, M
<1>5. ASSUME NEW i \in 1..(N + 1) PROVE f[i] = Next1(f[i - 1]) /\ f[i - 1] \in Q /\ f[i] \in Q
  <2>1. i - 1 \in 0..(N + 1) /\ i \in 0..(N + 1)
    BY <1>1
  <2>2. f[i - 1] \in Q /\ f[i] \in Q
    BY <1>4, <2>1
  <2> HIDE DEF Q, Next1, N
  <2> QED BY <1>4, <2>2
<1> DEFINE T == {i \in Nat : \A s \in SUBSET S : Cardinality(s) <= i => f[i][s] = f[i + 1][s]}
<1>6. 0 \in T
  <2> SUFFICES ASSUME NEW s \in SUBSET S, Cardinality(s) <= 0 PROVE f[0][s] = f[0 + 1][s]
    OBVIOUS
  <2>1. s = {}
    <3>1. IsFiniteSet(s) /\ Cardinality(s) \in Nat
      BY FS_Subset, FS_CardinalityType
    <3> QED BY <3>1, FS_EmptySet
  <2>2. f[1] = Next1(f[0])
    <3>1. 1 \in 1..(N + 1) /\ 1 - 1 = 0
      <4> HIDE DEF N
      <4> QED BY <1>1
    <3> HIDE DEF Next1, N
    <3> QED BY <1>5, <3>1
  <2>3. f[0][s] = 0
    BY <1>4
  <2>4. f[1][s] = 0
    BY <2>1, <2>2
  <2> QED BY <2>3, <2>4
<1>7. ASSUME NEW i \in 1..N, i - 1 \in T PROVE i \in T
  <2> SUFFICES ASSUME NEW s \in SUBSET S, Cardinality(s) <= i PROVE f[i][s] = f[i + 1][s]
    BY <1>1
  <2>1. f[i] = Next1(f[i - 1]) /\ f[i + 1] = Next1(f[i])
    <3>1. i \in 1..(N + 1) /\ i + 1 \in 1..(N + 1) /\ (i + 1) - 1 = i
      BY <1>1
    <3> HIDE DEF Next1
    <3> QED BY <1>5, <3>1
  <2>2. CASE s = {}
    BY <2>1, <2>2
  <2>3. CASE s # {}
    <3>1. s \ {Chosen(s)} \in SUBSET S /\ Cardinality(s \ {Chosen(s)}) = Cardinality(s) - 1 /\ Cardinality(s) \in 1..N
      BY <2>3, FewerLeft
    <3>2. Cardinality(s \ {Chosen(s)}) <= i - 1
      BY <1>1, <3>1
    <3>3. f[i - 1][s \ {Chosen(s)}] = f[(i - 1) + 1][s \ {Chosen(s)}]
      BY <1>7, <3>1, <3>2
    <3>4. (i - 1) + 1 = i
      BY <1>1
    <3>5. f[i][s] = CashFlow(Chosen(s).row) + f[i - 1][s \ {Chosen(s)}]
      BY <2>1, <2>3
    <3>6. f[i + 1][s] = CashFlow(Chosen(s).row) + f[i][s \ {Chosen(s)}]
      BY <2>1, <2>3
    <3> QED BY <3>3, <3>4, <3>5, <3>6
  <2> QED BY <2>2, <2>3
<1>8. N \in T
  <2>1. N \in 0..N
    BY <1>1
  <2> HIDE DEF T, N
  <2> QED BY <1>1, <1>6, <1>7, <2>1, UpTo
<1> DEFINE g == f[N]
<1>9. g \in Q /\ g = Next1(g)
  <2>1. N + 1 \in 1..(N + 1) /\ (N + 1) - 1 = N
    <3> HIDE DEF N
    <3> QED BY <1>1
  <2>2. f[N + 1] = Next1(f[N]) /\ f[N] \in Q /\ f[N + 1] \in Q
    <3> HIDE DEF Q, Next1, N
    <3> QED BY <1>5, <2>1
  <2>3. ASSUME NEW s \in SUBSET S PROVE f[N][s] = f[N + 1][s]
    <3>1. Cardinality(s) <= N
      BY FS_Subset
    <3> QED BY <1>8, <3>1
  <2> DEFINE a == f[N]
             b == f[N + 1]
  <2>4. a \in Q /\ b \in Q /\ \A s \in SUBSET S : a[s] = b[s]
    BY <2>2, <2>3
  <2> HIDE DEF a, b
  <2>5. a = b
    BY <2>4
  <2> HIDE DEF Q, Next1, N
  <2> QED BY <2>2, <2>5 DEF a, b
<1> HIDE DEF g
<1> DEFINE h == FlowSums(S)
<1>10. h = Next1(h)
  BY <1>9 DEF FlowSums
<1> HIDE DEF h
<1> DEFINE U == {k \in Nat : \A s \in SUBSET S : Cardinality(s) = k => h[s] \in Int}
<1>11. 0 \in U
  <2> SUFFICES ASSUME NEW s \in SUBSET S, Cardinality(s) = 0 PROVE h[s] \in Int
    OBVIOUS
  <2>1. s = {}
    BY FS_Subset, FS_EmptySet
  <2> QED BY <1>10, <2>1
<1>12. ASSUME NEW k \in 1..N, k - 1 \in U PROVE k \in U
  <2> SUFFICES ASSUME NEW s \in SUBSET S, Cardinality(s) = k PROVE h[s] \in Int
    BY <1>1
  <2>1. s # {}
    <3>1. Cardinality({}) = 0 /\ k # 0
      BY <1>1, FS_EmptySet
    <3> QED BY <3>1
  <2>2. Chosen(s) \in s /\ s \ {Chosen(s)} \in SUBSET S /\ Cardinality(s \ {Chosen(s)}) = k - 1
    BY <2>1, FewerLeft
  <2>3. h[s \ {Chosen(s)}] \in Int
    BY <1>12, <2>2
  <2>4. h[s] = CashFlow(Chosen(s).row) + h[s \ {Chosen(s)}]
    BY <1>10, <2>1
  <2>5. CashFlow(Chosen(s).row) \in Int
    BY <2>2
  <2> QED BY <2>3, <2>4, <2>5
<1>13. \A k \in 0..N : k \in U
  <2> HIDE DEF U, N
  <2> QED BY <1>1, <1>11, <1>12, UpTo
<1>14. ASSUME NEW s \in SUBSET S PROVE h[s] \in Int
  <2>1. Cardinality(s) \in 0..N
    <3>1. Cardinality(s) \in Nat /\ Cardinality(s) <= Cardinality(S)
      BY FS_Subset, FS_CardinalityType
    <3> QED BY <1>1, <3>1
  <2> QED BY <1>13, <2>1
<1>15. h = [s \in SUBSET S |-> h[s]]
  BY <1>10
<1> QED BY <1>14, <1>15 DEF h

LEMMA FlowSumType ==
  ASSUME NEW S, IsFiniteSet(S), \A x \in S : CashFlow(x.row) \in Int
  PROVE  MapThenSumSet(LAMBDA e : CashFlow(e.row), S) \in Int
<1>1. MapThenSumSet(LAMBDA e : CashFlow(e.row), S) = FlowSums(S)[S]
  BY DEF MapThenSumSet, MapThenFoldSet, FlowSums, Chosen
<1>2. FlowSums(S) \in [SUBSET S -> Int]
  BY FlowSumsType
<1> QED BY <1>1, <1>2

\* A finite set of numbers has a greatest one.
LEMMA GreatestNumber ==
  ASSUME NEW S \in SUBSET Nat, IsFiniteSet(S), S # {}
  PROVE  Max(S) \in S /\ \A y \in S : Max(S) >= y
<1> DEFINE up(x) == {y \in S : y > x}
           C == {Cardinality(up(x)) : x \in S}
<1>1. \A x \in S : IsFiniteSet(up(x)) /\ Cardinality(up(x)) \in Nat
  BY FS_Subset, FS_CardinalityType
<1>2. PICK m \in C : \A k \in C : m <= k
  <2>1. C \in SUBSET Nat /\ C # {}
    BY <1>1
  <2> HIDE DEF C
  <2> QED BY <2>1, LeastNumber
<1>3. PICK x \in S : m = Cardinality(up(x))
  OBVIOUS
<1>4. ASSUME NEW y \in S, y > x PROVE FALSE
  <2>1. up(y) \subseteq up(x) /\ y \in up(x) /\ y \notin up(y)
    <3>1. x \in Nat /\ y \in Nat /\ \A z \in S : z \in Nat
      OBVIOUS
    <3>2. \A z \in S : z > y => z > x
      BY <1>4, <3>1
    <3>3. y \in up(x)
      BY <1>4
    <3>4. y \notin up(y)
      BY <3>1
    <3>5. up(y) \subseteq up(x)
      BY <3>2
    <3> HIDE DEF up
    <3> QED BY <3>3, <3>4, <3>5
  <2>2. Cardinality(up(y)) <= Cardinality(up(x)) /\ Cardinality(up(y)) # Cardinality(up(x))
    <3> HIDE DEF up
    <3> QED BY <1>1, <2>1, FS_Subset
  <2>3. Cardinality(up(x)) <= Cardinality(up(y))
    BY <1>2, <1>3
  <2> HIDE DEF up
  <2> QED BY <1>1, <2>2, <2>3
<1>5. x \in S /\ \A y \in S : x >= y
  BY <1>4
<1> QED BY <1>5 DEF Max

\* Of finitely many keys that differ, one is the last.
LEMMA NewestLast ==
  ASSUME NEW D, IsFiniteSet(D), D # {}, NEW n \in Nat, NEW key, DOMAIN key = D,
         \A i \in D : key[i] \in [1..n -> Int], \A i, j \in D : key[i] = key[j] => i = j
  PROVE  Newest(key) \in D /\ \A j \in D \ {Newest(key)} : LexLess(key[j], key[Newest(key)])
<1> DEFINE lt == {xy \in D \X D : LexLess(key[xy[1]], key[xy[2]])}
           N == Cardinality(D)
<1>0. \A x, y \in D : <<x, y>> \in lt <=> LexLess(key[x], key[y])
  OBVIOUS
<1> HIDE DEF lt
<1>1. \A x \in D : <<x, x>> \notin lt
  BY <1>0, LexOrder
<1>2. \A x, y \in D : x # y => <<x, y>> \in lt \/ <<y, x>> \in lt
  <2> SUFFICES ASSUME NEW x \in D, NEW y \in D, x # y PROVE <<x, y>> \in lt \/ <<y, x>> \in lt
    OBVIOUS
  <2> DEFINE a == key[x]  b == key[y]
  <2>1. a \in [1..n -> Int] /\ b \in [1..n -> Int] /\ a # b
    OBVIOUS
  <2> HIDE DEF a, b
  <2>2. LexLess(a, b) \/ LexLess(b, a)
    BY <2>1, LexOrder
  <2> QED BY <1>0, <2>2 DEF a, b
<1>3. \A x, y, z \in D : <<x, y>> \in lt /\ <<y, z>> \in lt => <<x, z>> \in lt
  <2> SUFFICES ASSUME NEW x \in D, NEW y \in D, NEW z \in D, <<x, y>> \in lt, <<y, z>> \in lt
               PROVE  <<x, z>> \in lt
    OBVIOUS
  <2> DEFINE a == key[x]  b == key[y]  c == key[z]
  <2>1. a \in [1..n -> Int] /\ b \in [1..n -> Int] /\ c \in [1..n -> Int]
    OBVIOUS
  <2>2. LexLess(a, b) /\ LexLess(b, c)
    BY <1>0
  <2> HIDE DEF a, b, c
  <2>3. LexLess(a, c)
    BY <2>1, <2>2, LexOrder
  <2> QED BY <1>0, <2>3 DEF a, c
<1>4. StrictOrder(D, lt)
  BY <1>1, <1>2, <1>3 DEF StrictOrder
<1>5. PICK place \in Bijection(D, 1..N) :
         \A x, y \in D : <<x, y>> \in lt <=> place[x] < place[y]
  BY <1>4, Ranking
<1>6. N \in Nat /\ N # 0
  BY FS_CardinalityType, FS_EmptySet
<1> HIDE DEF N
<1>7. \A x \in D : place[x] \in 1..N
  BY <1>5 DEF Bijection, Surjection
<1>8. PICK i \in D : place[i] = N
  <2>1. N \in 1..N
    BY <1>6
  <2> QED BY <1>5, <2>1 DEF Bijection, Surjection
<1>9. \A j \in D \ {i} : LexLess(key[j], key[i])
  <2> SUFFICES ASSUME NEW j \in D, j # i PROVE LexLess(key[j], key[i])
    OBVIOUS
  <2>1. place[j] \in 1..N /\ place[j] # N
    BY <1>5, <1>7, <1>8 DEF Bijection, Injection, IsInjective
  <2>2. place[j] < place[i]
    BY <1>6, <1>8, <2>1
  <2> QED BY <1>0, <1>5, <2>2
<1>10. \E k \in DOMAIN key : \A j \in DOMAIN key \ {k} : LexLess(key[j], key[k])
  BY <1>9
<1> QED BY <1>10 DEF Newest

LEMMA ThreeKey ==
  ASSUME NEW a \in Int, NEW b \in Int, NEW c \in Int, NEW d \in Int, NEW e \in Int, NEW f \in Int
  PROVE  << a, b, c >> \in [1..3 -> Int] /\ (<< a, b, c >> = << d, e, f >> => c = f)
OBVIOUS

LEMMA ByDateKey ==
  ASSUME NEW cs \in Seq(Snapshots), NEW i \in DOMAIN cs, NEW j \in DOMAIN cs
  PROVE  ByDate(cs, i) \in [1..3 -> Int] /\ (ByDate(cs, i) = ByDate(cs, j) => i = j)
<1>1. i \in Int /\ j \in Int /\ cs[i] \in Snapshots /\ cs[j] \in Snapshots
  OBVIOUS
<1>2. cs[i].asOf \in Int /\ cs[i].at \in Int /\ cs[j].asOf \in Int /\ cs[j].at \in Int
  <2>1. 0..MaxClock \subseteq Int
    OBVIOUS
  <2> QED BY <1>1, <2>1 DEF Snapshots
<1> DEFINE a == cs[i].asOf  b == cs[i].at  c == cs[j].asOf  d == cs[j].at
<1>3. a \in Int /\ b \in Int /\ c \in Int /\ d \in Int
  BY <1>2
<1>4. ByDate(cs, i) = << a, b, i >> /\ ByDate(cs, j) = << c, d, j >>
  BY DEF ByDate
<1> HIDE DEF a, b, c, d
<1> QED BY <1>1, <1>3, <1>4, ThreeKey

\* The anchor of a projection is the last of the confirmed balances.
LEMMA AnchorNewest ==
  ASSUME NEW cs \in Seq(Snapshots), NEW D, D # {}, D \subseteq DOMAIN cs,
         NEW a, a = Newest([i \in D |-> ByDate(cs, i)])
  PROVE  a \in D /\ \A j \in D \ {a} : LexLess(ByDate(cs, j), ByDate(cs, a))
<1> DEFINE key == [i \in D |-> ByDate(cs, i)]
<1>1. IsFiniteSet(D)
  BY PlacesFinite
<1>2. DOMAIN key = D /\ \A i \in D : key[i] = ByDate(cs, i)
  OBVIOUS
<1>3. a = Newest(key)
  OBVIOUS
<1> HIDE DEF key
<1>4. \A i \in D : key[i] \in [1..3 -> Int]
  BY <1>2, ByDateKey
<1>5. \A i, j \in D : key[i] = key[j] => i = j
  BY <1>2, ByDateKey
<1>6. 3 \in Nat
  OBVIOUS
<1>7. Newest(key) \in D /\ \A j \in D \ {Newest(key)} : LexLess(key[j], key[Newest(key)])
  BY <1>1, <1>2, <1>4, <1>5, <1>6, NewestLast
<1> QED BY <1>2, <1>3, <1>7

LEMMA CashFlowType == ASSUME NEW row \in Rows PROVE CashFlow(row) \in Int
<1>1. row.amount \in Int
  BY DEF Rows
<1> QED BY <1>1 DEF CashFlow

\* What the projection writes, when it writes.
LEMMA ProjectionIs ==
  ASSUME NEW es \in SUBSET Entry, IsFiniteSet(es), NEW cs \in Seq(Snapshots), NEW now \in 0..MaxClock,
         NEW p, p = CashProjection(es, cs, now), p # <<>>
  PROVE  \E s \in Snapshots, a \in ByUser(cs) :
           /\ p = <<s>> /\ s.source = "statement_calculated" /\ s.at = now
           /\ \A j \in ByUser(cs) \ {a} : LexLess(ByDate(cs, j), ByDate(cs, a))
           /\ AfterAnchor(es, cs[a].asOf) # {}
           /\ \E e \in AfterAnchor(es, cs[a].asOf) : s.asOf = e.row.date
           /\ \A e \in AfterAnchor(es, cs[a].asOf) : e.row.date <= s.asOf
<1> DEFINE a == Newest([i \in ByUser(cs) |-> ByDate(cs, i)])
           flows == AfterAnchor(es, cs[a].asOf)
           sum == MapThenSumSet(LAMBDA e : CashFlow(e.row), flows)
           amount == cs[a].amount + sum
           dates == {e.row.date : e \in flows}
           s == [asOf |-> Max(dates), amount |-> amount,
                 source |-> "statement_calculated", at |-> now,
                 anchor |-> a, rows |-> Booking(flows)]
<1>1. ByUser(cs) # {} /\ flows # {} /\ ~ (amount < 0) /\ p = <<s>>
  BY Zenon DEF CashProjection
<1>2. ByUser(cs) \subseteq DOMAIN cs
  BY DEF ByUser
<1>3. a \in ByUser(cs) /\ \A j \in ByUser(cs) \ {a} : LexLess(ByDate(cs, j), ByDate(cs, a))
  <2>1. a = Newest([i \in ByUser(cs) |-> ByDate(cs, i)])
    OBVIOUS
  <2> HIDE DEF a
  <2> QED BY <1>1, <1>2, <2>1, AnchorNewest
<1> HIDE DEF a
<1>4. a \in Nat /\ cs[a].amount \in Nat
  <2>1. a \in DOMAIN cs
    BY <1>2, <1>3
  <2>2. a \in Nat /\ cs[a] \in Snapshots
    BY <2>1
  <2> QED BY <2>2 DEF Snapshots
<1>5. flows \subseteq es /\ IsFiniteSet(flows) /\ \A e \in flows : e.row \in Rows
  <2>1. flows \subseteq es
    BY DEF AfterAnchor
  <2>2. \A e \in es : e.row \in Rows
    BY DEF Entry
  <2> QED BY <2>1, <2>2, FS_Subset
<1>6. dates \subseteq Nat /\ IsFiniteSet(dates) /\ dates # {}
  <2> HIDE DEF flows
  <2>1. \A e \in flows : e.row.date \in Nat
    BY <1>5, InputAssumption DEF Rows
  <2>2. [e \in flows |-> e.row.date] \in Surjection(flows, dates)
    BY DEF Surjection
  <2> HIDE DEF dates
  <2>3. IsFiniteSet(dates)
    BY <1>5, <2>2, FS_Surjection
  <2> QED BY <1>1, <2>1, <2>3 DEF dates
<1>7. Max(dates) \in dates /\ \A d \in dates : Max(dates) >= d
  <2> HIDE DEF dates
  <2> QED BY <1>6, GreatestNumber
<1>8. sum \in Int
  <2> HIDE DEF flows
  <2>1. \A e \in flows : CashFlow(e.row) \in Int
    BY <1>5, CashFlowType
  <2> QED BY <1>5, <2>1, FlowSumType
<1> HIDE DEF sum
<1>9. amount \in Nat
  BY <1>1, <1>4, <1>8
<1>10. Booking(flows) \in SUBSET Rows
  <2> HIDE DEF flows
  <2> QED BY <1>5 DEF Booking
<1> DEFINE top == Max(dates)
<1>11. top \in Nat /\ (\E e \in flows : top = e.row.date) /\ (\A e \in flows : e.row.date <= top)
  <2>1. top \in dates /\ \A d \in dates : d <= top
    <3> HIDE DEF dates
    <3> QED BY <1>6, <1>7
  <2>2. top \in Nat
    <3> HIDE DEF dates
    <3> QED BY <1>6, <2>1
  <2> HIDE DEF top, flows
  <2> QED BY <2>1, <2>2
<1> HIDE DEF top, amount, flows
<1>12. s \in Snapshots /\ s.asOf = top /\ s.source = "statement_calculated" /\ s.at = now
  <2>1. s = [asOf |-> top, amount |-> amount, source |-> "statement_calculated", at |-> now,
             anchor |-> a, rows |-> Booking(flows)]
    BY DEF top
  <2> HIDE DEF s
  <2> QED BY <1>4, <1>9, <1>10, <1>11, <2>1 DEF Snapshots
<1> HIDE DEF s
<1> QED BY <1>1, <1>3, <1>11, <1>12 DEF flows

LEMMA LexLess2 ==
  ASSUME NEW a \in Int, NEW b \in Int, NEW d \in Int, NEW e \in Int
  PROVE  LexLess(<< a, b >>, << d, e >>) <=> (a < d \/ (a = d /\ b < e))
<1>1. LexLess(<< a, b >>, << d, e >>)
        <=> \E i \in 1..2 : << a, b >>[i] < << d, e >>[i]
                            /\ \A j \in 1..(i - 1) : << a, b >>[j] = << d, e >>[j]
  BY DEF LexLess
<1> DEFINE s == << a, b >>  t == << d, e >>
<1>2. s[1] = a /\ s[2] = b /\ t[1] = d /\ t[2] = e
  OBVIOUS
<1>3. LexLess(s, t) <=> \E i \in 1..2 : s[i] < t[i] /\ \A j \in 1..(i - 1) : s[j] = t[j]
  BY <1>1
<1> HIDE DEF s, t
<1>4. 1..(1 - 1) = {} /\ 1..(2 - 1) = {1} /\ 1..2 = {1, 2}
  OBVIOUS
<1>5. LexLess(s, t) <=> (s[1] < t[1] \/ (s[2] < t[2] /\ s[1] = t[1]))
  BY <1>3, <1>4
<1>6. LexLess(s, t) <=> (a < d \/ (a = d /\ b < e))
  BY <1>2, <1>5
<1> QED BY <1>6 DEF s, t

LEMMA LexLess3 ==
  ASSUME NEW a \in Int, NEW b \in Int, NEW c \in Int, NEW d \in Int, NEW e \in Int, NEW f \in Int
  PROVE  LexLess(<< a, b, c >>, << d, e, f >>)
           <=> (a < d \/ (a = d /\ b < e) \/ (a = d /\ b = e /\ c < f))
<1>1. LexLess(<< a, b, c >>, << d, e, f >>)
        <=> \E i \in 1..3 : << a, b, c >>[i] < << d, e, f >>[i]
                            /\ \A j \in 1..(i - 1) : << a, b, c >>[j] = << d, e, f >>[j]
  BY DEF LexLess
<1> DEFINE s == << a, b, c >>  t == << d, e, f >>
<1>2. s[1] = a /\ s[2] = b /\ s[3] = c /\ t[1] = d /\ t[2] = e /\ t[3] = f
  OBVIOUS
<1>3. LexLess(s, t) <=> \E i \in 1..3 : s[i] < t[i] /\ \A j \in 1..(i - 1) : s[j] = t[j]
  BY <1>1
<1> HIDE DEF s, t
<1>4. 1..(1 - 1) = {} /\ 1..(2 - 1) = {1} /\ 1..(3 - 1) = {1, 2} /\ 1..3 = {1, 2, 3}
  OBVIOUS
<1>5. LexLess(s, t) <=> (s[1] < t[1] \/ (s[2] < t[2] /\ s[1] = t[1])
                          \/ (s[3] < t[3] /\ s[1] = t[1] /\ s[2] = t[2]))
  BY <1>3, <1>4
<1>6. LexLess(s, t) <=> (a < d \/ (a = d /\ b < e) \/ (a = d /\ b = e /\ c < f))
  BY <1>2, <1>5
<1> QED BY <1>6 DEF s, t

\* The order of what a reader is shown.
LEMMA ByDateOrder ==
  ASSUME NEW cs \in Seq(Snapshots), NEW i \in DOMAIN cs, NEW j \in DOMAIN cs
  PROVE  LexLess(ByDate(cs, j), ByDate(cs, i))
           <=> \/ cs[j].asOf < cs[i].asOf
               \/ cs[j].asOf = cs[i].asOf /\ cs[j].at < cs[i].at
               \/ cs[j].asOf = cs[i].asOf /\ cs[j].at = cs[i].at /\ j < i
<1>1. i \in Int /\ j \in Int /\ cs[i] \in Snapshots /\ cs[j] \in Snapshots
  OBVIOUS
<1>2. cs[i].asOf \in Int /\ cs[i].at \in Int /\ cs[j].asOf \in Int /\ cs[j].at \in Int
  <2>1. 0..MaxClock \subseteq Int
    OBVIOUS
  <2> QED BY <1>1, <2>1 DEF Snapshots
<1> DEFINE a == cs[i].asOf  b == cs[i].at  c == cs[j].asOf  d == cs[j].at
<1>3. a \in Int /\ b \in Int /\ c \in Int /\ d \in Int
  BY <1>2
<1>4. ByDate(cs, i) = << a, b, i >> /\ ByDate(cs, j) = << c, d, j >>
  BY DEF ByDate
<1>5. LexLess(<< c, d, j >>, << a, b, i >>)
        <=> (c < a \/ (c = a /\ d < b) \/ (c = a /\ d = b /\ j < i))
  <2> HIDE DEF a, b, c, d
  <2> QED BY <1>1, <1>3, LexLess3
<1> QED BY <1>4, <1>5

\* The last one is what is shown.
LEMMA ShownIs ==
  ASSUME NEW cs \in Seq(Snapshots), NEW k \in DOMAIN cs,
         \A j \in DOMAIN cs \ {k} : LexLess(ByDate(cs, j), ByDate(cs, k))
  PROVE  Shown(cs) = cs[k]
<1> DEFINE D == DOMAIN cs
           n == Newest([i \in D |-> ByDate(cs, i)])
<1>1. n \in D /\ \A j \in D \ {n} : LexLess(ByDate(cs, j), ByDate(cs, n))
  <2>1. n = Newest([i \in D |-> ByDate(cs, i)]) /\ D # {} /\ D \subseteq DOMAIN cs
    OBVIOUS
  <2> HIDE DEF n, D
  <2> QED BY <2>1, AnchorNewest
<1>2. Shown(cs) = cs[n]
  BY DEF Shown
<1> HIDE DEF n
<1>3. ASSUME n # k PROVE FALSE
  <2>1. LexLess(ByDate(cs, n), ByDate(cs, k)) /\ LexLess(ByDate(cs, k), ByDate(cs, n))
    BY <1>1, <1>3
  <2> DEFINE a == ByDate(cs, n)  b == ByDate(cs, k)
  <2>2. a \in [1..3 -> Int] /\ b \in [1..3 -> Int]
    BY <1>1, ByDateKey
  <2> HIDE DEF a, b
  <2>3. LexLess(a, b) /\ LexLess(b, a) /\ 3 \in Nat
    BY <2>1 DEF a, b
  <2> QED BY <2>2, <2>3, LexOrder
<1> QED BY <1>2, <1>3

\* Of the calculated snapshots, by the second they were calculated in.
LEMMA LastCalculated ==
  ASSUME NEW cs \in Seq(Snapshots), ByStatement(cs) # {},
         NEW k, k = Newest([i \in ByStatement(cs) |-> <<cs[i].at, i>>])
  PROVE  /\ k \in ByStatement(cs)
         /\ \A j \in ByStatement(cs) \ {k} : cs[j].at < cs[k].at \/ (cs[j].at = cs[k].at /\ j < k)
<1> DEFINE D == ByStatement(cs)
           key == [i \in D |-> <<cs[i].at, i>>]
<1>1. D \subseteq DOMAIN cs
  BY DEF ByStatement
<1> HIDE DEF D
<1>2. IsFiniteSet(D)
  BY <1>1, PlacesFinite
<1>3. \A i \in D : i \in Int /\ cs[i].at \in Int
  <2>1. 0..MaxClock \subseteq Int
    OBVIOUS
  <2>2. \A i \in D : i \in Int /\ cs[i] \in Snapshots
    BY <1>1, PlacesFinite
  <2> QED BY <2>1, <2>2 DEF Snapshots
<1>4. \A i \in D : key[i] \in [1..2 -> Int]
  <2> SUFFICES ASSUME NEW i \in D PROVE key[i] \in [1..2 -> Int]
    OBVIOUS
  <2> DEFINE b == cs[i].at
  <2>1. b \in Int /\ i \in Int /\ key[i] = << b, i >>
    BY <1>3
  <2> HIDE DEF b, key
  <2>2. << b, i >> \in [1..2 -> Int]
    BY <2>1
  <2> QED BY <2>1, <2>2
<1>5. \A i, j \in D : key[i] = key[j] => i = j
  OBVIOUS
<1>6. DOMAIN key = D /\ 2 \in Nat
  OBVIOUS
<1>7. k = Newest(key) /\ D # {}
  BY DEF D
<1>8. \A i, j \in D : LexLess(key[j], key[i]) => cs[j].at < cs[i].at \/ (cs[j].at = cs[i].at /\ j < i)
  <2> SUFFICES ASSUME NEW i \in D, NEW j \in D, LexLess(key[j], key[i])
               PROVE  cs[j].at < cs[i].at \/ (cs[j].at = cs[i].at /\ j < i)
    OBVIOUS
  <2> DEFINE b == cs[i].at  d == cs[j].at
  <2>1. b \in Int /\ i \in Int /\ d \in Int /\ j \in Int
    BY <1>3
  <2>2. LexLess(<< d, j >>, << b, i >>)
    OBVIOUS
  <2> HIDE DEF b, d, key
  <2>3. d < b \/ (d = b /\ j < i)
    BY <2>1, <2>2, LexLess2
  <2> QED BY <2>3 DEF b, d
<1> HIDE DEF key
<1>9. Newest(key) \in D /\ \A j \in D \ {Newest(key)} : LexLess(key[j], key[Newest(key)])
  BY <1>2, <1>4, <1>5, <1>6, <1>7, NewestLast
<1> QED BY <1>7, <1>8, <1>9 DEF D

-----------------------------------------------------------------------------
(* Cash. *)

\* No snapshot is of the future, and none that was calculated of a day after the
\* last flow of the ledger.
Known(s) ==
  /\ s.at <= clock
  /\ s.source = "statement_calculated" =>
       \E e \in entries : e.row.type \in FlowTypes /\ s.asOf <= e.row.date

KnownSnapshots == {s \in Snapshots : Known(s)}

CashInv == cash \in Seq(KnownSnapshots) /\ draft \in [Callers -> Seq(KnownSnapshots)]

\* What is known stays known.
LEMMA KnownGrows ==
  ASSUME LedgerInv, LedgerInv', entries \subseteq entries', clock' = clock \/ clock' = clock + 1
  PROVE  KnownSnapshots \subseteq KnownSnapshots'
<1>1. clock \in Int /\ clock' \in Int /\ clock <= clock'
  BY InputAssumption DEF LedgerInv, LedgerTypeOK
<1> SUFFICES ASSUME NEW s \in Snapshots, Known(s) PROVE Known(s)'
  BY DEF KnownSnapshots
<1>2. s.at \in Int
  <2>1. 0..MaxClock \subseteq Int
    OBVIOUS
  <2> QED BY <2>1 DEF Snapshots
<1>3. s.at <= clock'
  BY <1>1, <1>2 DEF Known
<1>4. s.source = "statement_calculated" =>
        \E e \in entries' : e.row.type \in FlowTypes /\ s.asOf <= e.row.date
  BY DEF Known
<1> QED BY <1>3, <1>4 DEF Known

\* What a projection writes is known.
LEMMA ProjectionKnown ==
  ASSUME LedgerInv, IdsInv, cash \in Seq(Snapshots),
         NEW p, p = CashProjection(entries, cash, clock), p # <<>>
  PROVE  \E s \in KnownSnapshots : p = <<s>>
<1>1. entries \in SUBSET Entry /\ IsFiniteSet(entries) /\ clock \in 0..MaxClock
  BY DEF LedgerInv, LedgerTypeOK, IdsInv, IdsDiffer, Entry
<1>2. PICK s \in Snapshots : \E a \in ByUser(cash) :
           /\ p = <<s>> /\ s.source = "statement_calculated" /\ s.at = clock
           /\ \E e \in AfterAnchor(entries, cash[a].asOf) : s.asOf = e.row.date
  BY <1>1, ProjectionIs
<1>3. PICK a \in ByUser(cash) : \E e \in AfterAnchor(entries, cash[a].asOf) : s.asOf = e.row.date
  BY <1>2
<1>4. PICK e \in AfterAnchor(entries, cash[a].asOf) : s.asOf = e.row.date
  BY <1>3
<1>5. e \in entries /\ e.row.type \in FlowTypes
  BY DEF AfterAnchor
<1>6. s.asOf \in Int /\ clock \in Int
  BY <1>1, InputAssumption DEF Snapshots
<1>7. Known(s)
  BY <1>2, <1>4, <1>5, <1>6 DEF Known
<1> QED BY <1>2, <1>7 DEF KnownSnapshots

\* The same for the entries that a booking leaves.
LEMMA BookingKnown ==
  ASSUME LedgerInv', IdsInv', cash \in Seq(Snapshots), UNCHANGED clock,
         NEW p, p = CashProjection(entries', cash, clock), p # <<>>
  PROVE  \E s \in KnownSnapshots' : p = <<s>>
<1>1. entries' \in SUBSET Entry /\ IsFiniteSet(entries') /\ clock \in 0..MaxClock
  BY DEF LedgerInv, LedgerTypeOK, IdsInv, IdsDiffer, Entry
<1>2. PICK s \in Snapshots : \E a \in ByUser(cash) :
           /\ p = <<s>> /\ s.source = "statement_calculated" /\ s.at = clock
           /\ \E e \in AfterAnchor(entries', cash[a].asOf) : s.asOf = e.row.date
  BY <1>1, ProjectionIs
<1>3. PICK a \in ByUser(cash) : \E e \in AfterAnchor(entries', cash[a].asOf) : s.asOf = e.row.date
  BY <1>2
<1>4. PICK e \in AfterAnchor(entries', cash[a].asOf) : s.asOf = e.row.date
  BY <1>3
<1>5. e \in entries' /\ e.row.type \in FlowTypes
  BY DEF AfterAnchor
<1>6. s.asOf \in Int /\ clock \in Int
  BY <1>1, InputAssumption DEF Snapshots
<1>7. Known(s)'
  BY <1>2, <1>4, <1>5, <1>6 DEF Known
<1> QED BY <1>2, <1>7 DEF KnownSnapshots

LEMMA CashStep ==
  LedgerInv /\ IdsInv /\ CashInv /\ [Next]_vars /\ LedgerInv' /\ IdsInv' => CashInv'
<1> SUFFICES ASSUME LedgerInv, IdsInv, CashInv, [Next]_vars, LedgerInv', IdsInv' PROVE CashInv'
  OBVIOUS
<1> DEFINE K == KnownSnapshots
           L == KnownSnapshots'
<1>1. K \subseteq L
  <2>1. entries \subseteq entries' /\ (clock' = clock \/ clock' = clock + 1)
    BY DEF vars, Next, CheckStatement, CheckHistory, CheckOpening, RecordCostAnchor, DateCash,
       PreviewStatement, PreviewHistory, Previewed, ApplyStatement, ApplyHistory, ApplyRefused,
       ApplyOpening, OpeningRefused, ProjectCash, InsertCash, Tick, Inserted
  <2> QED BY <2>1, KnownGrows
<1>2. cash \in Seq(L) /\ draft \in [Callers -> Seq(L)] /\ cash \in Seq(Snapshots)
  <2>1. Seq(K) \subseteq Seq(L)
    BY <1>1, SeqGrows
  <2>2. Seq(K) \subseteq Seq(Snapshots)
    <3>1. K \subseteq Snapshots
      BY DEF KnownSnapshots
    <3> QED BY <3>1, SeqGrows
  <2> QED BY <2>1, <2>2 DEF CashInv
<1>3. CashInv' <=> cash' \in Seq(L) /\ draft' \in [Callers -> Seq(L)]
  BY DEF CashInv
<1>c. clock \in 0..MaxClock /\ clock \in Int
  BY InputAssumption DEF LedgerInv, LedgerTypeOK
<1>4. ASSUME NEW c \in Callers, ApplyStatement(c) PROVE CashInv'
  <2> DEFINE p == CashProjection(entries', cash, clock)
  <2>1. cash' = WithSnapshot(cash, p) /\ UNCHANGED <<draft, clock>>
    BY <1>4 DEF ApplyStatement
  <2>2. p # <<>> => \E s \in L : p = <<s>>
    <3>1. p = CashProjection(entries', cash, clock)
      OBVIOUS
    <3> HIDE DEF p
    <3> QED BY <1>2, <2>1, <3>1, BookingKnown
  <2> HIDE DEF p, L
  <2>3. cash' = cash \/ (p # <<>> /\ cash' = cash \o p)
    BY <2>1, Zenon DEF WithSnapshot
  <2>4. CASE cash' = cash
    BY <1>2, <1>3, <2>1, <2>4
  <2>5. CASE p # <<>> /\ cash' = cash \o p
    <3>1. PICK s \in L : p = <<s>>
      BY <2>2, <2>5
    <3>2. p \in Seq(L)
      BY <3>1
    <3>3. cash \o p \in Seq(L)
      BY <1>2, <3>2
    <3> QED BY <1>2, <1>3, <2>1, <2>5, <3>3
  <2> QED BY <2>3, <2>4, <2>5
<1>5. ASSUME NEW c \in Callers, NEW s \in L, UNCHANGED cash, draft' = [draft EXCEPT ![c] = <<s>>]
      PROVE  CashInv'
  <2> HIDE DEF L
  <2>1. <<s>> \in Seq(L)
    OBVIOUS
  <2>2. draft' \in [Callers -> Seq(L)]
    BY <1>2, <1>5, <2>1
  <2> QED BY <1>2, <1>3, <1>5, <2>2
<1>6. ASSUME NEW c \in Callers, NEW b \in Balances, DateCash(c, b) PROVE CashInv'
  <2> DEFINE s == [asOf |-> b.asOf, amount |-> b.amount, source |-> "user_provided", at |-> clock,
                   anchor |-> 0, rows |-> {}]
  <2>1. UNCHANGED cash /\ draft' = [draft EXCEPT ![c] = <<s>>]
    BY <1>6 DEF DateCash
  <2>2. s \in Snapshots
    BY <1>c, InputAssumption DEF Snapshots
  <2>3. Known(s)
    BY <1>c DEF Known
  <2>4. s \in L
    <3> HIDE DEF s
    <3>1. s \in K
      BY <2>2, <2>3 DEF KnownSnapshots
    <3> HIDE DEF K, L
    <3> QED BY <1>1, <3>1
  <2> HIDE DEF s, L
  <2> QED BY <1>5, <2>1, <2>4
<1>7. ASSUME NEW c \in Callers, ProjectCash(c) PROVE CashInv'
  <2> DEFINE p == CashProjection(entries, cash, clock)
  <2>1. p # <<>> /\ UNCHANGED cash /\ draft' = [draft EXCEPT ![c] = p]
    BY <1>7 DEF ProjectCash
  <2>2. \E s \in K : p = <<s>>
    <3>1. p = CashProjection(entries, cash, clock)
      OBVIOUS
    <3> HIDE DEF p
    <3> QED BY <1>2, <2>1, <3>1, ProjectionKnown
  <2> HIDE DEF p, L, K
  <2>3. PICK s \in L : p = <<s>>
    BY <1>1, <2>2
  <2> QED BY <1>5, <2>1, <2>3
<1>8. ASSUME NEW c \in Callers, InsertCash(c) PROVE CashInv'
  <2> HIDE DEF L
  <2>1. draft[c] \in Seq(L) /\ <<>> \in Seq(L)
    BY <1>2
  <2>2. cash' = cash \o draft[c] /\ draft' = [draft EXCEPT ![c] = <<>>]
    BY <1>8 DEF InsertCash
  <2>3. cash' \in Seq(L)
    BY <1>2, <2>1, <2>2
  <2>4. draft' \in [Callers -> Seq(L)]
    BY <1>2, <2>1, <2>2
  <2> QED BY <1>3, <2>3, <2>4
<1>9. CASE UNCHANGED <<cash, draft>>
  <2> HIDE DEF L
  <2> QED BY <1>2, <1>3, <1>9
<1>10. UNCHANGED <<cash, draft>>
         \/ \E c \in Callers : ApplyStatement(c) \/ ProjectCash(c) \/ InsertCash(c)
                               \/ \E b \in Balances : DateCash(c, b)
  BY DEF vars, Next, CheckStatement, CheckHistory, CheckOpening, RecordCostAnchor,
     PreviewStatement, PreviewHistory, Previewed, ApplyHistory, ApplyRefused,
     ApplyOpening, OpeningRefused, Tick
<1> QED BY <1>4, <1>6, <1>7, <1>8, <1>9, <1>10

LEMMA CashInduction == Spec => [](LedgerInv /\ IdsInv /\ CashInv)
<1>1. Init => CashInv
  BY DEF Init, CashInv
<1> QED BY <1>1, CashStep, IdsInduction, PTL DEF Spec

(* Every variable has its type; among the rest, no snapshot of cash is ever  *)
(* negative, whichever statements were booked and balances confirmed.        *)
THEOREM CashTyped == Spec => []TypeOK
<1>1. LedgerInv /\ CashInv => TypeOK
  <2> SUFFICES ASSUME LedgerInv, CashInv PROVE TypeOK
    OBVIOUS
  <2>1. KnownSnapshots \subseteq Snapshots
    BY DEF KnownSnapshots
  <2>2. Seq(KnownSnapshots) \subseteq Seq(Snapshots)
    BY <2>1, SeqGrows
  <2> QED BY <2>2 DEF TypeOK, LedgerInv, CashInv, CashTypeOK
<1> QED BY <1>1, CashInduction, PTL

LEMMA StatementShown ==
  ASSUME LedgerInv, IdsInv, CashInv, LedgerInv', IdsInv', CashInv',
         NEW c \in Callers, ApplyStatement(c),
         NEW due, due = CashProjection(entries', cash, clock), due # <<>>
  PROVE  SameSnapshot(Shown(cash'), due[1])
<1>1. entries' \in SUBSET Entry /\ IsFiniteSet(entries') /\ clock \in 0..MaxClock /\ clock \in Int
  BY InputAssumption DEF LedgerInv, LedgerTypeOK, IdsInv, IdsDiffer, Entry
<1>2. cash \in Seq(Snapshots) /\ cash' \in Seq(Snapshots)
  <2>1. KnownSnapshots \subseteq Snapshots /\ KnownSnapshots' \subseteq Snapshots
    BY DEF KnownSnapshots
  <2>2. Seq(KnownSnapshots) \subseteq Seq(Snapshots) /\ Seq(KnownSnapshots') \subseteq Seq(Snapshots)
    BY <2>1, SeqGrows
  <2> QED BY <2>2 DEF CashInv
<1>3. PICK s \in Snapshots : \E a \in ByUser(cash) :
           /\ due = <<s>> /\ s.source = "statement_calculated" /\ s.at = clock
           /\ \A j \in ByUser(cash) \ {a} : LexLess(ByDate(cash, j), ByDate(cash, a))
           /\ \E e \in AfterAnchor(entries', cash[a].asOf) : s.asOf = e.row.date
           /\ \A e \in AfterAnchor(entries', cash[a].asOf) : e.row.date <= s.asOf
  BY <1>1, <1>2, ProjectionIs
<1>4. PICK a \in ByUser(cash) :
           /\ \A j \in ByUser(cash) \ {a} : LexLess(ByDate(cash, j), ByDate(cash, a))
           /\ \E e \in AfterAnchor(entries', cash[a].asOf) : s.asOf = e.row.date
           /\ \A e \in AfterAnchor(entries', cash[a].asOf) : e.row.date <= s.asOf
  BY <1>3
<1>d. due = <<s>> /\ due[1] = s /\ s.source = "statement_calculated" /\ s.at = clock
  BY <1>3
<1>e. \A e \in entries' : e.row.date \in Int
  <2>1. \A e \in entries' : e.row \in Rows
    BY <1>1 DEF Entry
  <2>2. \A row \in Rows : row.date \in Int
    BY EntryRowType
  <2> QED BY <2>1, <2>2
<1>f. /\ s.asOf \in Int
      /\ \A j \in DOMAIN cash : /\ cash[j].asOf \in Int /\ cash[j].at \in Int
                                /\ cash[j].source \in {"user_provided", "statement_calculated"}
  <2>1. 0..MaxClock \subseteq Int
    OBVIOUS
  <2>2. \A j \in DOMAIN cash : cash[j] \in Snapshots
    BY <1>2
  <2> QED BY <2>1, <2>2 DEF Snapshots
<1>5. a \in DOMAIN cash /\ cash[a].asOf < s.asOf
  <2>1. a \in DOMAIN cash
    BY DEF ByUser
  <2>2. PICK e \in AfterAnchor(entries', cash[a].asOf) : s.asOf = e.row.date
    BY <1>4
  <2>3. e \in entries' /\ e.row.date > cash[a].asOf
    BY DEF AfterAnchor
  <2> QED BY <1>e, <1>f, <2>1, <2>2, <2>3
\* Confirmed balances are of earlier days.
<1>6. ASSUME NEW j \in ByUser(cash) PROVE cash[j].asOf < s.asOf
  <2>1. j \in DOMAIN cash
    BY DEF ByUser
  <2>2. CASE j = a
    BY <1>5, <2>2
  <2>3. CASE j # a
    <3>1. LexLess(ByDate(cash, j), ByDate(cash, a))
      BY <1>4, <2>3
    <3>2. cash[j].asOf < cash[a].asOf \/ cash[j].asOf = cash[a].asOf
      BY <1>2, <1>5, <2>1, <3>1, ByDateOrder
    <3> QED BY <1>5, <1>f, <2>1, <3>2
  <2> QED BY <2>2, <2>3
\* Calculated ones are not of later days.
<1>7. ASSUME NEW j \in ByStatement(cash) PROVE cash[j].asOf <= s.asOf
  <2>1. j \in DOMAIN cash /\ cash[j].source = "statement_calculated"
    BY DEF ByStatement
  <2>2. cash[j] \in KnownSnapshots
    BY <2>1 DEF CashInv
  <2>3. PICK e \in entries : e.row.type \in FlowTypes /\ cash[j].asOf <= e.row.date
    BY <2>1, <2>2 DEF KnownSnapshots, Known
  <2>4. e \in entries'
    BY DEF ApplyStatement, Inserted
  <2>5. CASE e.row.date > cash[a].asOf
    <3>1. e \in AfterAnchor(entries', cash[a].asOf)
      BY <2>3, <2>4, <2>5 DEF AfterAnchor
    <3>2. e.row.date <= s.asOf
      BY <1>4, <3>1
    <3> QED BY <1>e, <1>f, <2>1, <2>3, <2>4, <3>2
  <2>6. CASE ~ (e.row.date > cash[a].asOf)
    BY <1>5, <1>e, <1>f, <2>1, <2>3, <2>4, <2>6
  <2> QED BY <2>5, <2>6
<1>8. ASSUME NEW j \in DOMAIN cash
      PROVE  /\ cash[j].asOf < s.asOf \/ (j \in ByStatement(cash) /\ cash[j].asOf = s.asOf)
             /\ cash[j].at <= clock
  <2>1. j \in ByUser(cash) \/ j \in ByStatement(cash)
    BY <1>f DEF ByUser, ByStatement
  <2>2. cash[j].at <= clock
    <3>1. cash[j] \in KnownSnapshots
      BY DEF CashInv
    <3> QED BY <3>1 DEF KnownSnapshots, Known
  <2> QED BY <1>6, <1>7, <1>f, <2>1, <2>2
<1>9. cash' = IF Unchanged(cash, due) THEN cash ELSE cash \o due
  BY Zenon DEF ApplyStatement, WithSnapshot
<1>10. CASE Unchanged(cash, due)
  <2> DEFINE k == Newest([i \in ByStatement(cash) |-> <<cash[i].at, i>>])
  <2>1. ByStatement(cash) # {} /\ SameSnapshot(cash[k], s)
    BY <1>10, <1>d DEF Unchanged
  <2>2. /\ k \in ByStatement(cash)
        /\ \A j \in ByStatement(cash) \ {k} :
             cash[j].at < cash[k].at \/ (cash[j].at = cash[k].at /\ j < k)
    <3>1. k = Newest([i \in ByStatement(cash) |-> <<cash[i].at, i>>])
      OBVIOUS
    <3> HIDE DEF k
    <3> QED BY <1>2, <2>1, <3>1, LastCalculated
  <2> HIDE DEF k
  <2>3. k \in DOMAIN cash /\ cash[k].asOf = s.asOf
    BY <2>1, <2>2 DEF ByStatement, SameSnapshot
  <2>4. ASSUME NEW j \in DOMAIN cash \ {k} PROVE LexLess(ByDate(cash, j), ByDate(cash, k))
    <3>1. cash[j].asOf < cash[k].asOf
          \/ (cash[j].asOf = cash[k].asOf /\ (cash[j].at < cash[k].at \/ (cash[j].at = cash[k].at /\ j < k)))
      BY <1>8, <2>2, <2>3
    <3> QED BY <1>2, <2>3, <3>1, ByDateOrder
  <2>5. Shown(cash) = cash[k]
    BY <1>2, <2>3, <2>4, ShownIs
  <2>6. cash' = cash
    BY <1>9, <1>10
  <2> QED BY <1>d, <2>1, <2>5, <2>6
<1>11. CASE ~ Unchanged(cash, due)
  <2> DEFINE k == Len(cash) + 1
             more == cash \o <<s>>
  <2>1. cash' = more
    BY <1>9, <1>11, <1>d
  <2>2. /\ DOMAIN more = DOMAIN cash \union {k} /\ more[k] = s
        /\ \A j \in DOMAIN cash : more[j] = cash[j] /\ j < k
    BY <1>2
  <2>3. more \in Seq(Snapshots)
    BY <1>2, <2>1
  <2> HIDE DEF more
  <2>4. ASSUME NEW j \in DOMAIN more \ {k} PROVE LexLess(ByDate(more, j), ByDate(more, k))
    <3>1. j \in DOMAIN cash /\ k \in DOMAIN more /\ j \in DOMAIN more
      BY <2>2
    <3>2. more[j] = cash[j] /\ j < k /\ more[k].asOf = s.asOf /\ more[k].at = clock
      BY <1>d, <2>2, <3>1
    <3>3. (cash[j].asOf < s.asOf \/ cash[j].asOf = s.asOf) /\ (cash[j].at < clock \/ cash[j].at = clock)
      BY <1>8, <1>f, <1>1, <3>1
    <3>4. \/ more[j].asOf < more[k].asOf
          \/ more[j].asOf = more[k].asOf /\ more[j].at < more[k].at
          \/ more[j].asOf = more[k].asOf /\ more[j].at = more[k].at /\ j < k
      BY <3>2, <3>3
    <3> HIDE DEF k
    <3> QED BY <2>3, <3>1, <3>4, ByDateOrder
  <2>5. Shown(more) = s
    <3>1. k \in DOMAIN more
      BY <2>2
    <3> HIDE DEF k
    <3> QED BY <2>2, <2>3, <2>4, <3>1, ShownIs
  <2>6. SameSnapshot(s, s)
    BY DEF SameSnapshot
  <2> QED BY <1>d, <2>1, <2>5, <2>6
<1> QED BY <1>10, <1>11

(* After a statement is booked, the balance that is shown is the one its     *)
(* ledger calls for, whichever balances were confirmed or calculated before  *)
(* and in whichever second.                                                  *)
THEOREM StatementCashShown == Spec => StatementShowsCash
<1>1. (LedgerInv /\ IdsInv /\ CashInv) /\ (LedgerInv /\ IdsInv /\ CashInv)' /\ [Next]_vars =>
        [\A c \in Callers :
           ApplyStatement(c) =>
             LET due == CashProjection(entries', cash, clock)
             IN due # <<>> => SameSnapshot(Shown(cash'), due[1])]_vars
  BY StatementShown
<1> QED BY <1>1, CashInduction, PTL DEF Spec, StatementShowsCash

-----------------------------------------------------------------------------
(* A replay of one security depends on its own rows and their order only.   *)

\* The rows of one security, among all that are sorted.
OwnKeyed(keyed, code) == {x \in keyed : x.row.code = code}

LEMMA OwnPart ==
  ASSUME NEW R, NEW all, Keyed(all, R), NEW code
  PROVE  /\ Keyed(OwnKeyed(all, code), R)
         /\ \E g : OwnRows(SortedRows(OwnKeyed(all, code)), SortedRows(all), code, g)
<1> DEFINE part == OwnKeyed(all, code)
           N == Cardinality(all)
           M == Cardinality(part)
           long == SortedRows(all)
           short == SortedRows(part)
<1>0. part \subseteq all /\ \A x \in all : x \in part <=> x.row.code = code
  BY DEF OwnKeyed
<1>1. Keyed(part, R)
  <2> HIDE DEF part
  <2> QED BY <1>0, SortedPart
<1>2. PICK a : /\ IsSorting(a, all) /\ N \in Nat /\ Len(long) = N
               /\ \A n \in 1..N : long[n] = a[n].row
  BY Sorting
<1>3. PICK b : /\ IsSorting(b, part) /\ M \in Nat /\ Len(short) = M
               /\ \A n \in 1..M : short[n] = b[n].row
  BY <1>1, Sorting
<1>4. /\ a \in [1..N -> all] /\ \A x \in all : \E n \in 1..N : a[n] = x
      /\ \A m, n \in 1..N : LexLess(a[m].key, a[n].key) <=> m < n
  BY <1>2 DEF IsSorting
<1>5. /\ b \in [1..M -> part] /\ \A x \in part : \E n \in 1..M : b[n] = x
      /\ \A m, n \in 1..M : LexLess(b[m].key, b[n].key) <=> m < n
  BY <1>3 DEF IsSorting
<1>6. Len(short) = M /\ Len(long) = N
  BY <1>2, <1>3
<1> HIDE DEF N, M, long, short, part
<1> DEFINE g == [i \in 0..M |-> IF i = 0 THEN 0 ELSE CHOOSE n \in 1..N : a[n] = b[i]]
<1>7. ASSUME NEW i \in 1..M PROVE g[i] \in 1..N /\ a[g[i]] = b[i] /\ b[i] \in part
  <2>1. b[i] \in part /\ b[i] \in all
    BY <1>0, <1>5
  <2>2. \E n \in 1..N : a[n] = b[i]
    BY <1>4, <2>1
  <2>3. g[i] = CHOOSE n \in 1..N : a[n] = b[i]
    BY <1>3
  <2> QED BY <2>1, <2>2, <2>3
<1>8. g[0] = 0
  BY <1>3
<1>9. g = [i \in 0..M |-> g[i]]
  OBVIOUS
<1> HIDE DEF g
<1>10. g \in [0..M -> 0..N]
  <2>1. ASSUME NEW i \in 0..M PROVE g[i] \in 0..N
    <3>1. CASE i = 0
      BY <1>2, <1>8, <3>1
    <3>2. CASE i # 0
      <4>1. i \in 1..M
        BY <1>3, <3>2
      <4>2. g[i] \in 1..N
        BY <1>7, <4>1
      <4> QED BY <1>2, <4>2
    <3> QED BY <3>1, <3>2
  <2> QED BY <1>9, <2>1
<1>11. ASSUME NEW i \in 1..M, NEW k \in 1..M PROVE i < k <=> g[i] < g[k]
  <2>1. g[i] \in 1..N /\ g[k] \in 1..N /\ a[g[i]] = b[i] /\ a[g[k]] = b[k]
    BY <1>7
  <2>2. LexLess(a[g[i]].key, a[g[k]].key) <=> g[i] < g[k]
    BY <1>4, <2>1
  <2>3. LexLess(b[i].key, b[k].key) <=> i < k
    BY <1>5
  <2> QED BY <2>1, <2>2, <2>3
<1>12. ASSUME NEW i \in 1..M
       PROVE  g[i] \in 1..N /\ short[i] = long[g[i]] /\ short[i].code = code
  <2>1. short[i] = b[i].row /\ g[i] \in 1..N /\ a[g[i]] = b[i] /\ b[i] \in part
    BY <1>3, <1>7
  <2>2. long[g[i]] = a[g[i]].row
    BY <1>2, <2>1
  <2> QED BY <1>0, <2>1, <2>2
<1>13. ASSUME NEW j \in 1..N, long[j].code = code PROVE \E i \in 1..M : g[i] = j
  <2>1. long[j] = a[j].row /\ a[j] \in all
    BY <1>2, <1>4
  <2>2. a[j] \in part
    BY <1>0, <1>13, <2>1
  <2>3. PICK i \in 1..M : b[i] = a[j]
    BY <1>5, <2>2
  <2>4. g[i] \in 1..N /\ a[g[i]] = a[j]
    BY <1>7, <2>3
  <2>5. ~ (g[i] < j) /\ ~ (j < g[i])
    <3>1. ~ LexLess(a[j].key, a[j].key)
      BY <1>2, <1>4
    <3> QED BY <1>4, <2>4, <3>1
  <2>6. g[i] = j
    BY <1>2, <2>4, <2>5
  <2> QED BY <2>6
<1>14. OwnRows(short, long, code, g)
  BY <1>6, <1>8, <1>10, <1>11, <1>12, <1>13 DEF OwnRows
<1> QED BY <1>1, <1>14 DEF short, long, part

\* The rows of two sets one by one, in the same order in both.
Pairs(Q, keyed, others) ==
  /\ \A q \in Q : q[1] \in keyed /\ q[2] \in others /\ q[1].row = q[2].row
  /\ \A x \in keyed : \E q \in Q : q[1] = x
  /\ \A y \in others : \E q \in Q : q[2] = y
  /\ \A p, q \in Q : LexLess(p[1].key, q[1].key) <=> LexLess(p[2].key, q[2].key)

\* Sets that are alike in their rows and their order are sorted alike.
LEMMA SameSorting ==
  ASSUME NEW R, NEW keyed, Keyed(keyed, R), NEW others, Keyed(others, R),
         NEW Q, Pairs(Q, keyed, others)
  PROVE  SortedRows(keyed) = SortedRows(others)
<1> DEFINE h == [x \in keyed |-> (CHOOSE q \in Q : q[1] = x)[2]]
           lt == {xy \in others \X others : LexLess(xy[1].key, xy[2].key)}
           s == SortedRows(keyed)
           t == SortedRows(others)
<1>1. /\ \A q \in Q : q[1] \in keyed /\ q[2] \in others /\ q[1].row = q[2].row
      /\ \A x \in keyed : \E q \in Q : q[1] = x
      /\ \A y \in others : \E q \in Q : q[2] = y
      /\ \A p, q \in Q : LexLess(p[1].key, q[1].key) <=> LexLess(p[2].key, q[2].key)
  BY DEF Pairs
<1>2. ASSUME NEW x \in keyed PROVE \E q \in Q : q[1] = x /\ q[2] = h[x]
  <2>1. \E q \in Q : q[1] = x
    BY <1>1
  <2> DEFINE q == CHOOSE z \in Q : z[1] = x
  <2>2. q \in Q /\ q[1] = x
    BY <2>1
  <2>3. h[x] = q[2]
    OBVIOUS
  <2> QED BY <2>2, <2>3
<1>3. h = [x \in keyed |-> h[x]]
  OBVIOUS
<1> HIDE DEF h
<1>4. \A x \in keyed : h[x] \in others /\ h[x].row = x.row
  BY <1>1, <1>2
<1>5. \A x, y \in keyed : LexLess(x.key, y.key) <=> LexLess(h[x].key, h[y].key)
  BY <1>1, <1>2
<1>6. \A x, y \in others : x # y => LexLess(x.key, y.key) \/ LexLess(y.key, x.key)
  <2>1. StrictOrder(others, lt)
    BY DEF Keyed
  <2>2. \A x, y \in others : <<x, y>> \in lt <=> LexLess(x.key, y.key)
    OBVIOUS
  <2> HIDE DEF lt
  <2> QED BY <2>1, <2>2 DEF StrictOrder
<1>7. \A x, y \in keyed : x # y => LexLess(x.key, y.key) \/ LexLess(y.key, x.key)
  <2> DEFINE l == {xy \in keyed \X keyed : LexLess(xy[1].key, xy[2].key)}
  <2>1. StrictOrder(keyed, l)
    BY DEF Keyed
  <2>2. \A x, y \in keyed : <<x, y>> \in l <=> LexLess(x.key, y.key)
    OBVIOUS
  <2> HIDE DEF l
  <2> QED BY <2>1, <2>2 DEF StrictOrder
<1>8. (\A x \in keyed : ~ LexLess(x.key, x.key)) /\ (\A x \in others : ~ LexLess(x.key, x.key))
  <2>1. ASSUME NEW K, Keyed(K, R) PROVE \A x \in K : ~ LexLess(x.key, x.key)
    <3> DEFINE l == {xy \in K \X K : LexLess(xy[1].key, xy[2].key)}
    <3>1. StrictOrder(K, l)
      BY <2>1 DEF Keyed
    <3>2. \A x \in K : <<x, x>> \in l <=> LexLess(x.key, x.key)
      OBVIOUS
    <3> HIDE DEF l
    <3> QED BY <3>1, <3>2 DEF StrictOrder
  <2> QED BY <2>1
<1>9. \A x, y \in keyed : h[x] = h[y] => x = y
  BY <1>4, <1>5, <1>7, <1>8
<1>10. \A y \in others : \E x \in keyed : h[x] = y
  <2> SUFFICES ASSUME NEW y \in others PROVE \E x \in keyed : h[x] = y
    OBVIOUS
  <2>1. PICK p \in Q : p[2] = y
    BY <1>1
  <2>2. PICK q \in Q : q[1] = p[1] /\ q[2] = h[p[1]]
    BY <1>1, <1>2
  <2>3. ~ LexLess(p[1].key, q[1].key) /\ ~ LexLess(q[1].key, p[1].key) /\ p[1] \in keyed /\ q[2] \in others
    BY <1>1, <1>8, <2>2
  <2>4. ~ LexLess(p[2].key, q[2].key) /\ ~ LexLess(q[2].key, p[2].key)
    BY <1>1, <2>3
  <2>5. p[2] = q[2]
    BY <1>6, <2>1, <2>3, <2>4
  <2> QED BY <2>1, <2>2, <2>3, <2>5
<1>11. PICK a : /\ IsRanking(a, keyed) /\ Cardinality(keyed) \in Nat
                /\ s \in Seq(R) /\ Len(s) = Cardinality(keyed)
                /\ \A n \in 1..Cardinality(keyed) : s[n] = a[n].row
  BY Rankings
<1>12. PICK b : /\ IsRanking(b, others) /\ Cardinality(others) \in Nat
                /\ t \in Seq(R) /\ Len(t) = Cardinality(others)
                /\ \A n \in 1..Cardinality(others) : t[n] = b[n].row
  BY Rankings
<1>13. IsFiniteSet(keyed)
  BY DEF Keyed
<1> HIDE DEF lt, s, t
\* an initial part of the one is as large as that of the other
<1>14. ASSUME NEW A \in SUBSET keyed, NEW B \in SUBSET others, \A x \in keyed : x \in A <=> h[x] \in B
       PROVE  Cardinality(A) = Cardinality(B)
  <2> DEFINE k == [x \in A |-> h[x]]
  <2>1. k \in [A -> B] /\ (\A y \in B : \E x \in A : k[x] = y) /\ (\A x, y \in A : k[x] = k[y] => x = y)
    BY <1>9, <1>10, <1>14
  <2> HIDE DEF k
  <2>2. k \in Surjection(A, B) /\ k \in Injection(A, B)
    BY <2>1 DEF Surjection, Injection, IsInjective
  <2>3. IsFiniteSet(A)
    BY <1>13, FS_Subset
  <2> QED BY <2>2, <2>3, FS_Surjection
<1>15. Cardinality(keyed) = Cardinality(others)
  BY <1>4, <1>14
<1>16. ASSUME NEW n \in 1..Cardinality(keyed) PROVE s[n] = t[n]
  <2> DEFINE x == a[n]
             A == {y \in keyed : LexLess(y.key, x.key)}
             B == {y \in others : LexLess(y.key, h[x].key)}
  <2>1. x \in keyed /\ Cardinality(A) + 1 = n
    BY <1>11 DEF IsRanking, IsSorting
  <2>2. s[n] = x.row
    BY <1>11
  <2> HIDE DEF x
  <2>3. \A y \in keyed : y \in A <=> h[y] \in B
    BY <1>4, <1>5, <2>1
  <2>4. A \in SUBSET keyed /\ B \in SUBSET others
    OBVIOUS
  <2> DEFINE c == Cardinality(B)
  <2>5. Cardinality(A) = c
    <3> HIDE DEF A, B
    <3> QED BY <1>14, <2>3, <2>4
  <2>6. PICK m \in 1..Cardinality(others) : b[m] = h[x]
    BY <1>4, <1>12, <2>1 DEF IsRanking, IsSorting
  <2>7. c + 1 = m
    BY <1>12, <2>6 DEF IsRanking
  <2>8. m = n
    <3> HIDE DEF A, c
    <3> QED BY <2>1, <2>5, <2>7
  <2> QED BY <1>4, <1>12, <2>1, <2>2, <2>6, <2>8
<1>17. s = t
  BY <1>11, <1>12, <1>15, <1>16, SeqEqual
<1> QED BY <1>17 DEF s, t

\* Two sorted ledgers that are alike in the rows of a security and in their
\* order replay that security alike.
LEMMA SameReplay ==
  ASSUME NEW codes, NEW keyed, Keyed(keyed, LedgerRow(codes)),
         NEW others, Keyed(others, LedgerRow(codes)), NEW code,
         NEW Q, Pairs(Q, OwnKeyed(keyed, code), OwnKeyed(others, code))
  PROVE  PositionState(SortedRows(keyed), code) = PositionState(SortedRows(others), code)
<1> DEFINE R == LedgerRow(codes)
           s == SortedRows(OwnKeyed(keyed, code))
           t == SortedRows(OwnKeyed(others, code))
<1> HIDE DEF R
<1>0. Keyed(keyed, R) /\ Keyed(others, R)
  BY DEF R
<1>1. Keyed(OwnKeyed(keyed, code), R) /\ Keyed(OwnKeyed(others, code), R)
  BY <1>0, OwnPart
<1>2. SortedRows(keyed) \in Seq(R) /\ SortedRows(others) \in Seq(R) /\ s \in Seq(R) /\ t \in Seq(R)
  BY <1>0, <1>1, Sorting
<1>3. s = t
  BY <1>1, SameSorting
<1>4. PICK g : OwnRows(s, SortedRows(keyed), code, g)
  BY <1>0, OwnPart
<1>5. PICK g2 : OwnRows(t, SortedRows(others), code, g2)
  BY <1>0, OwnPart
<1> HIDE DEF s, t
<1>6. PositionState(s, code) = PositionState(SortedRows(keyed), code)
  BY <1>2, <1>4, OwnReplay DEF R
<1>7. PositionState(t, code) = PositionState(SortedRows(others), code)
  BY <1>2, <1>5, OwnReplay DEF R
<1> QED BY <1>3, <1>6, <1>7

-----------------------------------------------------------------------------
(* The keys of a ledger and of a preview, part by part.                     *)

\* The five parts of a sort key.
Parts(u, a, b, c, d, e) ==
  u \in [1..5 -> Int] /\ u[1] = a /\ u[2] = b /\ u[3] = c /\ u[4] = d /\ u[5] = e

LEMMA FivePartsJoined ==
  ASSUME NEW a \in Int, NEW b \in Int, NEW c \in Int, NEW d \in Int, NEW e \in Int
  PROVE  Parts(<< a, b, c >> \o << d, e >>, a, b, c, d, e) /\ Parts(<< a, b, c, d, e >>, a, b, c, d, e)
<1> DEFINE s == << a, b, c >>
           t == << d, e >>
           u == s \o t
<1>1. /\ s \in Seq(Int) /\ t \in Seq(Int) /\ Len(s) = 3 /\ Len(t) = 2
      /\ s[1] = a /\ s[2] = b /\ s[3] = c /\ t[1] = d /\ t[2] = e
  OBVIOUS
<1>0. Parts(<< a, b, c, d, e >>, a, b, c, d, e)
  BY DEF Parts
<1> HIDE DEF s, t
<1>2. /\ u \in Seq(Int) /\ Len(u) = Len(s) + Len(t)
      /\ \A i \in 1..(Len(s) + Len(t)) : u[i] = IF i <= Len(s) THEN s[i] ELSE t[i - Len(s)]
  BY <1>1, ConcatProperties, Zenon
<1>4. u \in [1..5 -> Int]
  BY <1>1, KeyJoined, Zenon
<1> HIDE DEF u
<1>3. u \in Seq(Int) /\ Len(u) = 5 /\ \A i \in 1..5 : u[i] = IF i <= 3 THEN s[i] ELSE t[i - 3]
  BY <1>1, <1>2
<1>5. u[1] = s[1] /\ u[2] = s[2] /\ u[3] = s[3] /\ u[4] = t[4 - 3] /\ u[5] = t[5 - 3]
  <2>1. /\ u[1] = IF 1 <= 3 THEN s[1] ELSE t[1 - 3]
        /\ u[2] = IF 2 <= 3 THEN s[2] ELSE t[2 - 3]
        /\ u[3] = IF 3 <= 3 THEN s[3] ELSE t[3 - 3]
        /\ u[4] = IF 4 <= 3 THEN s[4] ELSE t[4 - 3]
        /\ u[5] = IF 5 <= 3 THEN s[5] ELSE t[5 - 3]
    BY <1>3
  <2> QED BY <2>1
<1>6. 4 - 3 = 1 /\ 5 - 3 = 2
  OBVIOUS
<1>7. Parts(u, a, b, c, d, e)
  BY <1>1, <1>4, <1>5, <1>6 DEF Parts
<1> QED BY <1>0, <1>7 DEF u, s, t

\* Keys that differ in their first three parts are ordered by these.
LEMMA LexHead ==
  ASSUME NEW a \in [1..5 -> Int], NEW b \in [1..5 -> Int], NEW c \in [1..5 -> Int], NEW d \in [1..5 -> Int],
         \A i \in 1..3 : a[i] = c[i] /\ b[i] = d[i], ~ (\A i \in 1..3 : a[i] = b[i]), LexLess(a, b)
  PROVE  LexLess(c, d)
<1>1. PICK i \in 1..5 : a[i] < b[i] /\ \A j \in 1..(i - 1) : a[j] = b[j]
  BY DEF LexLess
<1>2. i \in 1..3
  <2> SUFFICES ASSUME i > 3 PROVE FALSE
    OBVIOUS
  <2>1. \A j \in 1..3 : j \in 1..(i - 1)
    OBVIOUS
  <2> QED BY <1>1, <2>1
<1>3. c[i] < d[i] /\ \A j \in 1..(i - 1) : c[j] = d[j]
  <2>1. \A j \in 1..(i - 1) : j \in 1..3
    BY <1>2
  <2> QED BY <1>1, <1>2, <2>1
<1> QED BY <1>2, <1>3 DEF LexLess

LEMMA LexAlike ==
  ASSUME NEW a \in [1..5 -> Int], NEW b \in [1..5 -> Int], NEW c \in [1..5 -> Int], NEW d \in [1..5 -> Int],
         \A i \in 1..3 : a[i] = c[i] /\ b[i] = d[i],
         (\A i \in 1..3 : a[i] = b[i]) => (LexLess(a, b) <=> LexLess(c, d))
  PROVE  LexLess(a, b) <=> LexLess(c, d)
<1>1. CASE \A i \in 1..3 : a[i] = b[i]
  BY <1>1
<1>2. CASE ~ (\A i \in 1..3 : a[i] = b[i])
  <2>1. LexLess(a, b) => LexLess(c, d)
    BY <1>2, LexHead
  <2>2. ~ (\A i \in 1..3 : c[i] = d[i]) /\ \A i \in 1..3 : c[i] = a[i] /\ d[i] = b[i]
    BY <1>2
  <2>3. LexLess(c, d) => LexLess(a, b)
    BY <2>2, LexHead
  <2> QED BY <2>1, <2>3
<1> QED BY <1>1, <1>2

\* Keys with the same first three parts are ordered by the last two.
LEMMA LexTie ==
  ASSUME NEW a \in [1..5 -> Int], NEW b \in [1..5 -> Int], \A i \in 1..3 : a[i] = b[i]
  PROVE  LexLess(a, b) <=> a[4] < b[4] \/ (a[4] = b[4] /\ a[5] < b[5])
<1>1. ASSUME LexLess(a, b) PROVE a[4] < b[4] \/ (a[4] = b[4] /\ a[5] < b[5])
  <2>1. PICK i \in 1..5 : a[i] < b[i] /\ \A j \in 1..(i - 1) : a[j] = b[j]
    BY <1>1 DEF LexLess
  <2>2. i \notin 1..3
    BY <2>1
  <2>3. i = 4 \/ i = 5
    BY <2>2
  <2>4. i = 5 => 4 \in 1..(i - 1)
    OBVIOUS
  <2> QED BY <2>1, <2>3, <2>4
<1>2. ASSUME a[4] < b[4] PROVE LexLess(a, b)
  <2>1. \A j \in 1..(4 - 1) : a[j] = b[j]
    OBVIOUS
  <2>2. 4 \in DOMAIN a
    OBVIOUS
  <2> QED BY <1>2, <2>1, <2>2 DEF LexLess
<1>3. ASSUME a[4] = b[4], a[5] < b[5] PROVE LexLess(a, b)
  <2>1. \A j \in 1..(5 - 1) : j \in 1..3 \/ j = 4
    OBVIOUS
  <2>2. \A j \in 1..(5 - 1) : a[j] = b[j]
    BY <1>3, <2>1
  <2>3. 5 \in DOMAIN a
    OBVIOUS
  <2> QED BY <1>3, <2>2, <2>3 DEF LexLess
<1> QED BY <1>1, <1>2, <1>3

\* Among ids with as many digits, the order of the texts is that of the numbers.
LEMMA TextOrder ==
  ASSUME NEW m \in Nat, NEW n \in Nat, Digits(m) = Digits(n)
  PROVE  (AsText(m)[1] < AsText(n)[1] \/ (AsText(m)[1] = AsText(n)[1] /\ AsText(m)[2] < AsText(n)[2])) <=> m < n
<1> DEFINE p == Powers[IdDigits + 1 - Digits(n)]
           d == Digits(n)
<1>1. p \in {1, 10, 100, 1000, 10000} /\ d \in Int
  BY DigitsType
<1>2. AsText(m)[1] = m * p /\ AsText(n)[1] = n * p /\ AsText(m)[2] = d /\ AsText(n)[2] = d
  BY DEF AsText
<1> HIDE DEF p, d
<1>3. m * p < n * p <=> m < n
  <2>1. CASE p = 1
    BY <2>1
  <2>2. CASE p = 10
    BY <2>2
  <2>3. CASE p = 100
    BY <2>3
  <2>4. CASE p = 1000
    BY <2>4
  <2>5. CASE p = 10000
    BY <2>5
  <2> QED BY <1>1, <2>1, <2>2, <2>3, <2>4, <2>5
<1> QED BY <1>1, <1>2, <1>3

LEMMA ImageFinite ==
  ASSUME NEW S, IsFiniteSet(S), NEW f
  PROVE  IsFiniteSet({f[x] : x \in S})
<1> DEFINE T == {f[x] : x \in S}
           g == [x \in S |-> f[x]]
<1>1. g \in [S -> T] /\ \A y \in T : \E x \in S : g[x] = y
  OBVIOUS
<1> HIDE DEF g, T
<1>2. g \in Surjection(S, T)
  BY <1>1 DEF Surjection
<1>3. IsFiniteSet(T)
  BY <1>2, FS_Surjection
<1> QED BY <1>3 DEF T

\* A row with its sort key.
KeyOf(x, row, c, d, e) == x.row = row /\ Parts(x.key, row.date, row.time, c, d, e)

\* What a preview sorts: an entry by its id as a number, a row of the batch by its line.
Numbered(e) == [key |-> <<e.row.date, e.row.time, 0>> \o << e.id, 0 >>, row |-> e.row]
Numbers(es) == {Numbered(e) : e \in es}
Lined(rows, i) == [key |-> << rows[i].date, rows[i].time, 0, i + 1, 1 >>, row |-> rows[i]]

LEMMA JoinedKey ==
  ASSUME NEW row \in Rows, NEW p \in Int, NEW q \in Int, NEW x,
         x = [key |-> <<row.date, row.time, 0>> \o << p, q >>, row |-> row]
  PROVE  KeyOf(x, row, 0, p, q)
<1>1. row.date \in Int /\ row.time \in Int
  BY EntryRowType
<1> DEFINE d == row.date  t == row.time
<1>2. x.key = <<d, t, 0>> \o << p, q >> /\ x.row = row
  OBVIOUS
<1>3. d \in Int /\ t \in Int /\ 0 \in Int
  BY <1>1
<1> HIDE DEF d, t
<1>4. Parts(<<d, t, 0>> \o << p, q >>, d, t, 0, p, q)
  BY <1>3, FivePartsJoined
<1>5. Parts(x.key, d, t, 0, p, q)
  BY <1>2, <1>4, Zenon
<1> QED BY <1>2, <1>5 DEF KeyOf, d, t

LEMMA EntryItems ==
  ASSUME NEW e \in Entry
  PROVE  /\ KeyOf(Filing(e), e.row, 0, AsText(e.id)[1], AsText(e.id)[2])
         /\ KeyOf(Numbered(e), e.row, 0, e.id, 0)
<1>1. e.id \in Nat /\ e.row \in Rows
  BY DEF Entry
<1> DEFINE p == AsText(e.id)[1]
           q == AsText(e.id)[2]
<1>2. p \in Int /\ q \in Int /\ AsText(e.id) = << p, q >>
  BY <1>1, TextsDiffer
<1> HIDE DEF p, q
<1>3. Filing(e) = [key |-> <<e.row.date, e.row.time, 0>> \o << p, q >>, row |-> e.row]
  BY <1>2 DEF Filing
<1>4. KeyOf(Filing(e), e.row, 0, p, q)
  BY <1>1, <1>2, <1>3, JoinedKey
<1>5. e.id \in Int /\ 0 \in Int
  BY <1>1
<1>6. KeyOf(Numbered(e), e.row, 0, e.id, 0)
  BY <1>1, <1>5, JoinedKey DEF Numbered
<1> QED BY <1>4, <1>6 DEF p, q

LEMMA LinedItem ==
  ASSUME NEW rows \in Seq(Rows), NEW i \in 1..Len(rows)
  PROVE  rows[i] \in Rows /\ KeyOf(Lined(rows, i), rows[i], 0, i + 1, 1)
<1>1. rows[i] \in Rows
  OBVIOUS
<1> DEFINE row == rows[i]  d == row.date  t == row.time  n == i + 1
<1>2. d \in Int /\ t \in Int
  BY <1>1, EntryRowType
<1>3. n \in Int /\ 0 \in Int /\ 1 \in Int
  OBVIOUS
<1>4. Lined(rows, i).key = << d, t, 0, n, 1 >> /\ Lined(rows, i).row = row
  BY DEF Lined
<1> HIDE DEF d, t, n
<1>5. Parts(<< d, t, 0, n, 1 >>, d, t, 0, n, 1)
  BY <1>2, <1>3, FivePartsJoined
<1>6. Parts(Lined(rows, i).key, d, t, 0, n, 1)
  BY <1>4, <1>5, Zenon
<1> QED BY <1>1, <1>4, <1>6 DEF KeyOf, d, t, n

\* The anchors that count, each with its place.
LEMMA AnchorItem ==
  ASSUME NEW as \in Seq(CostAnchors), NEW x \in KeyedAnchors(as)
  PROVE  \E i \in Live(as) : /\ x.row \in LedgerRow(Codes) /\ KeyOf(x, x.row, 1, i, 0)
                            /\ i \in Nat /\ AnchorKey(x, i, as[i])
<1>1. PICK i \in Live(as) : AnchorKey(x, i, as[i])
  BY DEF KeyedAnchors, AnchorKey
<1>2. i \in Nat /\ as[i] \in CostAnchors
  BY LiveType
<1> DEFINE a == as[i]  d == a.date  t == EndOfDay
<1>3. x.row \in LedgerRow(Codes) /\ d \in Int
  BY <1>1, <1>2, AnchorRowType DEF AnchorKey
<1>4. t \in Int /\ i \in Int /\ 0 \in Int /\ 1 \in Int
  BY <1>2 DEF EndOfDay
<1>5. x.key = << d, t, 1, i, 0 >> /\ x.row.date = d /\ x.row.time = t
  BY <1>1 DEF AnchorKey
<1> HIDE DEF a, d, t
<1>6. Parts(<< d, t, 1, i, 0 >>, d, t, 1, i, 0)
  BY <1>3, <1>4, FivePartsJoined
<1>7. KeyOf(x, x.row, 1, i, 0)
  BY <1>5, <1>6, Zenon DEF KeyOf
<1> QED BY <1>1, <1>2, <1>3, <1>7

LEMMA SameAnchorKey ==
  ASSUME NEW x, NEW y, NEW i, NEW a, AnchorKey(x, i, a), AnchorKey(y, i, a)
  PROVE  x = y
  BY DEF AnchorKey

LEMMA AnchorsFinite ==
  ASSUME NEW as \in Seq(CostAnchors)
  PROVE  IsFiniteSet(KeyedAnchors(as))
<1> DEFINE h == [i \in Live(as) |->
                  [key |-> <<as[i].date, EndOfDay, 1, i, 0>>,
                   row |-> [date |-> as[i].date, time |-> EndOfDay, type |-> "COST_REBASE",
                            code |-> as[i].code, qty |-> as[i].qty, amount |-> as[i].cost]]]
           L == Live(as)
<1>1. KeyedAnchors(as) = {h[i] : i \in L}
  BY DEF KeyedAnchors
<1>2. IsFiniteSet(L)
  BY LiveType
<1> HIDE DEF h, L
<1>3. IsFiniteSet({h[i] : i \in L})
  BY <1>2, ImageFinite
<1> QED BY <1>1, <1>3 DEF L

\* The entries as the ledger, and as a preview, sort them.
LEMMA EntrySets ==
  ASSUME NEW es
  PROVE  /\ KeyedEntries(es, [n \in Ids(es) |-> AsText(n)]) = Filings(es)
         /\ KeyedEntries(es, [n \in Ids(es) |-> << n, 0 >>]) = Numbers(es)
<1>2. KeyedEntries(es, [n \in Ids(es) |-> AsText(n)]) = Filings(es)
  <2> DEFINE k == [n \in Ids(es) |-> AsText(n)]
             F == [e \in es |-> Filing(e)]
  <2>1. \A e \in es : k[e.id] = AsText(e.id)
    BY DEF Ids
  <2> HIDE DEF k
  <2>2. \A e \in es : F[e] = [key |-> <<e.row.date, e.row.time, 0>> \o k[e.id], row |-> e.row]
    BY <2>1 DEF Filing
  <2>3. {F[e] : e \in es} = Filings(es)
    BY DEF Filings
  <2> HIDE DEF F
  <2>4. KeyedEntries(es, k) = {F[e] : e \in es}
    BY <2>2, Zenon DEF KeyedEntries
  <2> QED BY <2>3, <2>4 DEF k
<1>3. KeyedEntries(es, [n \in Ids(es) |-> << n, 0 >>]) = Numbers(es)
  <2> DEFINE k == [n \in Ids(es) |-> << n, 0 >>]
             F == [e \in es |-> Numbered(e)]
  <2>1. \A e \in es : k[e.id] = << e.id, 0 >>
    BY DEF Ids
  <2> HIDE DEF k
  <2>2. \A e \in es : F[e] = [key |-> <<e.row.date, e.row.time, 0>> \o k[e.id], row |-> e.row]
    BY <2>1 DEF Numbered
  <2>3. {F[e] : e \in es} = Numbers(es)
    BY DEF Numbers
  <2> HIDE DEF F
  <2>4. KeyedEntries(es, k) = {F[e] : e \in es}
    BY <2>2, Zenon DEF KeyedEntries
  <2> QED BY <2>3, <2>4 DEF k
<1> QED BY <1>2, <1>3

\* What a preview sorts has keys that differ.
LEMMA PreviewKeyed ==
  ASSUME NEW es \in SUBSET Entry, IsFiniteSet(es), \A e, f \in es : e.id = f.id => e = f,
         NEW as \in Seq(CostAnchors), NEW rows \in Seq(Rows)
  PROVE  Keyed(Numbers(es) \union KeyedAnchors(as) \union KeyedBatch(es, rows), LedgerRow(Codes))
<1> DEFINE E == Numbers(es)
           A == KeyedAnchors(as)
           B == KeyedBatch(es, rows)
           all == E \union A \union B
<1>1. \A x \in E : \E e \in es : x = Numbered(e) /\ x.row \in LedgerRow(Codes) /\ KeyOf(x, x.row, 0, e.id, 0)
  <2> SUFFICES ASSUME NEW e \in es PROVE Numbered(e).row \in LedgerRow(Codes) /\ KeyOf(Numbered(e), Numbered(e).row, 0, e.id, 0)
    BY DEF Numbers
  <2>1. e.row \in Rows /\ KeyOf(Numbered(e), e.row, 0, e.id, 0)
    BY EntryItems DEF Entry
  <2>2. Numbered(e).row = e.row
    BY DEF Numbered
  <2> QED BY <2>1, <2>2, EntryRowType
<1>2. \A x \in A : \E i \in Live(as) : /\ x.row \in LedgerRow(Codes) /\ KeyOf(x, x.row, 1, i, 0) /\ AnchorKey(x, i, as[i])
  BY AnchorItem
<1>3. \A x \in B : \E i \in Fresh(es, rows) : x = Lined(rows, i) /\ x.row \in LedgerRow(Codes) /\ KeyOf(x, x.row, 0, i + 1, 1)
  <2> SUFFICES ASSUME NEW i \in Fresh(es, rows)
               PROVE  Lined(rows, i).row \in LedgerRow(Codes) /\ KeyOf(Lined(rows, i), Lined(rows, i).row, 0, i + 1, 1)
    BY DEF KeyedBatch, Lined
  <2>1. i \in 1..Len(rows)
    BY FreshFinite
  <2>2. rows[i] \in Rows /\ KeyOf(Lined(rows, i), rows[i], 0, i + 1, 1)
    BY <2>1, LinedItem
  <2>3. Lined(rows, i).row = rows[i]
    BY DEF Lined
  <2> QED BY <2>2, <2>3, EntryRowType
<1>4. IsFiniteSet(E) /\ IsFiniteSet(B) /\ IsFiniteSet(A)
  <2> DEFINE f == [e \in es |-> Numbered(e)]
             g == [i \in Fresh(es, rows) |-> Lined(rows, i)]
  <2>1. E = {f[e] : e \in es}
    BY DEF Numbers
  <2>2. B = {g[i] : i \in Fresh(es, rows)}
    BY DEF KeyedBatch, Lined
  <2>3. IsFiniteSet(Fresh(es, rows))
    BY FreshFinite
  <2> HIDE DEF f, g, E, B
  <2>4. IsFiniteSet(E) /\ IsFiniteSet(B)
    BY <2>1, <2>2, <2>3, ImageFinite
  <2> QED BY <2>4, AnchorsFinite
<1> HIDE DEF E, A, B
<1>5. IsFiniteSet(all)
  BY <1>4, FS_Union
<1>6. \A x \in all : x.row \in LedgerRow(Codes) /\ x.key \in [1..5 -> Int]
  BY <1>1, <1>2, <1>3 DEF KeyOf, Parts
<1>7. /\ \A x \in E : \E e \in es : x = Numbered(e) /\ x.key[3] = 0 /\ x.key[4] = e.id /\ x.key[5] = 0
      /\ \A x \in A : \E i \in Live(as) : x.key[3] = 1 /\ x.key[4] = i /\ AnchorKey(x, i, as[i])
      /\ \A x \in B : \E i \in Fresh(es, rows) : x = Lined(rows, i) /\ x.key[3] = 0 /\ x.key[4] = i + 1 /\ x.key[5] = 1
  BY <1>1, <1>2, <1>3 DEF KeyOf, Parts
<1>8. \A i \in Fresh(es, rows) : i \in Int
  BY FreshFinite
<1>9. ASSUME NEW x \in all, NEW y \in all, x.key = y.key PROVE x = y
  <2>0. x.key[3] = y.key[3] /\ x.key[4] = y.key[4] /\ x.key[5] = y.key[5]
    BY <1>9
  <2>1. CASE x \in A \/ y \in A
    <3>0. (\A z \in A : z.key[3] = 1) /\ (\A z \in E \union B : z.key[3] = 0)
      BY <1>7
    <3>1. x \in A /\ y \in A
      BY <2>0, <2>1, <3>0
    <3>2. PICK i \in Live(as) : x.key[4] = i /\ AnchorKey(x, i, as[i])
      BY <1>7, <3>1
    <3>3. PICK j \in Live(as) : y.key[4] = j /\ AnchorKey(y, j, as[j])
      BY <1>7, <3>1
    <3>4. i = j
      BY <2>0, <3>2, <3>3
    <3> DEFINE a == as[i]
    <3>5. AnchorKey(x, i, a) /\ AnchorKey(y, i, a)
      BY <3>2, <3>3, <3>4
    <3> HIDE DEF a
    <3> QED BY <3>5, SameAnchorKey
  <2>2. CASE x \in E /\ y \in E
    <3>1. PICK e \in es : x = Numbered(e) /\ x.key[4] = e.id
      BY <1>7, <2>2
    <3>2. PICK f \in es : y = Numbered(f) /\ y.key[4] = f.id
      BY <1>7, <2>2
    <3>3. e.id = f.id
      BY <2>0, <3>1, <3>2
    <3> QED BY <3>1, <3>2, <3>3
  <2>3. CASE x \in B /\ y \in B
    <3>1. PICK i \in Fresh(es, rows) : x = Lined(rows, i) /\ x.key[4] = i + 1
      BY <1>7, <2>3
    <3>2. PICK j \in Fresh(es, rows) : y = Lined(rows, j) /\ y.key[4] = j + 1
      BY <1>7, <2>3
    <3>3. i + 1 = j + 1
      BY <2>0, <3>1, <3>2
    <3>4. i = j
      BY <1>8, <3>3
    <3> QED BY <3>1, <3>2, <3>4
  <2>4. CASE (x \in E /\ y \in B) \/ (x \in B /\ y \in E)
    BY <1>7, <2>0, <2>4
  <2> QED BY <2>1, <2>2, <2>3, <2>4
<1>10. Keyed(all, LedgerRow(Codes))
  <2>1. 5 \in Nat
    OBVIOUS
  <2>2. \A x, y \in all : x.key = y.key => x = y
    BY <1>9
  <2> HIDE DEF all
  <2> QED BY <1>5, <1>6, <2>1, <2>2, KeyedRows
<1> QED BY <1>10 DEF E, A, B

-----------------------------------------------------------------------------
(* A preview and the ledger that is booked put the same rows of a security *)
(* in the same order.                                                       *)

\* Two rows, each by the same row, date and time in two listings, are in the same
\* order in both if they are when they are tied.
LEMMA HeadsOrder ==
  ASSUME NEW p, NEW q, NEW r, NEW s, NEW c, NEW d,
         NEW a1, NEW a2, NEW a3, NEW a4, NEW b1, NEW b2, NEW b3, NEW b4,
         KeyOf(p[1], r, c, a1, a2), KeyOf(p[2], r, c, a3, a4),
         KeyOf(q[1], s, d, b1, b2), KeyOf(q[2], s, d, b3, b4),
         r.date = s.date /\ r.time = s.time /\ c = d
           => (LexLess(p[1].key, q[1].key) <=> LexLess(p[2].key, q[2].key))
  PROVE  LexLess(p[1].key, q[1].key) <=> LexLess(p[2].key, q[2].key)
<1> DEFINE x == p[1].key  y == q[1].key  u == p[2].key  v == q[2].key
<1>1. /\ x \in [1..5 -> Int] /\ y \in [1..5 -> Int] /\ u \in [1..5 -> Int] /\ v \in [1..5 -> Int]
      /\ x[1] = r.date /\ x[2] = r.time /\ x[3] = c /\ u[1] = r.date /\ u[2] = r.time /\ u[3] = c
      /\ y[1] = s.date /\ y[2] = s.time /\ y[3] = d /\ v[1] = s.date /\ v[2] = s.time /\ v[3] = d
  BY DEF KeyOf, Parts
<1>2. r.date = s.date /\ r.time = s.time /\ c = d => (LexLess(x, y) <=> LexLess(u, v))
  OBVIOUS
<1> HIDE DEF x, y, u, v
<1>3. \A i \in 1..3 : i = 1 \/ i = 2 \/ i = 3
  OBVIOUS
<1>4. \A i \in 1..3 : x[i] = u[i] /\ y[i] = v[i]
  BY <1>1, <1>3
<1>5. (\A i \in 1..3 : x[i] = y[i]) => r.date = s.date /\ r.time = s.time /\ c = d
  <2>1. 1 \in 1..3 /\ 2 \in 1..3 /\ 3 \in 1..3
    OBVIOUS
  <2> QED BY <1>1, <2>1
<1>6. LexLess(x, y) <=> LexLess(u, v)
  BY <1>1, <1>2, <1>4, <1>5, LexAlike
<1> QED BY <1>6 DEF x, y, u, v

\* Tied rows whose numbers are in the order of their ids, the ids having as many digits.
LEMMA TiedOrder ==
  ASSUME NEW p, NEW q, NEW r, NEW s, r.date = s.date, r.time = s.time,
         NEW m \in Nat, NEW n \in Nat, Digits(m) = Digits(n),
         NEW a \in Int, NEW b \in Int, NEW k \in Int, a < b <=> m < n,
         KeyOf(p[1], r, 0, a, k), KeyOf(p[2], r, 0, AsText(m)[1], AsText(m)[2]),
         KeyOf(q[1], s, 0, b, k), KeyOf(q[2], s, 0, AsText(n)[1], AsText(n)[2])
  PROVE  LexLess(p[1].key, q[1].key) <=> LexLess(p[2].key, q[2].key)
<1> DEFINE x == p[1].key  y == q[1].key  u == p[2].key  v == q[2].key
<1>1. /\ x \in [1..5 -> Int] /\ y \in [1..5 -> Int] /\ u \in [1..5 -> Int] /\ v \in [1..5 -> Int]
      /\ x[1] = y[1] /\ x[2] = y[2] /\ x[3] = y[3] /\ u[1] = v[1] /\ u[2] = v[2] /\ u[3] = v[3]
      /\ x[4] = a /\ x[5] = k /\ y[4] = b /\ y[5] = k
      /\ u[4] = AsText(m)[1] /\ u[5] = AsText(m)[2] /\ v[4] = AsText(n)[1] /\ v[5] = AsText(n)[2]
  BY DEF KeyOf, Parts
<1> HIDE DEF x, y, u, v
<1>2. \A i \in 1..3 : x[i] = y[i] /\ u[i] = v[i]
  <2>1. \A i \in 1..3 : i = 1 \/ i = 2 \/ i = 3
    OBVIOUS
  <2> QED BY <1>1, <2>1
<1>3. LexLess(x, y) <=> x[4] < y[4] \/ (x[4] = y[4] /\ x[5] < y[5])
  BY <1>1, <1>2, LexTie
<1>4. LexLess(u, v) <=> u[4] < v[4] \/ (u[4] = v[4] /\ u[5] < v[5])
  BY <1>1, <1>2, LexTie
<1>5. LexLess(x, y) <=> a < b
  BY <1>1, <1>3
<1>6. LexLess(u, v) <=> m < n
  BY <1>1, <1>4, TextOrder
<1>7. LexLess(x, y) <=> LexLess(u, v)
  BY <1>5, <1>6
<1> QED BY <1>7 DEF x, y, u, v

\* A row in a preview and in the ledger: an entry, a row that becomes one, an anchor.
OldPair(q, e) ==
  KeyOf(q[1], e.row, 0, e.id, 0) /\ KeyOf(q[2], e.row, 0, AsText(e.id)[1], AsText(e.id)[2])
NewPair(q, row, i, g) ==
  KeyOf(q[1], row, 0, i + 1, 1) /\ KeyOf(q[2], row, 0, AsText(g.id)[1], AsText(g.id)[2])
KeptPair(q) == q[1] = q[2] /\ \E i : KeyOf(q[1], q[1].row, 1, i, 0)

\* A row of the batch that is neither in the ledger nor tied with a row of it, and
\* ids of as many digits among tied entries: then numbers and texts agree on the order.
TiesKeepOrder(es, all) ==
  \A e, f \in all :
    Tied(e.row, f.row) => (e \in es <=> f \in es) /\ Digits(e.id) = Digits(f.id)

\* The fresh rows and the entries they become.
Becomes(f, F, rows, es, all) ==
  /\ all \subseteq Entry /\ es \subseteq all /\ F \subseteq Int
  /\ \A i \in F : f[i] \in all /\ f[i] \notin es /\ f[i].row = rows[i]
  /\ \A i, j \in F : i < j <=> f[i].id < f[j].id

LEMMA PairsOrder ==
  ASSUME NEW f, NEW F, NEW rows, NEW es, NEW all, Becomes(f, F, rows, es, all),
         TiesKeepOrder(es, all), NEW p, NEW q, p[1].row.code = q[1].row.code,
         (\E e \in es : OldPair(p, e)) \/ (\E i \in F : NewPair(p, rows[i], i, f[i])) \/ KeptPair(p),
         (\E e \in es : OldPair(q, e)) \/ (\E i \in F : NewPair(q, rows[i], i, f[i])) \/ KeptPair(q)
  PROVE  LexLess(p[1].key, q[1].key) <=> LexLess(p[2].key, q[2].key)
<1>0. \A e \in all : e.id \in Nat
  BY DEF Becomes, Entry
<1>b. /\ es \subseteq all /\ F \subseteq Int
      /\ \A i \in F : f[i] \in all /\ f[i] \notin es /\ f[i].row = rows[i]
      /\ \A i, j \in F : i < j <=> f[i].id < f[j].id
  BY DEF Becomes
<1>t. \A e, g \in all : Tied(e.row, g.row) => (e \in es <=> g \in es) /\ Digits(e.id) = Digits(g.id)
  BY DEF TiesKeepOrder
<1>1. CASE KeptPair(p) /\ KeptPair(q)
  BY <1>1 DEF KeptPair
<1>2. ASSUME NEW e \in es, OldPair(p, e), NEW g \in es, OldPair(q, g)
      PROVE  LexLess(p[1].key, q[1].key) <=> LexLess(p[2].key, q[2].key)
  <2> DEFINE r == e.row  s == g.row  m == e.id  n == g.id
  <2>1. /\ KeyOf(p[1], r, 0, m, 0) /\ KeyOf(p[2], r, 0, AsText(m)[1], AsText(m)[2])
        /\ KeyOf(q[1], s, 0, n, 0) /\ KeyOf(q[2], s, 0, AsText(n)[1], AsText(n)[2])
    BY <1>2 DEF OldPair
  <2>2. m \in Nat /\ n \in Nat
    BY <1>0, <1>b
  <2>3. r.code = s.code
    BY <2>1 DEF KeyOf
  <2>4. r.date = s.date /\ r.time = s.time => Digits(m) = Digits(n)
    BY <1>b, <1>t, <2>3 DEF Tied
  <2> HIDE DEF r, s, m, n
  <2>5. r.date = s.date /\ r.time = s.time => (LexLess(p[1].key, q[1].key) <=> LexLess(p[2].key, q[2].key))
    <3>1. m \in Int /\ n \in Int /\ 0 \in Int
      BY <2>2
    <3> QED BY <2>1, <2>2, <2>4, <3>1, TiedOrder
  <2> QED BY <2>1, <2>5, HeadsOrder
<1>3. ASSUME NEW i \in F, NewPair(p, rows[i], i, f[i]), NEW j \in F, NewPair(q, rows[j], j, f[j])
      PROVE  LexLess(p[1].key, q[1].key) <=> LexLess(p[2].key, q[2].key)
  <2> DEFINE r == rows[i]  s == rows[j]  m == f[i].id  n == f[j].id  a == i + 1  b == j + 1
  <2>1. /\ KeyOf(p[1], r, 0, a, 1) /\ KeyOf(p[2], r, 0, AsText(m)[1], AsText(m)[2])
        /\ KeyOf(q[1], s, 0, b, 1) /\ KeyOf(q[2], s, 0, AsText(n)[1], AsText(n)[2])
    BY <1>3 DEF NewPair
  <2>2. m \in Nat /\ n \in Nat
    BY <1>0, <1>b
  <2>3. r.code = s.code
    BY <2>1 DEF KeyOf
  <2>4. r.date = s.date /\ r.time = s.time => Digits(m) = Digits(n)
    BY <1>b, <1>t, <2>3 DEF Tied
  <2>5. a \in Int /\ b \in Int /\ 1 \in Int
    BY <1>b
  <2>6. a < b <=> m < n
    <3>1. a < b <=> i < j
      BY <1>b
    <3> HIDE DEF a, b
    <3> QED BY <1>b, <3>1
  <2> HIDE DEF r, s, m, n, a, b
  <2>7. r.date = s.date /\ r.time = s.time => (LexLess(p[1].key, q[1].key) <=> LexLess(p[2].key, q[2].key))
    BY <2>1, <2>2, <2>4, <2>5, <2>6, TiedOrder
  <2> QED BY <2>1, <2>7, HeadsOrder
<1>4. ASSUME NEW x, NEW y, NEW e \in es, OldPair(x, e), NEW i \in F, NewPair(y, rows[i], i, f[i]), x[1].row.code = y[1].row.code
      PROVE  ~ (e.row.date = rows[i].date /\ e.row.time = rows[i].time)
  <2>1. x[1].row = e.row /\ y[1].row = rows[i]
    BY <1>4 DEF OldPair, NewPair, KeyOf
  <2>2. f[i].row = rows[i] /\ f[i] \in all /\ f[i] \notin es /\ e \in all
    BY <1>b
  <2> QED BY <1>4, <1>t, <2>1, <2>2 DEF Tied
<1>5. ASSUME NEW e \in es, OldPair(p, e), NEW i \in F, NewPair(q, rows[i], i, f[i])
      PROVE  LexLess(p[1].key, q[1].key) <=> LexLess(p[2].key, q[2].key)
  <2>1. ~ (e.row.date = rows[i].date /\ e.row.time = rows[i].time)
    BY <1>4, <1>5
  <2> DEFINE r == e.row  s == rows[i]  m == e.id  n == f[i].id  b == i + 1
  <2>2. /\ KeyOf(p[1], r, 0, m, 0) /\ KeyOf(p[2], r, 0, AsText(m)[1], AsText(m)[2])
        /\ KeyOf(q[1], s, 0, b, 1) /\ KeyOf(q[2], s, 0, AsText(n)[1], AsText(n)[2])
    BY <1>5 DEF OldPair, NewPair
  <2>3. ~ (r.date = s.date /\ r.time = s.time)
    BY <2>1
  <2> HIDE DEF r, s, m, n, b
  <2> QED BY <2>2, <2>3, HeadsOrder
<1>6. ASSUME NEW e \in es, OldPair(q, e), NEW i \in F, NewPair(p, rows[i], i, f[i])
      PROVE  LexLess(p[1].key, q[1].key) <=> LexLess(p[2].key, q[2].key)
  <2>1. ~ (e.row.date = rows[i].date /\ e.row.time = rows[i].time)
    BY <1>4, <1>6
  <2> DEFINE r == e.row  s == rows[i]  m == e.id  n == f[i].id  b == i + 1
  <2>2. /\ KeyOf(q[1], r, 0, m, 0) /\ KeyOf(q[2], r, 0, AsText(m)[1], AsText(m)[2])
        /\ KeyOf(p[1], s, 0, b, 1) /\ KeyOf(p[2], s, 0, AsText(n)[1], AsText(n)[2])
    BY <1>6 DEF OldPair, NewPair
  <2>3. ~ (s.date = r.date /\ s.time = r.time)
    BY <2>1
  <2> HIDE DEF r, s, m, n, b
  <2> QED BY <2>2, <2>3, HeadsOrder
\* an anchor comes after whatever has its date and time
<1>7. \A x : KeptPair(x) => \E r, a : KeyOf(x[1], r, 1, a, 0) /\ KeyOf(x[2], r, 1, a, 0)
  BY DEF KeptPair
<1>8. /\ \A x : \A e \in es : OldPair(x, e) => \E r, a, b, c, d : KeyOf(x[1], r, 0, a, b) /\ KeyOf(x[2], r, 0, c, d)
      /\ \A x : \A i \in F : NewPair(x, rows[i], i, f[i]) =>
                               \E r, a, b, c, d : KeyOf(x[1], r, 0, a, b) /\ KeyOf(x[2], r, 0, c, d)
  BY DEF OldPair, NewPair
<1>9. ASSUME NEW x, NEW y, KeptPair(x), \E r, a, b, c, d : KeyOf(y[1], r, 0, a, b) /\ KeyOf(y[2], r, 0, c, d)
      PROVE  /\ LexLess(x[1].key, y[1].key) <=> LexLess(x[2].key, y[2].key)
             /\ LexLess(y[1].key, x[1].key) <=> LexLess(y[2].key, x[2].key)
  <2>1. PICK r, a : KeyOf(x[1], r, 1, a, 0) /\ KeyOf(x[2], r, 1, a, 0)
    BY <1>7, <1>9
  <2>2. PICK s, b1, b2, b3, b4 : KeyOf(y[1], s, 0, b1, b2) /\ KeyOf(y[2], s, 0, b3, b4)
    BY <1>9
  <2>3. 0 # 1
    OBVIOUS
  <2>4. LexLess(x[1].key, y[1].key) <=> LexLess(x[2].key, y[2].key)
    BY <2>1, <2>2, <2>3, HeadsOrder
  <2>5. LexLess(y[1].key, x[1].key) <=> LexLess(y[2].key, x[2].key)
    BY <2>1, <2>2, <2>3, HeadsOrder
  <2> QED BY <2>4, <2>5
<1>10. CASE KeptPair(p) /\ ~ KeptPair(q)
  BY <1>8, <1>9, <1>10
<1>11. CASE KeptPair(q) /\ ~ KeptPair(p)
  BY <1>8, <1>9, <1>11
<1>12. CASE ~ KeptPair(q) /\ ~ KeptPair(p)
  BY <1>2, <1>3, <1>5, <1>6, <1>12
<1> QED BY <1>1, <1>10, <1>11, <1>12

\* Booked, the batch replays each security as the preview did, when the ids keep the order.
LEMMA PreviewReplay ==
  ASSUME NEW es \in SUBSET Entry, IdsDiffer(es), NEW as \in Seq(CostAnchors), NEW rows \in Seq(Rows),
         NEW kind \in Kinds, clock \in 0..MaxClock, TiesKeepOrder(es, Inserted(es, rows, kind)), NEW code
  PROVE  PositionState(PreviewOrder(es, as, rows), code)
           = PositionState(OrderedLedger(Inserted(es, rows, kind), as), code)
<1> DEFINE F == Fresh(es, rows)
           A == KeyedAnchors(as)
           all == Inserted(es, rows, kind)
           keyed == Numbers(es) \union A \union KeyedBatch(es, rows)
           others == Filings(all) \union A
<1>1. IsFiniteSet(es) /\ \A e, g \in es : e.id = g.id => e = g
  BY DEF IdsDiffer
<1>2. all \in SUBSET Entry
  BY <1>1, InsertedType DEF Entry
<1>3. IdsDiffer(all)
  BY InsertedIds
<1>4. Keyed(keyed, LedgerRow(Codes)) /\ PreviewOrder(es, as, rows) = SortedRows(keyed)
  <2>1. Keyed(keyed, LedgerRow(Codes))
    BY <1>1, PreviewKeyed
  <2>2. KeyedEntries(es, [n \in Ids(es) |-> << n, 0 >>]) = Numbers(es)
    BY EntrySets
  <2>3. PreviewOrder(es, as, rows) = SortedRows(keyed)
    BY <2>2 DEF PreviewOrder
  <2> QED BY <2>1, <2>3
<1>5. Keyed(others, LedgerRow(Codes)) /\ OrderedLedger(all, as) = SortedRows(others)
  <2> HIDE DEF all
  <2>1. KeyedEntries(all, [n \in Ids(all) |-> AsText(n)]) = Filings(all)
    BY EntrySets
  <2>2. IsFiniteSet(all) /\ \A e, g \in all : e.id = g.id => e = g
    BY <1>3 DEF IdsDiffer
  <2>3. Keyed(KeyedEntries(all, [n \in Ids(all) |-> AsText(n)]) \union A, LedgerRow(Codes))
    BY <1>2, <2>2, LedgerKeyed
  <2>4. OrderedLedger(all, as) = SortedRows(others)
    BY <2>1 DEF OrderedLedger
  <2> QED BY <2>1, <2>3, <2>4
<1>6. PICK new : \E f, place : AddsAs(es, rows, kind, new, f, place)
  BY InsertedAs
<1>7. PICK f, place : AddsAs(es, rows, kind, new, f, place)
  BY <1>6
<1>8. all = es \union new /\ new \subseteq Entry
  BY <1>2, <1>7 DEF AddsAs
<1>9. es \intersect new = {}
  BY <1>7, <1>8, NewEntries
<1>10. /\ f \in [F -> new] /\ \A y \in new : \E x \in F : f[x] = y
       /\ place \in [F -> 0..(Cardinality(F) - 1)]
       /\ \A i \in F : f[i].id = FirstId + Cardinality(es) + place[i] /\ f[i].row = rows[i]
       /\ \A i, j \in F : i < j <=> place[i] < place[j]
  BY <1>7 DEF AddsAs, GoesOn
<1>11. F \subseteq 1..Len(rows) /\ Cardinality(es) \in Nat /\ FirstId \in Nat
  BY <1>1, FreshFinite, FS_CardinalityType, InputAssumption
<1> HIDE DEF F, A, all
<1>12. Becomes(f, F, rows, es, all)
  <2>1. \A i \in F : place[i] \in Int
    BY <1>10
  <2> DEFINE n == FirstId + Cardinality(es)
  <2>2. n \in Int /\ \A i \in F : f[i].id = n + place[i]
    BY <1>10, <1>11
  <2> HIDE DEF n
  <2>3. \A i, j \in F : i < j <=> f[i].id < f[j].id
    BY <1>10, <2>1, <2>2
  <2>4. F \subseteq Int
    BY <1>11
  <2>5. \A i \in F : f[i] \in all /\ f[i] \notin es /\ f[i].row = rows[i]
    BY <1>8, <1>9, <1>10
  <2> QED BY <1>2, <1>8, <2>3, <2>4, <2>5 DEF Becomes
<1> DEFINE old == {<< Numbered(e), Filing(e) >> : e \in es}
           fresh == {<< Lined(rows, i), Filing(f[i]) >> : i \in F}
           kept == {<< x, x >> : x \in A}
           Q == {q \in old \union fresh \union kept : q[1].row.code = code}
<1>13. ASSUME NEW q \in Q
       PROVE  /\ q[1].row.code = code /\ q[1].row = q[2].row /\ q[1] \in keyed /\ q[2] \in others
              /\ \/ \E e \in es : OldPair(q, e)
                 \/ \E i \in F : NewPair(q, rows[i], i, f[i])
                 \/ KeptPair(q)
  <2>0. q[1].row.code = code
    OBVIOUS
  <2>1. CASE q \in old
    <3>1. PICK e \in es : q = << Numbered(e), Filing(e) >>
      BY <2>1
    <3>2. KeyOf(Filing(e), e.row, 0, AsText(e.id)[1], AsText(e.id)[2]) /\ KeyOf(Numbered(e), e.row, 0, e.id, 0)
      BY EntryItems
    <3>3. q[1] = Numbered(e) /\ q[2] = Filing(e)
      BY <3>1
    <3>4. OldPair(q, e)
      BY <3>2, <3>3 DEF OldPair
    <3>5. q[1].row = q[2].row
      BY <3>4 DEF OldPair, KeyOf
    <3>6. q[1] \in keyed /\ q[2] \in others
      BY <1>8, <3>3 DEF Numbers, Filings
    <3> QED BY <2>0, <3>4, <3>5, <3>6
  <2>2. CASE q \in fresh
    <3>1. PICK i \in F : q = << Lined(rows, i), Filing(f[i]) >>
      BY <2>2
    <3>2. i \in 1..Len(rows) /\ f[i] \in all /\ f[i] \in Entry /\ f[i].row = rows[i]
      BY <1>2, <1>8, <1>10, <1>11
    <3>3. KeyOf(Filing(f[i]), f[i].row, 0, AsText(f[i].id)[1], AsText(f[i].id)[2])
      BY <3>2, EntryItems
    <3>4. KeyOf(Lined(rows, i), rows[i], 0, i + 1, 1)
      BY <3>2, LinedItem
    <3>5. q[1] = Lined(rows, i) /\ q[2] = Filing(f[i])
      BY <3>1
    <3>6. NewPair(q, rows[i], i, f[i])
      BY <3>2, <3>3, <3>4, <3>5 DEF NewPair
    <3>7. q[1].row = q[2].row
      BY <3>6 DEF NewPair, KeyOf
    <3>8. q[1] \in keyed /\ q[2] \in others
      BY <3>2, <3>5 DEF Filings, KeyedBatch, Lined, F
    <3> QED BY <2>0, <3>6, <3>7, <3>8
  <2>3. CASE q \in kept
    <3>1. q[1] = q[2] /\ q[1] \in A
      BY <2>3
    <3>2. \E i : KeyOf(q[1], q[1].row, 1, i, 0)
      BY <3>1, AnchorItem DEF A
    <3> QED BY <2>0, <3>1, <3>2 DEF KeptPair
  <2> QED BY <2>1, <2>2, <2>3
<1>14. \A x \in OwnKeyed(keyed, code) : \E q \in Q : q[1] = x
  <2> SUFFICES ASSUME NEW x \in keyed, x.row.code = code PROVE \E q \in Q : q[1] = x
    BY DEF OwnKeyed
  <2>1. CASE x \in Numbers(es)
    <3>1. PICK e \in es : x = Numbered(e)
      BY <2>1 DEF Numbers
    <3> DEFINE q == << Numbered(e), Filing(e) >>
    <3>2. q \in Q
      BY <3>1 DEF Numbered
    <3> QED BY <3>1, <3>2
  <2>2. CASE x \in A
    <3> DEFINE q == << x, x >>
    <3>1. q \in Q
      BY <2>2
    <3> QED BY <3>1
  <2>3. CASE x \in KeyedBatch(es, rows)
    <3>1. PICK i \in F : x = Lined(rows, i)
      BY <2>3 DEF KeyedBatch, Lined, F
    <3> DEFINE q == << Lined(rows, i), Filing(f[i]) >>
    <3>2. q \in Q
      BY <3>1 DEF Lined
    <3> QED BY <3>1, <3>2
  <2> QED BY <2>1, <2>2, <2>3
<1>15. \A y \in OwnKeyed(others, code) : \E q \in Q : q[2] = y
  <2> SUFFICES ASSUME NEW y \in others, y.row.code = code PROVE \E q \in Q : q[2] = y
    BY DEF OwnKeyed
  <2>1. CASE y \in A
    <3> DEFINE q == << y, y >>
    <3>1. q \in Q
      BY <2>1
    <3> QED BY <3>1
  <2>2. CASE y \in Filings(all)
    <3>1. PICK e \in all : y = Filing(e)
      BY <2>2 DEF Filings
    <3>2. e.row.code = code
      BY <3>1 DEF Filing
    <3>3. CASE e \in es
      <4>1. Numbered(e).row = e.row
        BY DEF Numbered
      <4> DEFINE q == << Numbered(e), Filing(e) >>
      <4>2. q \in Q
        BY <3>2, <3>3, <4>1
      <4> QED BY <3>1, <4>2
    <3>4. CASE e \in new
      <4>1. PICK i \in F : f[i] = e
        BY <1>10, <3>4
      <4>2. Lined(rows, i).row = e.row
        BY <1>10, <4>1 DEF Lined
      <4> DEFINE q == << Lined(rows, i), Filing(f[i]) >>
      <4>3. q \in Q
        BY <3>2, <4>1, <4>2
      <4> QED BY <3>1, <4>1, <4>3
    <3> QED BY <1>8, <3>3, <3>4
  <2> QED BY <2>1, <2>2
<1>16. \A p, q \in Q : LexLess(p[1].key, q[1].key) <=> LexLess(p[2].key, q[2].key)
  <2>1. TiesKeepOrder(es, all)
    BY DEF all
  <2> HIDE DEF Q
  <2> SUFFICES ASSUME NEW p \in Q, NEW q \in Q
               PROVE  LexLess(p[1].key, q[1].key) <=> LexLess(p[2].key, q[2].key)
    OBVIOUS
  <2>2. p[1].row.code = q[1].row.code
    BY <1>13
  <2> QED BY <1>12, <1>13, <2>1, <2>2, PairsOrder
<1> HIDE DEF Q, keyed, others
<1>17. Pairs(Q, OwnKeyed(keyed, code), OwnKeyed(others, code))
  <2>1. \A q \in Q : q[1] \in OwnKeyed(keyed, code) /\ q[2] \in OwnKeyed(others, code) /\ q[1].row = q[2].row
    BY <1>13 DEF OwnKeyed
  <2> QED BY <1>14, <1>15, <1>16, <2>1 DEF Pairs
<1>18. PositionState(SortedRows(keyed), code) = PositionState(SortedRows(others), code)
  BY <1>4, <1>5, <1>17, SameReplay
<1> QED BY <1>4, <1>5, <1>18 DEF all

-----------------------------------------------------------------------------
(* What a preview accepted, it accepted of the ledger it saw.  A ledger only *)
(* grows, so as long as its version is the one that was seen, it is the same.*)
Applying == {"applyStatement", "applyHistory"}

SeenFits(t, es, as) ==
  t.pc \in Applying =>
    /\ t.seen[1] <= Cardinality(es) /\ t.seen[2] <= Len(as)
    /\ t.seen = << Cardinality(es), Len(as) >> => Accepts(PreviewOrder(es, as, t.rows))

PreviewInv == \A c \in Callers : SeenFits(task[c], entries, anchors)

\* A sequence to which at most one thing is added is longer or the same.
LEMMA Appended ==
  ASSUME NEW S, NEW as \in Seq(S), NEW bs, bs = as \/ \E a \in S : bs = Append(as, a)
  PROVE  Len(as) \in Nat /\ Len(bs) \in Nat /\ Len(as) <= Len(bs) /\ (Len(as) = Len(bs) => as = bs)
<1>1. Len(as) \in Nat
  BY LenProperties
<1> DEFINE k == Len(as)
           l == Len(bs)
<1>2. CASE bs = as
  <2>1. l = k
    BY <1>2
  <2> HIDE DEF k, l
  <2>2. k \in Nat
    BY <1>1 DEF k
  <2>3. k <= l /\ l \in Nat
    BY <2>1, <2>2
  <2> QED BY <1>2, <2>2, <2>3, Zenon DEF k, l
<1>3. CASE \E a \in S : bs = Append(as, a)
  <2>1. PICK a \in S : bs = Append(as, a)
    BY <1>3
  <2>2. Len(Append(as, a)) = Len(as) + 1
    BY AppendProperties
  <2>3. l = k + 1
    BY <2>1, <2>2
  <2> HIDE DEF k, l
  <2>4. k \in Nat
    BY <1>1 DEF k
  <2>5. k <= l /\ l \in Nat /\ k # l
    BY <2>3, <2>4
  <2> QED BY <2>4, <2>5, Zenon DEF k, l
<1> QED BY <1>2, <1>3

\* What was seen of a ledger still fits when entries or an anchor are added to it.
LEMMA SeenLater ==
  ASSUME NEW t \in Tasks, NEW es, NEW fs, IsFiniteSet(fs), es \subseteq fs,
         NEW S, NEW as \in Seq(S), NEW bs, bs = as \/ \E a \in S : bs = Append(as, a),
         SeenFits(t, es, as)
  PROVE  SeenFits(t, fs, bs)
<1> SUFFICES ASSUME t.pc \in Applying
             PROVE  /\ t.seen[1] <= Cardinality(fs) /\ t.seen[2] <= Len(bs)
                    /\ t.seen = << Cardinality(fs), Len(bs) >> => Accepts(PreviewOrder(fs, bs, t.rows))
  BY DEF SeenFits
<1>1. /\ t.seen[1] <= Cardinality(es) /\ t.seen[2] <= Len(as)
      /\ t.seen = << Cardinality(es), Len(as) >> => Accepts(PreviewOrder(es, as, t.rows))
  BY DEF SeenFits
<1> DEFINE m == Cardinality(es)  n == Cardinality(fs)  k == Len(as)  l == Len(bs)  i == t.seen[1]  j == t.seen[2]
<1>2. m \in Nat /\ n \in Nat /\ m <= n /\ (m = n => es = fs)
  BY FS_Subset, FS_CardinalityType
<1>3. k \in Nat /\ l \in Nat /\ k <= l /\ (k = l => as = bs)
  BY Appended
<1>4. i \in Nat /\ j \in Nat /\ t.seen = << i, j >>
  BY DEF Tasks
<1>5. i <= m /\ j <= k /\ (i = m /\ j = k => Accepts(PreviewOrder(es, as, t.rows)))
  BY <1>1, <1>4
<1> HIDE DEF m, n, k, l, i, j
<1>6. i <= n /\ j <= l
  BY <1>2, <1>3, <1>4, <1>5
<1>7. ASSUME i = n, j = l PROVE Accepts(PreviewOrder(fs, bs, t.rows))
  <2>0. i <= m /\ j <= k
    BY <1>5
  <2>1. m = n /\ k = l /\ i = m /\ j = k
    BY <1>2, <1>3, <1>4, <1>7, <2>0
  <2>2. es = fs /\ as = bs
    BY <1>2, <1>3, <2>1
  <2> QED BY <1>5, <2>1, <2>2
<1> QED BY <1>4, <1>6, <1>7 DEF n, l, i, j

LEMMA PreviewStep == LedgerInv /\ PreviewInv /\ [Next]_vars /\ LedgerInv' => PreviewInv'
<1> SUFFICES ASSUME LedgerInv, PreviewInv, [Next]_vars, LedgerInv', NEW c \in Callers
             PROVE  SeenFits(task[c], entries, anchors)'
  BY DEF PreviewInv
<1>t. task \in [Callers -> Tasks] /\ anchors \in Seq(CostAnchors) /\ IsFiniteSet(entries')
  BY DEF LedgerInv, LedgerTypeOK
<1>1. entries \subseteq entries' /\ (anchors' = anchors \/ \E a \in CostAnchors : anchors' = Append(anchors, a))
  BY DEF vars, Next, CheckStatement, CheckHistory, CheckOpening, RecordCostAnchor, DateCash,
     PreviewStatement, PreviewHistory, Previewed, ApplyStatement, ApplyHistory, ApplyRefused,
     ApplyOpening, OpeningRefused, ProjectCash, InsertCash, Tick, Inserted
<1>2. CASE task'[c] = task[c]
  <2> DEFINE t == task[c]
  <2>1. t \in Tasks /\ SeenFits(t, entries, anchors)
    BY <1>t DEF PreviewInv
  <2> HIDE DEF t
  <2>2. SeenFits(t, entries', anchors')
    BY <1>t, <1>1, <2>1, SeenLater
  <2>3. SeenFits(task'[c], entries', anchors')
    BY <1>2, <2>2 DEF t
  <2> QED BY <2>3 DEF SeenFits, Applying
<1>3. CASE task'[c].pc \notin Applying
  BY <1>3 DEF SeenFits, Applying
<1>4. ASSUME NEW next, NEW accepted, Previewed(c, accepted, next),
             accepted => Accepts(PreviewOrder(entries, anchors, task[c].rows)), task'[c].pc \in Applying
      PROVE  SeenFits(task[c], entries, anchors)'
  <2>1. entries' = entries /\ anchors' = anchors
    BY <1>4 DEF Previewed
  <2>2. ~ (Idle.pc \in Applying)
    BY DEF Idle, Applying
  <2> DEFINE t == [pc |-> next, rows |-> task[c].rows, base |-> task[c].base, seen |-> Version]
  <2>3. accepted /\ task'[c] = t
    <3>1. CASE accepted
      BY <1>4, <1>t, <3>1 DEF Previewed
    <3>2. CASE ~ accepted
      <4>1. task'[c] = Idle
        BY <1>4, <1>t, <3>2 DEF Previewed
      <4> QED BY <1>4, <2>2, <4>1
    <3> QED BY <3>1, <3>2
  <2>4. /\ task'[c].seen = << Cardinality(entries'), Len(anchors') >>
        /\ Accepts(PreviewOrder(entries', anchors', task'[c].rows))
    BY <1>4, <2>1, <2>3 DEF Version
  <2> DEFINE m == Cardinality(entries')  k == Len(anchors')
  <2>5. m \in Nat /\ k \in Nat
    BY <1>t, <2>1, FS_CardinalityType
  <2> HIDE DEF m, k
  <2>6. task'[c].seen[1] <= m /\ task'[c].seen[2] <= k
    BY <2>4, <2>5 DEF m, k
  <2>7. SeenFits(task'[c], entries', anchors')
    BY <2>4, <2>6 DEF SeenFits, m, k
  <2> QED BY <2>7 DEF SeenFits, Applying
<1>e. ASSUME NEW d \in Callers, NEW t, task' = [task EXCEPT ![d] = t], t.pc \notin Applying
      PROVE  task'[c] = task[c] \/ task'[c].pc \notin Applying
  BY <1>e, <1>t
<1>5. ASSUME NEW d \in Callers, NEW pc \in {"statement", "history", "applyOpening", "insertCash"},
             NEW rows, Begin(d, pc, rows)
      PROVE  SeenFits(task[c], entries, anchors)'
  <2> DEFINE t == [pc |-> pc, rows |-> rows, base |-> baseline, seen |-> <<0, 0>>]
  <2>1. task' = [task EXCEPT ![d] = t] /\ t.pc \notin Applying
    BY <1>5 DEF Begin, Applying
  <2> HIDE DEF t
  <2> QED BY <1>2, <1>3, <1>e, <2>1
<1>6. ASSUME NEW d \in Callers, task' = [task EXCEPT ![d] = Idle]
      PROVE  SeenFits(task[c], entries, anchors)'
  <2>1. Idle.pc \notin Applying
    BY DEF Idle, Applying
  <2> QED BY <1>2, <1>3, <1>6, <1>e, <2>1
<1>7. ASSUME NEW d \in Callers, NEW next, NEW accepted, Previewed(d, accepted, next),
             accepted => Accepts(PreviewOrder(entries, anchors, task[d].rows))
      PROVE  SeenFits(task[c], entries, anchors)'
  <2>1. CASE c = d
    BY <1>3, <1>4, <1>7, <2>1
  <2>2. CASE c # d
    <3>1. task'[c] = task[c]
      BY <1>7, <1>t, <2>2 DEF Previewed
    <3> QED BY <1>2, <3>1
  <2> QED BY <2>1, <2>2
<1>8. CASE UNCHANGED vars \/ Tick \/ \E d \in Callers, a \in CostAnchors : RecordCostAnchor(d, a)
  BY <1>2, <1>8 DEF vars, Tick, RecordCostAnchor
<1>9. ASSUME NEW d \in Callers, NEW rows, CheckStatement(d, rows) \/ CheckHistory(d, rows) \/ CheckOpening(d, rows)
      PROVE  SeenFits(task[c], entries, anchors)'
  BY <1>5, <1>9 DEF CheckStatement, CheckHistory, CheckOpening
<1>10. ASSUME NEW d \in Callers, ProjectCash(d) \/ \E b \in Balances : DateCash(d, b)
       PROVE  SeenFits(task[c], entries, anchors)'
  BY <1>5, <1>10 DEF ProjectCash, DateCash
<1>11. ASSUME NEW d \in Callers,
              \/ ApplyStatement(d) \/ ApplyHistory(d) \/ ApplyRefused(d)
              \/ ApplyOpening(d) \/ OpeningRefused(d) \/ InsertCash(d)
       PROVE  SeenFits(task[c], entries, anchors)'
  BY <1>6, <1>11 DEF ApplyStatement, ApplyHistory, ApplyRefused, ApplyOpening, OpeningRefused, InsertCash
<1>12. ASSUME NEW d \in Callers, PreviewStatement(d) \/ PreviewHistory(d)
       PROVE  SeenFits(task[c], entries, anchors)'
  BY <1>7, <1>12 DEF PreviewStatement, PreviewHistory
<1> QED BY <1>8, <1>9, <1>10, <1>11, <1>12 DEF Next

(* A batch that a preview accepted is booked without an error as long as     *)
(* nobody wrote since, provided that no row of it shares security, date and  *)
(* time with a booked one and that entries which do among themselves have    *)
(* ids of as many digits.  (Where that fails, PreviewedApplies does too: the *)
(* preview compares ids as numbers and the ledger as text.)                  *)
CleanPreviewBooks ==
  \A c \in Callers, kind \in Kinds :
    LET new == Inserted(entries, task[c].rows, kind)
    IN task[c].pc \in Applying /\ task[c].seen = Version /\ TiesKeepOrder(entries, new)
         => Replays(new, anchors)

THEOREM CleanPreview == Spec => []CleanPreviewBooks
<1>1. Init => PreviewInv
  <2> SUFFICES ASSUME Init, NEW c \in Callers PROVE SeenFits(task[c], entries, anchors)
    BY DEF PreviewInv
  <2>1. task[c] = Idle
    BY DEF Init
  <2> QED BY <2>1 DEF SeenFits, Idle, Applying
<1>2. LedgerInv /\ IdsInv /\ PreviewInv => CleanPreviewBooks
  <2> SUFFICES ASSUME LedgerInv, IdsInv, PreviewInv, NEW c \in Callers, NEW kind \in Kinds,
                      task[c].pc \in Applying, task[c].seen = Version,
                      TiesKeepOrder(entries, Inserted(entries, task[c].rows, kind))
               PROVE  Replays(Inserted(entries, task[c].rows, kind), anchors)
    BY DEF CleanPreviewBooks
  <2> DEFINE rows == task[c].rows
  <2>1. /\ entries \in SUBSET Entry /\ IdsDiffer(entries) /\ anchors \in Seq(CostAnchors)
        /\ clock \in 0..MaxClock /\ task \in [Callers -> Tasks]
    BY DEF LedgerInv, LedgerTypeOK, Entry, IdsInv
  <2>2. rows \in Seq(Rows)
    BY <2>1, BatchType DEF Tasks
  <2>3. Accepts(PreviewOrder(entries, anchors, rows))
    BY DEF PreviewInv, SeenFits, Version
  <2>4. TiesKeepOrder(entries, Inserted(entries, rows, kind))
    OBVIOUS
  <2> HIDE DEF rows
  <2>5. \A code \in Codes : PositionState(PreviewOrder(entries, anchors, rows), code)
                              = PositionState(OrderedLedger(Inserted(entries, rows, kind), anchors), code)
    BY <2>1, <2>2, <2>4, PreviewReplay
  <2>6. Accepts(OrderedLedger(Inserted(entries, rows, kind), anchors))
    BY <2>3, <2>5 DEF Accepts
  <2> QED BY <2>6 DEF Replays, rows
<1> QED BY <1>1, <1>2, PreviewStep, IdsInduction, PTL DEF Spec

-----------------------------------------------------------------------------
(* A snapshot reads the ledger of its day by ids as numbers, without anchors. *)

\* What a day leaves of a ledger whose rows up to the day come first.
LEMMA CutAtDay ==
  ASSUME NEW s \in Seq(LedgerRow(Codes)), NEW t \in Seq(LedgerRow(Codes)), NEW day \in Int,
         \A i \in 1..Len(s) : s[i].date <= day, \A i \in 1..Len(t) : t[i].date > day
  PROVE  LedgerAsOf(s \o t, day) = s
<1> DEFINE u == s \o t
           m == Len(s)
           n == Len(t)
           D == {i \in DOMAIN u : u[i].date <= day}
<1>2. /\ m \in Nat /\ n \in Nat /\ u \in Seq(LedgerRow(Codes)) /\ Len(u) = m + n
      /\ \A i \in 1..m : u[i] = s[i]
      /\ \A i \in 1..n : u[m + i] = t[i]
  BY Joined
<1> HIDE DEF u
<1>3. (\A i \in 1..m : s[i].date \in Int) /\ (\A i \in 1..n : t[i].date \in Int)
  <2>1. \A x \in LedgerRow(Codes) : x.date \in Int
    BY DEF LedgerRow
  <2>2. (\A i \in 1..m : s[i] \in LedgerRow(Codes)) /\ (\A i \in 1..n : t[i] \in LedgerRow(Codes))
    OBVIOUS
  <2> QED BY <2>1, <2>2
<1>d. (\A i \in 1..m : s[i].date <= day) /\ (\A i \in 1..n : t[i].date > day)
  OBVIOUS
<1>8. Len(s) = m
  OBVIOUS
<1> HIDE DEF m, n
<1>4. D = 1..m
  <2>1. ASSUME NEW i \in DOMAIN u PROVE u[i].date <= day <=> i \in 1..m
    <3>1. CASE i \in 1..m
      BY <1>d, <1>2, <3>1
    <3>2. CASE i \notin 1..m
      <4>1. i - m \in 1..n /\ m + (i - m) = i
        BY <1>2, <3>2
      <4>2. u[m + (i - m)] = t[i - m] /\ t[i - m].date > day /\ t[i - m].date \in Int
        BY <1>d, <1>2, <1>3, <4>1
      <4> QED BY <3>2, <4>1, <4>2
    <3> QED BY <3>1, <3>2
  <2>2. 1..m \subseteq DOMAIN u
    BY <1>2
  <2> QED BY <2>1, <2>2
<1>5. Cardinality(1..m) = m
  <2>1. 1 \in Int /\ m \in Int /\ (IF 1 > m THEN 0 ELSE m - 1 + 1) = m
    BY <1>2
  <2> QED BY <2>1, FS_Interval
<1>6. LedgerAsOf(u, day) = SubSeq(u, 1, m)
  BY <1>4, <1>5 DEF LedgerAsOf
<1> DEFINE v == SubSeq(u, 1, m)
<1>7. v \in Seq(LedgerRow(Codes)) /\ Len(v) = m /\ \A i \in 1..m : v[i] = u[i]
  BY <1>2
<1> HIDE DEF v
<1>9. v = s
  BY <1>2, <1>7, <1>8, SeqEqual
<1> QED BY <1>6, <1>9 DEF u, v

\* The rows up to a day, among all that are sorted.
UpToDay(keyed, day) == {x \in keyed : x.row.date <= day}

\* A day of a sorted ledger is the ledger of what the day has, the dates coming first.
LEMMA DayOfSorted ==
  ASSUME NEW keyed, Keyed(keyed, LedgerRow(Codes)), NEW day \in Int,
         \A x \in keyed : x.key \in [1..5 -> Int] /\ x.key[1] = x.row.date
  PROVE  /\ Keyed(UpToDay(keyed, day), LedgerRow(Codes))
         /\ LedgerAsOf(SortedRows(keyed), day) = SortedRows(UpToDay(keyed, day))
<1> DEFINE R == LedgerRow(Codes)
           early == UpToDay(keyed, day)
           late == {x \in keyed : ~ (x.row.date <= day)}
           s == SortedRows(early)
           t == SortedRows(late)
<1>1. early \union late = keyed /\ early \intersect late = {}
  BY DEF UpToDay
<1>2. \A x \in keyed : x.row.date \in Int
  OBVIOUS
<1>3. (\A x \in early : x.row.date <= day) /\ (\A x \in late : x.row.date > day)
  BY <1>2 DEF UpToDay
<1>4. \A x \in early, y \in late : LexLess(x.key, y.key)
  <2> SUFFICES ASSUME NEW x \in early, NEW y \in late PROVE LexLess(x.key, y.key)
    OBVIOUS
  <2>1. x \in keyed /\ y \in keyed
    BY <1>1
  <2>2. x.key[1] < y.key[1]
    BY <1>2, <1>3, <2>1
  <2>3. 1 \in DOMAIN x.key /\ 1..(1 - 1) = {}
    BY <2>1
  <2> QED BY <2>2, <2>3 DEF LexLess
<1> HIDE DEF early, late, R
<1>5. Keyed(early, R) /\ Keyed(late, R)
  BY <1>1, SortedPart DEF R
<1>6. Halves(early, late, R)
  BY <1>1, <1>4 DEF Halves, R
<1>7. SortedRows(keyed) = s \o t
  <2>1. SortedRows(early \union late) = s \o t
    BY <1>6, SortedSplit
  <2> QED BY <1>1, <2>1
<1>8. ASSUME NEW K, Keyed(K, R)
      PROVE  /\ SortedRows(K) \in Seq(R)
             /\ \A i \in 1..Len(SortedRows(K)) : \E x \in K : SortedRows(K)[i] = x.row
  <2> DEFINE w == SortedRows(K)
             N == Cardinality(K)
  <2>1. w \in Seq(R) /\ Len(w) = N
    BY <1>8, Sorting
  <2>2. PICK at : IsSorting(at, K) /\ \A n \in 1..N : w[n] = at[n].row
    BY <1>8, Sorting
  <2>3. at \in [1..N -> K]
    BY <2>2 DEF IsSorting
  <2> HIDE DEF w, N
  <2>4. \A i \in 1..Len(w) : \E x \in K : w[i] = x.row
    BY <2>1, <2>2, <2>3
  <2> QED BY <2>1, <2>4 DEF w
<1>9. s \in Seq(R) /\ \A i \in 1..Len(s) : \E x \in early : s[i] = x.row
  BY <1>5, <1>8
<1>10. t \in Seq(R) /\ \A i \in 1..Len(t) : \E x \in late : t[i] = x.row
  BY <1>5, <1>8
<1> HIDE DEF s, t
<1>11. (\A i \in 1..Len(s) : s[i].date <= day) /\ (\A i \in 1..Len(t) : t[i].date > day)
  BY <1>3, <1>9, <1>10
<1>12. LedgerAsOf(s \o t, day) = s
  BY <1>9, <1>10, <1>11, CutAtDay DEF R
<1> QED BY <1>5, <1>7, <1>12 DEF R, early, s

\* Without an anchor of the security up to the day, and with ids of as many digits
\* among tied entries, the two replays of the day see the same rows in the same order.
LEMMA SnapshotReplay ==
  ASSUME NEW es \in SUBSET Entry, Distinct(es), NEW as \in Seq(CostAnchors), NEW day \in Dates, NEW code,
         \A e, f \in es : e.row.code = code /\ Tied(e.row, f.row) => Digits(e.id) = Digits(f.id),
         \A i \in Live(as) : as[i].code = code => as[i].date > day
  PROVE  PositionState(LedgerAsOf(SortedRows(Numbers(es)), day), code)
           = PositionState(LedgerAsOf(OrderedLedger(es, as), day), code)
<1> DEFINE A == KeyedAnchors(as)
           keyed == Numbers(es)
           others == Filings(es) \union A
           first == UpToDay(keyed, day)
           second == UpToDay(others, day)
           own == {e \in es : e.row.code = code /\ e.row.date <= day}
           Q == {<< Numbered(e), Filing(e) >> : e \in own}
<1>1. IsFiniteSet(es) /\ (\A e, g \in es : e.id = g.id => e = g) /\ day \in Int
  BY InputAssumption DEF Distinct
<1>2. Keyed(keyed, LedgerRow(Codes))
  <2>1. <<>> \in Seq(CostAnchors) /\ <<>> \in Seq(Rows)
    OBVIOUS
  <2>2. KeyedAnchors(<<>>) = {} /\ KeyedBatch(es, <<>>) = {}
    BY DEF KeyedAnchors, Live, KeyedBatch, Fresh
  <2>3. Keyed(keyed \union {} \union {}, LedgerRow(Codes))
    BY <1>1, <2>1, <2>2, PreviewKeyed
  <2>4. keyed \union {} \union {} = keyed
    <3> HIDE DEF keyed
    <3> QED OBVIOUS
  <2> QED BY <2>3, <2>4
<1>3. Keyed(others, LedgerRow(Codes)) /\ OrderedLedger(es, as) = SortedRows(others)
  <2>1. KeyedEntries(es, [n \in Ids(es) |-> AsText(n)]) = Filings(es)
    BY EntrySets
  <2>2. Keyed(KeyedEntries(es, [n \in Ids(es) |-> AsText(n)]) \union A, LedgerRow(Codes))
    BY <1>1, LedgerKeyed
  <2> QED BY <2>1, <2>2 DEF OrderedLedger
<1>4. \A e \in es : OldPair(<< Numbered(e), Filing(e) >>, e)
  BY EntryItems DEF OldPair
<1>5. \A x \in keyed : x.key \in [1..5 -> Int] /\ x.key[1] = x.row.date
  BY <1>4 DEF Numbers, OldPair, KeyOf, Parts
<1>6. \A x \in others : x.key \in [1..5 -> Int] /\ x.key[1] = x.row.date
  <2>1. \A x \in Filings(es) : x.key \in [1..5 -> Int] /\ x.key[1] = x.row.date
    BY <1>4 DEF Filings, OldPair, KeyOf, Parts
  <2>2. \A x \in A : x.key \in [1..5 -> Int] /\ x.key[1] = x.row.date
    BY AnchorItem DEF KeyOf, Parts
  <2> QED BY <2>1, <2>2
<1>7. \A x \in A : x.row.code = code => ~ (x.row.date <= day)
  <2> SUFFICES ASSUME NEW x \in A, x.row.code = code PROVE ~ (x.row.date <= day)
    OBVIOUS
  <2>1. PICK i \in Live(as) : i \in Nat /\ AnchorKey(x, i, as[i])
    BY AnchorItem
  <2>2. x.row.code = as[i].code /\ x.row.date = as[i].date
    BY <2>1 DEF AnchorKey
  <2> DEFINE d == as[i].date
  <2>3. d \in Int /\ d > day
    BY <2>1, <2>2, LiveType, AnchorRowType
  <2>4. ~ (d <= day)
    <3> HIDE DEF d
    <3> QED BY <1>1, <2>3
  <2> QED BY <2>2, <2>4
<1> HIDE DEF A
<1>8. /\ \A q \in Q : \E e \in own : q = << Numbered(e), Filing(e) >>
      /\ \A e \in own : << Numbered(e), Filing(e) >> \in Q
  OBVIOUS
<1>9. \A e \in own : Numbered(e).row = e.row /\ Filing(e).row = e.row
  BY DEF Numbered, Filing
<1>10. /\ \A x \in OwnKeyed(first, code) : \E e \in own : x = Numbered(e)
       /\ \A e \in own : Numbered(e) \in OwnKeyed(first, code)
  <2>1. ASSUME NEW x \in OwnKeyed(first, code) PROVE \E e \in own : x = Numbered(e)
    <3>1. x \in keyed /\ x.row.code = code /\ x.row.date <= day
      BY DEF OwnKeyed, UpToDay
    <3>2. PICK e \in es : x = Numbered(e)
      BY <3>1 DEF Numbers
    <3> QED BY <3>1, <3>2 DEF Numbered
  <2>2. ASSUME NEW e \in own PROVE Numbered(e) \in OwnKeyed(first, code)
    <3>1. Numbered(e) \in keyed
      BY DEF Numbers
    <3> HIDE DEF keyed
    <3> QED BY <1>9, <3>1 DEF OwnKeyed, UpToDay
  <2> QED BY <2>1, <2>2
<1>11. /\ \A y \in OwnKeyed(second, code) : \E e \in own : y = Filing(e)
       /\ \A e \in own : Filing(e) \in OwnKeyed(second, code)
  <2>1. ASSUME NEW y \in OwnKeyed(second, code) PROVE \E e \in own : y = Filing(e)
    <3>1. y \in others /\ y.row.code = code /\ y.row.date <= day
      BY DEF OwnKeyed, UpToDay
    <3>2. y \in Filings(es)
      BY <1>7, <3>1
    <3>3. PICK e \in es : y = Filing(e)
      BY <3>2 DEF Filings
    <3> QED BY <3>1, <3>3 DEF Filing
  <2>2. \A e \in own : Filing(e) \in OwnKeyed(second, code)
    BY DEF OwnKeyed, UpToDay, Filings, Filing
  <2> QED BY <2>1, <2>2
<1>12. \A p, q \in Q : LexLess(p[1].key, q[1].key) <=> LexLess(p[2].key, q[2].key)
  <2>1. \A q \in Q : \E e \in own : OldPair(q, e) /\ q[1].row.code = code
    <3>1. ASSUME NEW e \in own PROVE OldPair(<< Numbered(e), Filing(e) >>, e) /\ << Numbered(e), Filing(e) >>[1].row.code = code
      BY <1>4 DEF Numbered
    <3> QED BY <3>1
  <2>2. TiesKeepOrder(own, own)
    BY DEF TiesKeepOrder
  <2>3. Becomes(<<>>, {}, <<>>, own, own)
    BY DEF Becomes
  <2> HIDE DEF own, Q
  <2> SUFFICES ASSUME NEW p \in Q, NEW q \in Q
               PROVE  LexLess(p[1].key, q[1].key) <=> LexLess(p[2].key, q[2].key)
    OBVIOUS
  <2>4. p[1].row.code = q[1].row.code /\ (\E e \in own : OldPair(p, e)) /\ (\E e \in own : OldPair(q, e))
    BY <2>1
  <2> QED BY <2>2, <2>3, <2>4, PairsOrder
<1>13. Pairs(Q, OwnKeyed(first, code), OwnKeyed(second, code))
  <2> HIDE DEF own, Q, first, second
  <2>1. ASSUME NEW q \in Q PROVE q[1] \in OwnKeyed(first, code) /\ q[2] \in OwnKeyed(second, code) /\ q[1].row = q[2].row
    <3>1. PICK e \in own : q = << Numbered(e), Filing(e) >>
      BY <1>8
    <3>2. q[1] = Numbered(e) /\ q[2] = Filing(e)
      BY <3>1
    <3> QED BY <1>9, <1>10, <1>11, <3>2
  <2>2. ASSUME NEW x \in OwnKeyed(first, code) PROVE \E q \in Q : q[1] = x
    <3>1. PICK e \in own : x = Numbered(e)
      BY <1>10
    <3> DEFINE q == << Numbered(e), Filing(e) >>
    <3>2. q \in Q /\ q[1] = x
      BY <1>8, <3>1
    <3> QED BY <3>2
  <2>3. ASSUME NEW y \in OwnKeyed(second, code) PROVE \E q \in Q : q[2] = y
    <3>1. PICK e \in own : y = Filing(e)
      BY <1>11
    <3> DEFINE q == << Numbered(e), Filing(e) >>
    <3>2. q \in Q /\ q[2] = y
      BY <1>8, <3>1
    <3> QED BY <3>2
  <2> QED BY <1>12, <2>1, <2>2, <2>3 DEF Pairs
<1> HIDE DEF Q, own, keyed, others
<1>14. Keyed(first, LedgerRow(Codes)) /\ LedgerAsOf(SortedRows(keyed), day) = SortedRows(first)
  BY <1>1, <1>2, <1>5, DayOfSorted
<1>15. Keyed(second, LedgerRow(Codes)) /\ LedgerAsOf(SortedRows(others), day) = SortedRows(second)
  BY <1>1, <1>3, <1>6, DayOfSorted
<1> HIDE DEF first, second
<1>16. PositionState(SortedRows(first), code) = PositionState(SortedRows(second), code)
  BY <1>13, <1>14, <1>15, SameReplay
<1> QED BY <1>3, <1>14, <1>15, <1>16 DEF keyed

-----------------------------------------------------------------------------
(* What was known by a second is a ledger that was once the whole ledger, so *)
(* it replays as well.                                                       *)

KnownBy(es, cutoff) == {e \in es : e.at <= cutoff}

KnownReplays ==
  /\ \A e \in entries : e.at <= clock
  /\ \A cutoff \in 0..MaxClock : Accepts(OrderedLedger(KnownBy(entries, cutoff), <<>>))

\* A booking is dated now: what was known by an earlier second is as before, and
\* what is known by a later one is the ledger it leaves, which was replayed.
LEMMA KnownStep ==
  LedgerInv /\ KnownReplays /\ [Next]_vars /\ LedgerInv' /\ LedgerReplays' => KnownReplays'
<1> SUFFICES ASSUME LedgerInv, KnownReplays, [Next]_vars, LedgerInv', LedgerReplays'
             PROVE  KnownReplays'
  OBVIOUS
<1>1. clock \in 0..MaxClock /\ clock' \in 0..MaxClock /\ MaxClock \in Nat
  BY InputAssumption DEF LedgerInv, LedgerTypeOK
<1>2. /\ entries \subseteq Entry /\ entries' \subseteq Entry
      /\ \A e \in Entry : e.at \in 0..MaxClock
  BY DEF LedgerInv, LedgerTypeOK, Entry
<1>3. \/ entries' = entries /\ (clock' = clock \/ clock' = clock + 1)
      \/ /\ clock' = clock /\ entries \subseteq entries'
         /\ \A e \in entries' \ entries : e.at = clock
  <2>1. ASSUME NEW rows, NEW kind, entries' = Inserted(entries, rows, kind)
        PROVE  entries \subseteq entries' /\ \A e \in entries' \ entries : e.at = clock
    <3>1. ASSUME NEW e \in Inserted(entries, rows, kind) \ entries PROVE e.at = clock
      <4>1. PICK i \in Fresh(entries, rows) :
              e = [id |-> FirstId + Cardinality(entries) + Cardinality({j \in Fresh(entries, rows) : j < i}),
                   row |-> rows[i], via |-> kind, at |-> clock]
        BY DEF Inserted
      <4> QED BY <4>1
    <3>2. entries \subseteq Inserted(entries, rows, kind)
      BY DEF Inserted
    <3> QED BY <2>1, <3>1, <3>2
  <2>2. ASSUME NEW c \in Callers, ApplyStatement(c) \/ ApplyHistory(c) \/ ApplyOpening(c)
        PROVE  clock' = clock /\ \E rows, kind : entries' = Inserted(entries, rows, kind)
    BY <2>2 DEF ApplyStatement, ApplyHistory, ApplyOpening
  <2>3. \/ entries' = entries /\ (clock' = clock \/ clock' = clock + 1)
        \/ \E c \in Callers : ApplyStatement(c) \/ ApplyHistory(c) \/ ApplyOpening(c)
    BY DEF vars, Next, CheckStatement, CheckHistory, CheckOpening, RecordCostAnchor, DateCash,
       PreviewStatement, PreviewHistory, Previewed, ApplyRefused,
       OpeningRefused, ProjectCash, InsertCash, Tick
  <2> QED BY <2>1, <2>2, <2>3
<1>4. \A e \in entries' : e.at <= clock'
  <2> SUFFICES ASSUME NEW e \in entries' PROVE e.at <= clock'
    OBVIOUS
  <2>1. e.at \in 0..MaxClock /\ clock <= clock'
    BY <1>1, <1>2, <1>3
  <2>2. e.at <= clock
    BY <1>1, <1>3 DEF KnownReplays
  <2> QED BY <1>1, <2>1, <2>2
<1>5. ASSUME NEW cutoff \in 0..MaxClock
      PROVE  Accepts(OrderedLedger(KnownBy(entries', cutoff), <<>>))
  <2>1. Accepts(OrderedLedger(KnownBy(entries, cutoff), <<>>))
    BY DEF KnownReplays
  <2>2. CASE entries' = entries
    BY <2>1, <2>2
  <2>3. CASE clock' = clock /\ entries \subseteq entries' /\ \A e \in entries' \ entries : e.at = clock
    <3>1. CASE cutoff < clock
      <4>1. \A e \in entries' \ entries : ~ (e.at <= cutoff)
        BY <1>1, <2>3, <3>1
      <4>2. KnownBy(entries', cutoff) = KnownBy(entries, cutoff)
        BY <2>3, <4>1 DEF KnownBy
      <4> QED BY <2>1, <4>2
    <3>2. CASE ~ (cutoff < clock)
      <4>1. \A e \in entries' : e.at <= cutoff
        BY <1>1, <1>2, <1>4, <2>3, <3>2
      <4>2. KnownBy(entries', cutoff) = entries'
        BY <4>1 DEF KnownBy
      <4> QED BY <4>2 DEF LedgerReplays
    <3> QED BY <3>1, <3>2
  <2> QED BY <1>3, <2>2, <2>3
<1> QED BY <1>4, <1>5 DEF KnownReplays

\* A snapshot of what was known replays: it has the order of the checked ledger.
LEMMA SnapshotAccepted ==
  ASSUME NEW es \in SUBSET Entry, Distinct(es), NEW day \in Dates,
         NEW cutoff, Accepts(OrderedLedger(KnownBy(es, cutoff), <<>>)), NEW code \in Codes,
         SameDigits({e \in es : e.row.code = code /\ e.at <= cutoff})
  PROVE  PositionState(SnapshotLedger(es, day, cutoff), code).ok
<1> DEFINE known == KnownBy(es, cutoff)
<1>1. known \subseteq es
  BY DEF KnownBy
<1>2. \A e, f \in known : e.row.code = code /\ Tied(e.row, f.row) => Digits(e.id) = Digits(f.id)
  BY DEF KnownBy, SameDigits, Tied
<1>3. SnapshotLedger(es, day, cutoff)
        = LedgerAsOf(SortedRows(KeyedEntries(known, [n \in Ids(known) |-> << n, 0 >>])), day)
  BY DEF SnapshotLedger, KnownBy
<1>4. Accepts(OrderedLedger(known, <<>>))
  OBVIOUS
<1> HIDE DEF known
<1>5. known \in SUBSET Entry /\ Distinct(known)
  BY <1>1, FS_Subset DEF Distinct
<1>6. <<>> \in Seq(CostAnchors) /\ Live(<<>>) = {}
  BY DEF Live
<1>7. PositionState(LedgerAsOf(SortedRows(Numbers(known)), day), code)
        = PositionState(LedgerAsOf(OrderedLedger(known, <<>>), day), code)
  BY <1>2, <1>5, <1>6, SnapshotReplay
<1>8. SnapshotLedger(es, day, cutoff) = LedgerAsOf(SortedRows(Numbers(known)), day)
  BY <1>3, EntrySets
<1>9. Accepts(LedgerAsOf(OrderedLedger(known, <<>>), day))
  BY <1>4, <1>5, EveryDayAccepted
<1> QED BY <1>7, <1>8, <1>9 DEF Accepts

(* Whatever batches are booked out of order, twice or at once, and whatever  *)
(* anchors are recorded, every day of the ledger itself replays, and so does *)
(* every snapshot of a day and a cutoff, of each security whose tied entries *)
(* have ids of as many digits: `show`, the closed cycles and such snapshots  *)
(* never meet an oversold security.                                          *)
THEOREM DaysReplay == Spec => []EveryDayReplays
<1>1. Init => LedgerReplays /\ KnownReplays
  <2> SUFFICES ASSUME Init PROVE LedgerReplays /\ KnownReplays
    OBVIOUS
  <2>1. entries = {}
    BY DEF Init
  <2>2. \A cutoff \in 0..MaxClock : KnownBy(entries, cutoff) = {}
    BY <2>1 DEF KnownBy
  <2> QED BY <2>1, <2>2, EmptyReplays, NothingAccepted DEF KnownReplays
<1>2. LedgerInv /\ IdsInv /\ LedgerReplays /\ KnownReplays => EveryDayReplays
  <2> SUFFICES ASSUME LedgerInv, IdsInv, LedgerReplays, KnownReplays, NEW day \in Dates
               PROVE  /\ Accepts(LedgerAsOf(OrderedLedger(entries, <<>>), day))
                      /\ \A cutoff \in 0..MaxClock, code \in Codes :
                           SameDigits({e \in entries : e.row.code = code /\ e.at <= cutoff}) =>
                             PositionState(SnapshotLedger(entries, day, cutoff), code).ok
    BY DEF EveryDayReplays
  <2>1. entries \in SUBSET Entry /\ Distinct(entries)
    BY DistinctIds DEF LedgerInv, LedgerTypeOK, Entry, IdsInv
  <2>2. Accepts(LedgerAsOf(OrderedLedger(entries, <<>>), day))
    BY <2>1, EveryDayAccepted DEF LedgerReplays
  <2>3. ASSUME NEW cutoff \in 0..MaxClock, NEW code \in Codes,
               SameDigits({e \in entries : e.row.code = code /\ e.at <= cutoff})
        PROVE  PositionState(SnapshotLedger(entries, day, cutoff), code).ok
    <3>1. Accepts(OrderedLedger(KnownBy(entries, cutoff), <<>>))
      BY DEF KnownReplays
    <3> QED BY <2>1, <2>3, <3>1, SnapshotAccepted
  <2> QED BY <2>2, <2>3
<1> QED BY <1>1, <1>2, ReplaysStep, KnownStep, IdsInduction, PTL DEF Spec

(* A snapshot without a cutoff holds of a security what the report of its    *)
(* day shows, unless a cost anchor of the security counts by that day or     *)
(* tied entries of it have ids of more and of fewer digits.  (The first is   *)
(* how SnapshotIsReplay fails: a snapshot does not read the anchors.)        *)
CleanSnapshot ==
  \A day \in Dates, code \in Codes :
    /\ \A e, f \in entries :
         e.row.code = code /\ Tied(e.row, f.row) => Digits(e.id) = Digits(f.id)
    /\ \A i \in Live(anchors) : anchors[i].code = code => anchors[i].date > day
    => PositionState(SnapshotLedger(entries, day, MaxClock), code)
         = PositionState(LedgerAsOf(OrderedLedger(entries, anchors), day), code)

THEOREM SnapshotShows == Spec => []CleanSnapshot
<1>1. LedgerInv /\ IdsInv => CleanSnapshot
  <2> SUFFICES ASSUME LedgerInv, IdsInv, NEW day \in Dates, NEW code \in Codes,
                      \A e, f \in entries :
                        e.row.code = code /\ Tied(e.row, f.row) => Digits(e.id) = Digits(f.id),
                      \A i \in Live(anchors) : anchors[i].code = code => anchors[i].date > day
               PROVE  PositionState(SnapshotLedger(entries, day, MaxClock), code)
                        = PositionState(LedgerAsOf(OrderedLedger(entries, anchors), day), code)
    BY DEF CleanSnapshot
  <2>1. entries \in SUBSET Entry /\ IdsDiffer(entries) /\ anchors \in Seq(CostAnchors)
    BY DEF LedgerInv, LedgerTypeOK, Entry, IdsInv
  <2> DEFINE known == {e \in entries : e.at <= MaxClock}
  <2>2. known = entries
    <3>1. \A e \in Entry : e.at <= MaxClock
      BY DEF Entry
    <3> QED BY <2>1, <3>1
  <2>3. SnapshotLedger(entries, day, MaxClock)
          = LedgerAsOf(SortedRows(KeyedEntries(known, [n \in Ids(known) |-> << n, 0 >>])), day)
    BY DEF SnapshotLedger
  <2> HIDE DEF known
  <2>4. SnapshotLedger(entries, day, MaxClock) = LedgerAsOf(SortedRows(Numbers(entries)), day)
    BY <2>2, <2>3, EntrySets
  <2> QED BY <2>1, <2>4, SnapshotReplay, DistinctIds
<1> QED BY <1>1, IdsInduction, PTL
=============================================================================
