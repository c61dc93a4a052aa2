--------------------------- MODULE PortfolioLedger ---------------------------
(***************************************************************************)
(* One account of src/portfolio/store.py: its ledger, its opening baseline, *)
(* its cost anchors and its cash snapshots, written by several callers.     *)
(* Every caller is a process of its own.  A connection reads without a lock *)
(* until its first INSERT, so an operation is one step for each connection  *)
(* or read before that INSERT and one step for the transaction; a           *)
(* transaction that raises leaves nothing behind.                           *)
(***************************************************************************)
EXTENDS PositionAccounting, FiniteSets, FiniteSetsExt, TLC

CONSTANTS
  Callers,      \* processes that use the store
  Codes,        \* the securities
  Dates,        \* trade dates, numbered from 1
  Openings,     \* opening snapshots: sequences of OPENING rows of one date
  Statements,   \* parsed broker statements: sequences of rows
  CostAnchors,  \* cost rebases a person may register
  Balances,     \* day-end balances [asOf, amount] a person may confirm
  FirstId,      \* entry_id of the account's first entry; the ids before it are other accounts'
  MaxOps,       \* bound: operations started
  MaxClock      \* bound: seconds that pass

NoDate == 0
EndOfDay == 99      \* '99:99:99', the sort key of a row without a time
IdDigits == 4       \* bound: entry ids have at most this many digits

FlowTypes == {"BUY", "SELL", "DIVIDEND", "CASH_FEE"}
Rows == [date : Dates, time : 1..EndOfDay, type : FlowTypes \union {"OPENING"},
         code : Codes, qty : Nat, amount : Int]

ASSUME InputAssumption ==
  /\ Dates \subseteq Nat \ {NoDate}
  /\ FirstId \in Nat \ {0}
  /\ MaxOps \in Nat /\ MaxClock \in Nat
  /\ \A s \in Statements : s \in Seq(Rows) /\ \A i \in DOMAIN s : s[i].type \in FlowTypes
  /\ \A o \in Openings :
       /\ o \in Seq(Rows) /\ o # <<>>
       /\ \A i \in DOMAIN o : o[i].type = "OPENING" /\ o[i].date = o[1].date
  /\ \A a \in CostAnchors : a.date \in Dates /\ a.code \in Codes /\ a.qty \in Nat \ {0} /\ a.cost \in Int
  /\ \A b \in Balances : b.asOf \in Nat /\ b.amount \in Nat

VARIABLES
  baseline,   \* accounts.baseline_date
  entries,    \* ledger_entries: a set of [id, row, via, at], via the import_kind of
              \* its batch, at its created_at
  anchors,    \* position_cost_rebases, in the order they were recorded
  cash,       \* cash_balance_snapshots, by rowid
  clock,      \* utc_now(), whole seconds
  task,       \* the locals of each caller
  draft,      \* the cash snapshot a caller is about to insert, as a sequence
  ops,        \* operations started
  raced       \* history: an opening snapshot was committed on a stale check

vars == <<baseline, entries, anchors, cash, clock, task, draft, ops, raced>>

Idle == [pc |-> "idle", rows |-> <<>>, base |-> NoDate, seen |-> <<0, 0>>]

(***************************************************************************)
(* The order of a replay (_ordered_ledger): by date, by time, rebases last, *)
(* and then by str(entry_id), so that "10" comes before "9".                *)
(***************************************************************************)
LexLess(a, b) == \E i \in DOMAIN a : a[i] < b[i] /\ \A j \in 1..(i - 1) : a[j] = b[j]

Powers == << 1, 10, 100, 1000, 10000 >>
Digits(n) == Cardinality({d \in 1..IdDigits : Powers[d] <= n})
AsText(n) == << n * Powers[IdDigits + 1 - Digits(n)], Digits(n) >>

\* The rows of a set of [key, row], by their keys, which differ (TLC evaluates
\* the places once, and the sequence once for being concatenated).
SortedRows(keyed) ==
  LET placed == {[place |-> Cardinality({y \in keyed : LexLess(y.key, x.key)}) + 1,
                  row |-> x.row] : x \in keyed}
  IN <<>> \o [n \in 1..Cardinality(keyed) |-> (CHOOSE p \in placed : p.place = n).row]

\* The reviewed anchors that count: of one security and date, the newest.
Live(as) ==
  {i \in DOMAIN as :
    /\ as[i].status = "reviewed"
    /\ \A j \in (i + 1)..Len(as) :
         as[j].status = "reviewed" =>
           <<as[j].code, as[j].date>> # <<as[i].code, as[i].date>>}

Ids(es) == {e.id : e \in es}

\* What SELECT returns: entries and anchors with their sort keys.
KeyedEntries(es, idKey) ==
  {[key |-> <<e.row.date, e.row.time, 0>> \o idKey[e.id], row |-> e.row] : e \in es}

\* Mutant: an anchor comes before the trades of its day.
KeyedAnchorsFirst(as) ==
  {[key |-> <<as[i].date, 0, 1, i, 0>>,
    row |-> [date |-> as[i].date, time |-> EndOfDay, type |-> "COST_REBASE",
             code |-> as[i].code, qty |-> as[i].qty, amount |-> as[i].cost]] : i \in Live(as)}

KeyedAnchors(as) ==
  {[key |-> <<as[i].date, EndOfDay, 1, i, 0>>,
    row |-> [date |-> as[i].date, time |-> EndOfDay, type |-> "COST_REBASE",
             code |-> as[i].code, qty |-> as[i].qty, amount |-> as[i].cost]] : i \in Live(as)}

OrderedLedger(es, as) ==
  SortedRows(KeyedEntries(es, [n \in Ids(es) |-> AsText(n)]) \union KeyedAnchors(as))

\* The ledger as a report of that day reads it: in the order of dates, what the
\* WHERE leaves is the beginning.
LedgerAsOf(ledger, day) ==
  SubSeq(ledger, 1, Cardinality({i \in DOMAIN ledger : ledger[i].date <= day}))

\* build_position_states raises nothing.
Accepts(rows) == \A code \in Codes : PositionState(rows, code).ok

\* Mutant: what the preview accepted is booked without a replay.
ReplaysTrusted(es, as) == TRUE

Replays(es, as) == Accepts(OrderedLedger(es, as))

(***************************************************************************)
(* INSERT OR IGNORE: rows are identified by their content (dedupe_key).     *)
(***************************************************************************)
Booking(es) == {e.row : e \in es}

\* The places of the rows that are neither in the ledger nor earlier in the batch.
Fresh(es, rows) ==
  {i \in DOMAIN rows : rows[i] \notin Booking(es) /\ \A j \in 1..(i - 1) : rows[j] # rows[i]}

Inserted(es, rows, kind) ==
  es \union {[id |-> FirstId + Cardinality(es) + Cardinality({j \in Fresh(es, rows) : j < i}),
              row |-> rows[i], via |-> kind, at |-> clock] : i \in Fresh(es, rows)}

\* The batch in the order of a preview, which knows rows by their line in the file.
KeyedBatch(es, rows) ==
  {[key |-> <<rows[i].date, rows[i].time, 0, i + 1, 1>>, row |-> rows[i]] : i \in Fresh(es, rows)}

\* preview_statement sorts an entry of the ledger by its id as a number.
PreviewOrder(es, as, rows) ==
  SortedRows(KeyedEntries(es, [n \in Ids(es) |-> <<n, 0>>]) \union KeyedAnchors(as)
               \union KeyedBatch(es, rows))

(***************************************************************************)
(* Cash (_statement_cash_projection, _write_statement_cash_snapshot)        *)
(***************************************************************************)
\* The first row of ORDER BY key DESC.
Newest(key) == CHOOSE i \in DOMAIN key : \A j \in DOMAIN key \ {i} : LexLess(key[j], key[i])

ByDate(cs, i) == <<cs[i].asOf, cs[i].at, i>>

ByUser(cs) == {i \in DOMAIN cs : cs[i].source = "user_provided"}
ByStatement(cs) == {i \in DOMAIN cs : cs[i].source = "statement_calculated"}

\* The balance a reader is shown (cash_balance).
Shown(cs) == cs[Newest([i \in DOMAIN cs |-> ByDate(cs, i)])]

AfterAnchor(es, day) == {e \in es : e.row.date > day /\ e.row.type \in FlowTypes}

\* Mutant: a negative amount is written too.
CashProjectionAnySign(es, cs, now) ==
  IF ByUser(cs) = {} THEN <<>>
  ELSE LET a == Newest([i \in ByUser(cs) |-> ByDate(cs, i)])
           flows == AfterAnchor(es, cs[a].asOf)
           amount == cs[a].amount + MapThenSumSet(LAMBDA e : CashFlow(e.row), flows)
       IN IF flows = {} THEN <<>>
          ELSE << [asOf |-> Max({e.row.date : e \in flows}), amount |-> amount,
                   source |-> "statement_calculated", at |-> now,
                   anchor |-> a, rows |-> Booking(flows)] >>

\* The snapshot that the ledger calls for: a sequence of one, or empty when it
\* has no anchor, nothing after its anchor or a negative amount.
CashProjection(es, cs, now) ==
  IF ByUser(cs) = {} THEN <<>>
  ELSE LET a == Newest([i \in ByUser(cs) |-> ByDate(cs, i)])
           flows == AfterAnchor(es, cs[a].asOf)
           amount == cs[a].amount + MapThenSumSet(LAMBDA e : CashFlow(e.row), flows)
       IN IF flows = {} \/ amount < 0 THEN <<>>
          ELSE << [asOf |-> Max({e.row.date : e \in flows}), amount |-> amount,
                   source |-> "statement_calculated", at |-> now,
                   anchor |-> a, rows |-> Booking(flows)] >>

\* Nothing is written when the last calculated snapshot says the same.
SameSnapshot(s, t) ==
  /\ s.asOf = t.asOf /\ s.amount = t.amount
  /\ s.anchor = t.anchor /\ s.rows = t.rows

\* Mutant: one calculated snapshot a day.
UnchangedThatDay(cs, projection) ==
  \E i \in ByStatement(cs) : cs[i].asOf = projection[1].asOf

Unchanged(cs, projection) ==
  ByStatement(cs) # {} /\
    SameSnapshot(cs[Newest([i \in ByStatement(cs) |-> <<cs[i].at, i>>])], projection[1])

WithSnapshot(cs, projection) ==
  IF projection = <<>> \/ Unchanged(cs, projection) THEN cs ELSE cs \o projection

(***************************************************************************)
(* What a stored snapshot is built from (build_snapshot), as of a day and   *)
(* of the second up to which things were known.                             *)
(***************************************************************************)
\* The ledger by ids as numbers; cost anchors are not read.
SnapshotLedger(es, day, cutoff) ==
  LET known == {e \in es : e.at <= cutoff}
  IN LedgerAsOf(SortedRows(KeyedEntries(known, [n \in Ids(known) |-> <<n, 0>>])), day)

KnownBalances(cs, day, cutoff) == {i \in DOMAIN cs : cs[i].asOf <= day /\ cs[i].at <= cutoff}

\* Mutant: a balance recorded after the cutoff is taken too.
SnapshotCashLatest(cs, day, cutoff) ==
  LET known == KnownBalances(cs, day, MaxClock)
      last == {i \in known : \A j \in known :
                 ~ LexLess(<<cs[i].asOf, cs[i].at>>, <<cs[j].asOf, cs[j].at>>)}
      states == {cs[i] : i \in last}
  IN IF Cardinality(states) = 1 THEN states ELSE {}

\* The last balance known; unavailable when different ones share its date and second.
SnapshotCash(cs, day, cutoff) ==
  LET known == KnownBalances(cs, day, cutoff)
      last == {i \in known : \A j \in known :
                 ~ LexLess(<<cs[i].asOf, cs[i].at>>, <<cs[j].asOf, cs[j].at>>)}
      states == {cs[i] : i \in last}
  IN IF Cardinality(states) = 1 THEN states ELSE {}

(***************************************************************************)
(* The checks                                                              *)
(***************************************************************************)
DatesOf(rows) == {rows[i].date : i \in DOMAIN rows}

\* Mutant: the day of the baseline is let in.
AfterBaselineOrOnIt(rows) == baseline # NoDate => \A d \in DatesOf(rows) : d >= baseline

AfterBaseline(rows) == baseline # NoDate => \A d \in DatesOf(rows) : d > baseline
UpToBaseline(rows) == baseline # NoDate /\ \A d \in DatesOf(rows) : d <= baseline

\* A historical batch starts from nothing, ends with nothing and trades both ways.
SelfContained(rows) ==
  LET ordered == SortedRows({[key |-> <<rows[i].date, rows[i].time, i>>, row |-> rows[i]] :
                               i \in DOMAIN rows})
  IN \A code \in {rows[i].code : i \in DOMAIN rows} :
       /\ PositionState(ordered, code).ok
       /\ PositionState(ordered, code).qty = 0
       /\ {"BUY", "SELL"} \subseteq {rows[i].type : i \in {j \in DOMAIN rows : rows[j].code = code}}

NoFlows == \A e \in entries : e.row.type = "OPENING"

OpeningAllowed(day) == baseline \in {NoDate, day} /\ NoFlows

\* Only grows, so that two equal versions are one ledger.
Version == <<Cardinality(entries), Len(anchors)>>

(***************************************************************************)
(* Statements (preview_statement, apply_statement and the historical pair)  *)
(***************************************************************************)
Begin(c, pc, rows) ==
  /\ task[c].pc = "idle"
  /\ ops < MaxOps
  /\ ops' = ops + 1
  /\ task' = [task EXCEPT ![c] = [pc |-> pc, rows |-> rows, base |-> baseline, seen |-> <<0, 0>>]]

CheckStatement(c, rows) ==
  /\ AfterBaseline(rows)
  /\ Begin(c, "statement", rows)
  /\ UNCHANGED <<baseline, entries, anchors, cash, clock, raced, draft>>

CheckHistory(c, rows) ==
  /\ UpToBaseline(rows)
  /\ SelfContained(rows)
  /\ Begin(c, "history", rows)
  /\ UNCHANGED <<baseline, entries, anchors, cash, clock, raced, draft>>

Previewed(c, accepted, next) ==
  /\ task' = [task EXCEPT ![c] =
                IF accepted
                THEN [pc |-> next, rows |-> @.rows, base |-> @.base, seen |-> Version]
                ELSE Idle]
  /\ UNCHANGED <<baseline, entries, anchors, cash, clock, ops, raced, draft>>

PreviewStatement(c) ==
  /\ task[c].pc = "statement"
  /\ Previewed(c, Accepts(PreviewOrder(entries, anchors, task[c].rows)), "applyStatement")

\* The preview of a historical batch cannot sort a rebase: int(None) raises.
PreviewHistory(c) ==
  /\ task[c].pc = "history"
  /\ Previewed(c, /\ Live(anchors) = {}
                  /\ Accepts(PreviewOrder(entries, anchors, task[c].rows)), "applyHistory")

\* The transaction: insert, replay, and the cash snapshot of a statement.
ApplyStatement(c) ==
  LET new == Inserted(entries, task[c].rows, "broker_statement")
  IN /\ task[c].pc = "applyStatement"
     /\ Replays(new, anchors)
     /\ entries' = new
     /\ cash' = WithSnapshot(cash, CashProjection(new, cash, clock))
     /\ task' = [task EXCEPT ![c] = Idle]
     /\ UNCHANGED <<baseline, anchors, clock, ops, raced, draft>>

ApplyHistory(c) ==
  LET new == Inserted(entries, task[c].rows, "historical_closed_statement")
  IN /\ task[c].pc = "applyHistory"
     /\ Replays(new, anchors)
     /\ entries' = new
     /\ task' = [task EXCEPT ![c] = Idle]
     /\ UNCHANGED <<baseline, anchors, cash, clock, ops, raced, draft>>

\* The replay raises and the transaction is rolled back.
ApplyRefused(c) ==
  /\ \/ /\ task[c].pc = "applyStatement"
        /\ ~Replays(Inserted(entries, task[c].rows, "broker_statement"), anchors)
     \/ /\ task[c].pc = "applyHistory"
        /\ ~Replays(Inserted(entries, task[c].rows, "historical_closed_statement"), anchors)
  /\ task' = [task EXCEPT ![c] = Idle]
  /\ UNCHANGED <<baseline, entries, anchors, cash, clock, ops, raced, draft>>

(***************************************************************************)
(* The opening snapshot (apply_opening_snapshot)                           *)
(***************************************************************************)
CheckOpening(c, rows) ==
  /\ OpeningAllowed(rows[1].date)
  /\ Begin(c, "applyOpening", rows)
  /\ UNCHANGED <<baseline, entries, anchors, cash, clock, raced, draft>>

\* The check no longer holds, or another import has read an older baseline.
StaleOpening(c, day) ==
  \/ ~OpeningAllowed(day)
  \/ \E d \in Callers \ {c} :
       /\ task[d].pc \in {"statement", "applyStatement", "history", "applyHistory"}
       /\ task[d].base # day

ApplyOpening(c) ==
  LET rows == task[c].rows
      new == Inserted(entries, rows, "opening_snapshot")
  IN /\ task[c].pc = "applyOpening"
     /\ Replays(new, anchors)
     /\ entries' = new
     /\ baseline' = rows[1].date
     /\ raced' = (raced \/ StaleOpening(c, rows[1].date))
     /\ task' = [task EXCEPT ![c] = Idle]
     /\ UNCHANGED <<anchors, cash, clock, ops, draft>>

OpeningRefused(c) ==
  /\ task[c].pc = "applyOpening"
  /\ ~Replays(Inserted(entries, task[c].rows, "opening_snapshot"), anchors)
  /\ task' = [task EXCEPT ![c] = Idle]
  /\ UNCHANGED <<baseline, entries, anchors, cash, clock, ops, raced, draft>>

(***************************************************************************)
(* Cost anchors (record_position_cost_rebases): nothing is replayed.        *)
(***************************************************************************)
SameAnchor(a, b) ==
  <<a.code, a.date, a.source, a.status>> = <<b.code, b.date, b.source, b.status>>

RecordCostAnchor(c, a) ==
  /\ task[c].pc = "idle"
  /\ ops < MaxOps
  /\ ops' = ops + 1
  /\ \A i \in DOMAIN anchors : ~SameAnchor(anchors[i], a)
  /\ anchors' = Append(anchors, a)
  /\ UNCHANGED <<baseline, entries, cash, clock, task, raced, draft>>

(***************************************************************************)
(* set_cash_balance takes its time before it connects; recalculate_cash_    *)
(* from_ledger reads everything before its first INSERT.                    *)
(***************************************************************************)
DateCash(c, b) ==
  /\ Begin(c, "insertCash", <<>>)
  /\ draft' = [draft EXCEPT ![c] = << [asOf |-> b.asOf, amount |-> b.amount,
                                       source |-> "user_provided", at |-> clock,
                                       anchor |-> 0, rows |-> {}] >>]
  /\ UNCHANGED <<baseline, entries, anchors, cash, clock, raced>>

ProjectCash(c) ==
  LET projection == CashProjection(entries, cash, clock)
  IN /\ Begin(c, "insertCash", <<>>)
     /\ projection # <<>>
     /\ ~Unchanged(cash, projection)
     /\ draft' = [draft EXCEPT ![c] = projection]
     /\ UNCHANGED <<baseline, entries, anchors, cash, clock, raced>>

InsertCash(c) ==
  /\ task[c].pc = "insertCash"
  /\ cash' = cash \o draft[c]
  /\ draft' = [draft EXCEPT ![c] = <<>>]
  /\ task' = [task EXCEPT ![c] = Idle]
  /\ UNCHANGED <<baseline, entries, anchors, clock, ops, raced>>

Tick ==
  /\ clock < MaxClock
  /\ clock' = clock + 1
  /\ UNCHANGED <<baseline, entries, anchors, cash, task, ops, raced, draft>>

Init ==
  /\ baseline = NoDate
  /\ entries = {}
  /\ anchors = <<>>
  /\ cash = <<>>
  /\ clock = 0
  /\ task = [c \in Callers |-> Idle]
  /\ draft = [c \in Callers |-> <<>>]
  /\ ops = 0
  /\ raced = FALSE

Next ==
  \/ \E c \in Callers :
       \/ \E rows \in Statements : CheckStatement(c, rows) \/ CheckHistory(c, rows)
       \/ \E rows \in Openings : CheckOpening(c, rows)
       \/ \E a \in CostAnchors : RecordCostAnchor(c, a)
       \/ \E b \in Balances : DateCash(c, b)
       \/ PreviewStatement(c) \/ PreviewHistory(c)
       \/ ApplyStatement(c) \/ ApplyHistory(c) \/ ApplyRefused(c)
       \/ ApplyOpening(c) \/ OpeningRefused(c)
       \/ ProjectCash(c) \/ InsertCash(c)
  \/ Tick

Spec == Init /\ [][Next]_vars

(***************************************************************************)
(* Properties                                                              *)
(***************************************************************************)
Snapshots == [asOf : Nat, amount : Nat, source : {"user_provided", "statement_calculated"},
              at : 0..MaxClock, anchor : Nat, rows : SUBSET Rows]

Batches == Statements \union Openings \union {<<>>}

Tasks == [pc : {"idle", "statement", "applyStatement", "history", "applyHistory",
                "applyOpening", "insertCash"},
          rows : Batches, base : Dates \union {NoDate}, seen : Nat \X Nat]

Kinds == {"opening_snapshot", "broker_statement", "historical_closed_statement"}

LedgerTypeOK ==
  /\ baseline \in Dates \union {NoDate}
  /\ entries \subseteq [id : Nat, row : Rows, via : Kinds, at : 0..MaxClock]
  /\ anchors \in Seq(CostAnchors)
  /\ clock \in 0..MaxClock
  /\ task \in [Callers -> Tasks]
  /\ ops \in 0..MaxOps
  /\ raced \in BOOLEAN

\* No snapshot is negative.
CashTypeOK == cash \in Seq(Snapshots) /\ draft \in [Callers -> Seq(Snapshots)]

(* The type invariant: among the rest, no snapshot of cash is ever negative. *)
TypeOK == LedgerTypeOK /\ CashTypeOK

\* Rows of one security, day and time: their ids decide in which order they are replayed.
Tied(a, b) == a.code = b.code /\ a.date = b.date /\ a.time = b.time

\* The order of the ids is the same as text and as numbers.
SameDigits(es) == \A e, f \in es : Tied(e.row, f.row) => Digits(e.id) = Digits(f.id)

(* Without cost anchors the ledger of every day replays, in whatever order   *)
(* batches were booked, and booked again, and by whom: `show` and the closed *)
(* cycles never meet an oversold security (store.py:1120, 1240, 1398 check   *)
(* the ledger of the last day only).  So does every snapshot of a day and a  *)
(* cutoff, of each security whose tied ids are as long as each other: the    *)
(* imports check the order of ids as text, build_snapshot replays them as    *)
(* numbers (store.py:2233), and may refuse what `show` accepts.              *)
EveryDayReplays ==
  \A day \in Dates :
    /\ Accepts(LedgerAsOf(OrderedLedger(entries, <<>>), day))
    /\ \A cutoff \in 0..MaxClock, code \in Codes :
         SameDigits({e \in entries : e.row.code = code /\ e.at <= cutoff}) =>
           PositionState(SnapshotLedger(entries, day, cutoff), code).ok

\* What the trades alone hold of an anchor's security when its day ends.
HeldAt(a) == PositionState(LedgerAsOf(OrderedLedger(entries, <<>>), a.date), a.code).qty

(* Cost anchors are recorded without a replay, and one may stop every replay *)
(* and so every import.  It does so only while it counts and its quantity is *)
(* not what the trades hold on its day: no other anchor and no batch booked  *)
(* before or after it stops anything, and when a fitting anchor of its day   *)
(* replaces it, the ledger replays again.                                    *)
OnlyMisfitsBlock ==
  Accepts(OrderedLedger(entries, anchors)) <=>
    \A i \in Live(anchors) : anchors[i].qty = HeldAt(anchors[i])

(* On every day that replays, no money appears or vanishes: realised profit, *)
(* cash income and remaining cost account for every flow.                    *)
BooksBalance ==
  LET ledger == OrderedLedger(entries, anchors)
  IN \A day \in Dates :
       LET rows == LedgerAsOf(ledger, day)
       IN Accepts(rows) => \A code \in Codes : Balanced(rows, code)

(* On every day that replays, the position view, the closed-cycle view and   *)
(* the operation view agree on the profit and on the cycles.                 *)
CyclesAgree ==
  LET ledger == OrderedLedger(entries, anchors)
  IN \A day \in Dates :
       LET rows == LedgerAsOf(ledger, day)
       IN Accepts(rows) => \A code \in Codes : Agree(rows, code)

(* What the baseline is for: openings lie on it, statements after it and     *)
(* historical batches not after it, so nothing is counted twice, unless an   *)
(* opening snapshot was committed on a check that had become stale.          *)
BaselineSplits ==
  ~raced /\ baseline # NoDate =>
    \A e \in entries :
      /\ e.via = "opening_snapshot" => e.row.date = baseline
      /\ e.via = "broker_statement" => e.row.date > baseline
      /\ e.via = "historical_closed_statement" => e.row.date <= baseline

(* After a statement is booked, the balance that is shown is the one its     *)
(* ledger calls for, whichever balances were confirmed or calculated before  *)
(* and in whichever second.                                                  *)
StatementShowsCash ==
  [][\A c \in Callers :
       ApplyStatement(c) =>
         LET due == CashProjection(entries', cash, clock)
         IN due # <<>> => SameSnapshot(Shown(cash'), due[1])]_vars

Positions(es) ==
  [code \in Codes |->
     LET p == PositionState(OrderedLedger(es, <<>>), code) IN <<p.qty, p.cost>>]

NothingHeldBefore(day) ==
  LET eve == LedgerAsOf(OrderedLedger(entries, <<>>), day - 1)
  IN \A code \in Codes : PositionState(eve, code).qty = 0

\* The entries a historical batch has just added.
History == {e \in entries' \ entries : e.via = "historical_closed_statement"}

(* A historical batch changes no current position: SKILL.md:91 says that    *)
(* "current positions plus all baseline-scoped summary fields must remain    *)
(* identical before and after import".                                       *)
HistoryLeavesPositions ==
  [][History # {} => Positions(entries') = Positions(entries)]_vars

(* It does not when it ends before the baseline's day, shares no row with    *)
(* the ledger, and nothing was held on the eve of the baseline: an older     *)
(* history that ends on the baseline's day would take it into its cycle.     *)
OlderHistoryLeavesPositions ==
  [][\A c \in Callers :
       /\ ApplyHistory(c)
       /\ NothingHeldBefore(baseline)
       /\ \A i \in DOMAIN task[c].rows : task[c].rows[i].date < baseline
       /\ Fresh(entries, task[c].rows) = DOMAIN task[c].rows
       => Positions(entries') = Positions(entries)]_vars

(* A statement that the preview accepted is booked, if nobody wrote in       *)
(* between: PORTFOLIO_TRACKER.md:282 says to apply what previews cleanly.    *)
PreviewedApplies ==
  \A c \in Callers :
    task[c].pc = "applyStatement" /\ task[c].seen = Version /\ Replays(entries, anchors) =>
      Replays(Inserted(entries, task[c].rows, "broker_statement"), anchors)

(* What was known by a second that is over stays as it is: a snapshot that is *)
(* rebuilt for the same day and cutoff reads the same trades, whatever was    *)
(* imported since, and the same balance, unless one arrives that was dated    *)
(* before its caller connected (_snapshot_ledger, _snapshot_cash).            *)
PastStaysKnown ==
  [][\A cutoff \in 0..MaxClock, day \in Dates : cutoff < clock =>
       /\ SnapshotLedger(entries', day, cutoff) = SnapshotLedger(entries, day, cutoff)
       /\ \/ SnapshotCash(cash', day, cutoff) = SnapshotCash(cash, day, cutoff)
          \/ \E c \in Callers : InsertCash(c) /\ draft[c][1].at <= cutoff]_vars

(* A snapshot without a cutoff has the positions that the report of its day  *)
(* shows: PORTFOLIO_TRACKER.md:199 says that `snapshot` stores the result of *)
(* the replay that `show --as-of` makes.                                     *)
SnapshotIsReplay ==
  \A day \in Dates, code \in Codes :
    LET shown == PositionState(LedgerAsOf(OrderedLedger(entries, anchors), day), code)
        stored == PositionState(SnapshotLedger(entries, day, MaxClock), code)
    IN shown.ok => <<stored.qty, stored.cost>> = <<shown.qty, shown.cost>>
=============================================================================
