------------------------- MODULE PositionAccounting -------------------------
(***************************************************************************)
(* The three replays of src/portfolio/accounting.py: positions, closed     *)
(* cycles and ledger cycles.  A ledger is a sequence of rows                *)
(*   [date, time, type, code, qty, amount]                                  *)
(* in replay order; `amount` is what the row moves: gross + fees of a BUY,  *)
(* gross - fees of a SELL, the cash of a DIVIDEND or a CASH_FEE, the total  *)
(* cost of an OPENING or a COST_REBASE.  The code replays all securities in *)
(* one pass and keeps one state for each; here a replay is of one security. *)
(* A replay that raises is one that is not `ok`.                            *)
(***************************************************************************)
EXTENDS Integers, Sequences

Never == 0      \* the closing date of a cycle that is still open

\* Mutant: the next row is of another day, whatever its security.
DayEndOfLedger(rows, i) == i = Len(rows) \/ rows[i + 1].date # rows[i].date

\* Row i is the last one of its security on its day.
DayEnd(rows, i) ==
  \A j \in (i + 1)..Len(rows) :
    rows[j].code # rows[i].code \/ rows[j].date # rows[i].date

Acquires(row) == row.type \in {"OPENING", "BUY"}

(***************************************************************************)
(* build_position_states                                                   *)
(***************************************************************************)
Flat == [qty |-> 0, cost |-> 0, realized |-> 0, income |-> 0, fees |-> 0,
         open |-> FALSE, ok |-> TRUE]

Trades(row) == Acquires(row) \/ row.type = "SELL"

\* The checks of a row that its `amount` tells apart; a SELL's may have any sign.
Bookable(p, row) ==
  /\ Trades(row) => row.qty > 0
  /\ row.type = "BUY" => row.amount > 0
  /\ row.type \in {"OPENING", "DIVIDEND", "CASH_FEE"} => row.amount >= 0
  /\ row.type = "SELL" => row.qty <= p.qty
  /\ row.type = "COST_REBASE" => p.open /\ p.qty > 0 /\ row.qty = p.qty

Booked(p, row) ==
  CASE Acquires(row) ->
         [p EXCEPT !.qty = @ + row.qty, !.cost = @ + row.amount, !.open = TRUE]
    [] row.type = "SELL" ->
         [p EXCEPT !.qty = @ - row.qty, !.cost = @ - row.amount]
    [] row.type = "DIVIDEND" ->
         IF p.open THEN [p EXCEPT !.cost = @ - row.amount]
                   ELSE [p EXCEPT !.income = @ + row.amount]
    [] row.type = "CASH_FEE" ->
         IF p.open THEN [p EXCEPT !.cost = @ + row.amount]
                   ELSE [p EXCEPT !.fees = @ + row.amount]
    [] row.type = "COST_REBASE" -> [p EXCEPT !.cost = row.amount]

\* Mutants: a closed cycle leaves its cost behind; a cycle closes within the day.
DayClosedKeepsCost(p, rows, i) ==
  IF DayEnd(rows, i) /\ p.qty = 0 /\ p.open
  THEN [p EXCEPT !.realized = @ - p.cost, !.open = FALSE]
  ELSE p
DayClosedAtOnce(p, rows, i) ==
  IF p.qty = 0 /\ p.open
  THEN [p EXCEPT !.realized = @ - p.cost, !.cost = 0, !.open = FALSE]
  ELSE p

\* A position that is empty at the end of a day realises its whole cycle.
DayClosed(p, rows, i) ==
  IF DayEnd(rows, i) /\ p.qty = 0 /\ p.open
  THEN [p EXCEPT !.realized = @ - p.cost, !.cost = 0, !.open = FALSE]
  ELSE p

\* One turn of the loop: a replay that raised goes no further.
PositionStep(p, rows, i, code) ==
  IF ~p.ok \/ rows[i].code # code THEN p
  ELSE IF Bookable(p, rows[i]) THEN DayClosed(Booked(p, rows[i]), rows, i)
  ELSE [p EXCEPT !.ok = FALSE]

PositionState(rows, code) ==
  LET after[i \in 0..Len(rows)] ==
        IF i = 0 THEN Flat ELSE PositionStep(after[i - 1], rows, i, code)
  IN after[Len(rows)]

(***************************************************************************)
(* build_closed_position_cycles, for rows that build_position_states        *)
(* accepts.  `active` holds the open cycle, if there is one; `cost` is the  *)
(* remaining cost of the position, which only a COST_REBASE reads.          *)
(***************************************************************************)
NewCycle(day) == [opened |-> day, closed |-> Never, basis |-> 0,
                  proceeds |-> 0, income |-> 0, fees |-> 0]

CycleBooked(cycle, cost, row) ==
  CASE Acquires(row) -> [cycle EXCEPT !.basis = @ + row.amount]
    [] row.type = "SELL" -> [cycle EXCEPT !.proceeds = @ + row.amount]
    [] row.type = "DIVIDEND" -> [cycle EXCEPT !.income = @ + row.amount]
    [] row.type = "CASH_FEE" -> [cycle EXCEPT !.fees = @ + row.amount]
    [] row.type = "COST_REBASE" ->
         [cycle EXCEPT !.basis = @ + row.amount - cost]

CycleCost(cost, row) ==
  CASE Acquires(row) \/ row.type = "CASH_FEE" -> cost + row.amount
    [] row.type \in {"SELL", "DIVIDEND"} -> cost - row.amount
    [] row.type = "COST_REBASE" -> row.amount

CycleQty(qty, row) ==
  IF Acquires(row) THEN qty + row.qty
  ELSE IF row.type = "SELL" THEN qty - row.qty ELSE qty

NoCycles == [qty |-> 0, cost |-> 0, active |-> <<>>, closed |-> <<>>]

\* A row is booked to the open cycle, which it opens or closes.
CycleStep(s, rows, i, code) ==
  LET row == rows[i]
      qty == CycleQty(s.qty, row)
      active == IF Acquires(row) /\ s.active = <<>> THEN << NewCycle(row.date) >>
                ELSE s.active
      booked == CycleBooked(active[1], s.cost, row)
  IN IF row.code # code THEN s
     ELSE IF active = <<>> THEN [s EXCEPT !.qty = qty]
     ELSE IF DayEnd(rows, i) /\ qty = 0
     THEN [qty |-> qty, cost |-> 0, active |-> <<>>,
           closed |-> Append(s.closed, [booked EXCEPT !.closed = row.date])]
     ELSE [qty |-> qty, cost |-> CycleCost(s.cost, row), active |-> << booked >>,
           closed |-> s.closed]

CycleReplay(rows, code) ==
  LET after[i \in 0..Len(rows)] ==
        IF i = 0 THEN NoCycles ELSE CycleStep(after[i - 1], rows, i, code)
  IN after[Len(rows)]

RealizedPnl(cycle) == cycle.proceeds - cycle.basis + cycle.income - cycle.fees

(***************************************************************************)
(* build_ledger_cycles: the rows of each cycle, by their place in the       *)
(* ledger, the open cycle included.                                         *)
(***************************************************************************)
InCycle(cycles) == cycles # <<>> /\ cycles[Len(cycles)].closed = Never

LedgerStep(s, rows, i, code) ==
  LET row == rows[i]
      qty == CycleQty(s.qty, row)
      cycles == IF Acquires(row) /\ ~InCycle(s.cycles)
                THEN Append(s.cycles, [opened |-> row.date, closed |-> Never, rows |-> {}])
                ELSE s.cycles
      last == Len(cycles)
      joined == [cycles EXCEPT ![last].rows = @ \union {i}]
  IN IF row.code # code THEN s
     ELSE IF ~InCycle(cycles) THEN [s EXCEPT !.qty = qty]
     ELSE IF DayEnd(rows, i) /\ qty = 0
     THEN [qty |-> qty, cycles |-> [joined EXCEPT ![last].closed = row.date]]
     ELSE [qty |-> qty, cycles |-> joined]

LedgerCycles(rows, code) ==
  LET after[i \in 0..Len(rows)] ==
        IF i = 0 THEN [qty |-> 0, cycles |-> <<>>] ELSE LedgerStep(after[i - 1], rows, i, code)
  IN after[Len(rows)].cycles

(***************************************************************************)
(* What the replays promise.                                                *)
(***************************************************************************)
Total(values) ==
  LET sum[i \in 0..Len(values)] == IF i = 0 THEN 0 ELSE sum[i - 1] + values[i]
  IN sum[Len(values)]

CashFlow(row) ==
  IF Acquires(row) \/ row.type = "CASH_FEE" THEN 0 - row.amount ELSE row.amount

\* What a row moves of one security's money.
FlowOf(row, code) == IF row.code = code THEN CashFlow(row) ELSE 0

\* No money appears or vanishes: what has been realised and received, less
\* what is still in the cost, is what has flowed.
Balanced(rows, code) ==
  LET p == PositionState(rows, code)
  IN (\A i \in DOMAIN rows : rows[i].code = code => rows[i].type # "COST_REBASE") =>
       p.realized - p.cost + p.income - p.fees = Total([i \in DOMAIN rows |-> FlowOf(rows[i], code)])

Profit(cycles) == Total([i \in DOMAIN cycles |-> RealizedPnl(cycles[i])])

SameSpans(cycles, others) ==
  /\ Len(cycles) = Len(others)
  /\ \A i \in DOMAIN cycles :
       cycles[i].opened = others[i].opened /\ cycles[i].closed = others[i].closed

\* The three replays tell one story: the same profit, the same cycles, and an
\* open cycle exactly for what is held.
Agree(rows, code) ==
  LET p == PositionState(rows, code)
      replay == CycleReplay(rows, code)
  IN /\ Profit(replay.closed) = p.realized
     /\ \A i \in DOMAIN replay.closed : replay.closed[i].closed # Never
     /\ SameSpans(replay.closed \o replay.active, LedgerCycles(rows, code))
     /\ p.open <=> p.qty > 0
     /\ p.open <=> replay.active # <<>>
=============================================================================
