-------------------------- MODULE MCPortfolioLedger --------------------------
(* Instances of PortfolioLedger for TLC: one or two securities, four days. *)
EXTENDS PortfolioLedger

Row(date, time, type, code, qty, amount) ==
  [date |-> date, time |-> time, type |-> type, code |-> code, qty |-> qty, amount |-> amount]

Untimed(date, type, code, qty, amount) == Row(date, EndOfDay, type, code, qty, amount)

\* Two units were held on day 2; another snapshot says one on day 1.
HeldOnDay2 == << Untimed(2, "OPENING", "a", 2, 20) >>
HeldOnDay1 == << Untimed(1, "OPENING", "a", 1, 9) >>

\* Sold out within day 3 and bought back the same day, between trades of "b".
RoundTrip ==
  << Untimed(3, "BUY", "b", 1, 4), Untimed(3, "SELL", "a", 2, 30),
     Untimed(3, "SELL", "b", 1, 6), Untimed(3, "BUY", "a", 1, 12) >>
\* A dividend on the day the rest is sold, and a fee when nothing is held.
SellOut ==
  << Untimed(3, "SELL", "a", 2, 28), Untimed(3, "DIVIDEND", "a", 0, 3),
     Untimed(4, "CASH_FEE", "a", 0, 1) >>
\* A purchase with a fee that only the larger balance can pay for.
Purchase == << Untimed(3, "BUY", "a", 1, 25), Untimed(3, "CASH_FEE", "a", 0, 1) >>
\* Bought one more and sold all three within a day.
DayTrade == << Untimed(3, "BUY", "a", 1, 11), Untimed(3, "SELL", "a", 3, 45) >>

\* Bought and sold before the baseline; or with the sale on the day of the baseline.
ClosedBefore ==
  << Row(1, 1, "BUY", "a", 1, 5), Row(1, 1, "BUY", "b", 1, 7),
     Row(1, 2, "SELL", "a", 1, 8), Row(1, 3, "SELL", "b", 1, 6) >>
ClosedOnBaseline == << Row(1, 1, "BUY", "a", 1, 5), Row(2, 2, "SELL", "a", 1, 8) >>

MCOpenings == {HeldOnDay2, HeldOnDay1}
MCStatements == {RoundTrip, SellOut, Purchase, ClosedBefore}
MCDayTrades == {DayTrade, Purchase}
MCHistories == {ClosedBefore, ClosedOnBaseline}
\* Two reviews of one day that disagree on the quantity: the later one counts.
MCAnchors ==
  { [date |-> 3, code |-> "a", qty |-> 2, cost |-> 18, source |-> "review",
     status |-> "reviewed"],
    [date |-> 3, code |-> "a", qty |-> 1, cost |-> 7, source |-> "correction",
     status |-> "reviewed"] }
MCBalances == { [asOf |-> 2, amount |-> 10], [asOf |-> 3, amount |-> 40] }

\* The callers run the same code.
Symmetry == Permutations(Callers)
=============================================================================
