----------------------------- MODULE MCBacktest -----------------------------
(* Sessions 1, 2, 3, 5 and 6 of a stock (4 is no session); one frame shows *)
(* a bar on 4 all the same, two miss a session.                             *)
EXTENDS Backtest

MCCalendar == {1, 2, 3, 5, 6}
MCKind == [s \in {"A"} |-> "stock"]
MCRate == [kind \in {"stock", "etf"} |-> 25]
MCMin == [kind \in {"stock", "etf"} |-> 500]
MCTransfer == {[from |-> 3, rate |-> 1]}       \* no fee schedule before 3
MCStamp == {[from |-> 1, rate |-> 50]}

\* A lot at 6 yuan, or three at 2, cost 605.01 yuan with their fees: the first
\* balance is short of that, the second is that, the others only once rounded.
MCBalances == {604000, 605010, 605006, 605005}

\* A bar may open at a limit of its reference or too dear for a lot.
MCBars == {[open |-> 2000, close |-> 2000], [open |-> 2200, close |-> 5600],
           [open |-> 1800, close |-> 1900], [open |-> 6000, close |-> 2000]}
MCFrames == {{1, 2, 3, 5, 6}, {1, 2, 3, 5}, {1, 2, 5, 6}, {2, 3, 4, 5}, {2, 3, 6}}

Dividend(ex, payable, perUnit) == [ex |-> ex, payable |-> payable, perUnit |-> perUnit]
MCActionSets == {{}, {Dividend(5, 5, 120)}, {Dividend(3, 5, 55), Dividend(5, 6, 95)},
                 {Dividend(5, 8, 1900)}}

=============================================================================
