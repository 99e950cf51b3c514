--------------------------- MODULE MCCoordinator ---------------------------
(* A run of two instruments over three sessions (2, 3 and 5; date 4 is not  *)
(* a session, 6 is the post-end session).  A stock at 2 yuan and an ETF at  *)
(* 1 yuan share 405 yuan: a lot of the stock and two of the ETF are six fen *)
(* short.  The stock pays the minimum commission, two lots of the ETF more  *)
(* than theirs.                                                             *)
EXTENDS PortfolioVerifier

MCSymbols == {"A", "B"}
MCOrder == <<"A", "B">>
MCCalendar == {1, 2, 3, 5, 6}
MCKind == [s \in MCSymbols |-> IF s = "A" THEN "stock" ELSE "etf"]
MCTransfer == {[from |-> 3, rate |-> 1]}      \* no stock fee schedule before 3
MCCommissionRate == [kind \in {"stock", "etf"} |-> IF kind = "stock" THEN 25 ELSE 30]
MCCommissionMin == [kind \in {"stock", "etf"} |-> IF kind = "stock" THEN 500 ELSE 5]
MCStamp == {[from |-> 1, rate |-> 50]}
MCSignalClose == [s \in MCSymbols |-> IF s = "A" THEN 2000 ELSE 1000]

\* The ETF may open at its upper limit; the stock may open too dear for a lot.
MCBars == [s \in MCSymbols |->
    IF s = "A" THEN {[open |-> 2000, close |-> 2000], [open |-> 2050, close |-> 1900]}
               ELSE {[open |-> 1000, close |-> 1000], [open |-> 1100, close |-> 1050]}]

Dividend(symbol, record, ex, payable, perUnit) ==
    [symbol |-> symbol, record |-> record, ex |-> ex, payable |-> payable,
     perUnit |-> perUnit]
Pool == [d \in {"d1", "d2", "d3", "d4"} |->
    CASE d = "d1" -> Dividend("B", 2, 3, 4, 100)     \* paid on session 5
      [] d = "d2" -> Dividend("B", 2, 3, 3, 55)      \* same ex-date, paid on it
      [] d = "d3" -> Dividend("A", 4, 5, 7, 60)      \* payable beyond the calendar
      [] d = "d4" -> Dividend("B", 2, 5, 6, 950)]    \* may eat the whole mark; a
                                                     \* buy on 3 comes too late for it
MCActionSets == {[d \in D |-> Pool[d]] :
    D \in {{}, {"d1"}, {"d1", "d2"}, {"d3"}, {"d1", "d4"}}}
MCPayOrder == <<"d3", "d1", "d2", "d4">>

=============================================================================
