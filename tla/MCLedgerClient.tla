--------------------------- MODULE MCLedgerClient ---------------------------
(* A small instance of LedgerClient: two symbols, three dates, up to three  *)
(* buys (two sharing a lot id) and two dividends due on the same date.      *)
EXTENDS LedgerClient

MCSymbols == {"A", "B"}
MCCalendar == {1, 2, 3, 4}
MCKind == [s \in MCSymbols |-> "stock"]
MCTransfer == {[from |-> 1, rate |-> 1]}
MCCommissionRate == [kind \in {"stock", "etf"} |-> IF kind = "stock" THEN 25 ELSE 30]
MCCommissionMin == [kind \in {"stock", "etf"} |-> 500]
MCStamp == {[from |-> 1, rate |-> 50]}
MCDates == {1, 2, 3}
MCPayOrder == <<"d1", "d2">>

MCLot(id, s, day, size) ==
    [id |-> id, symbol |-> s, acquired |-> day, available |-> day + 1,
     remaining |-> size, cost |-> 1000]

\* The same buy on two dates, a buy whose event id a dividend payment will
\* want, and one that is not a board lot.
MCPostings ==
    { [event |-> <<"fill", 1>>, lot |-> MCLot("lA", "A", day, 100), fees |-> 500] :
        day \in {1, 2} }
    \cup { [event |-> <<"fill", 2>>, lot |-> MCLot("lB", "B", 2, 100), fees |-> 500],
           [event |-> <<"cash", "d2">>, lot |-> MCLot("lC", "B", 3, 100), fees |-> 500],
           [event |-> <<"fill", 3>>, lot |-> MCLot("lD", "A", 3, 150), fees |-> 500] }

MCReceivable(s, day, amount) ==
    [symbol |-> s, registered |-> day, payable |-> day, actual |-> 3,
     amount |-> amount, paid |-> NoDate]
MCRegistrations ==
    { <<"d1", MCReceivable("A", 2, 700)>>, <<"d2", MCReceivable("B", 3, 1000)>>,
      <<"d2", MCReceivable("B", 1, 1000)>> }

=============================================================================
