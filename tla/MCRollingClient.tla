--------------------------- MODULE MCRollingClient ---------------------------
(* A small instance of RollingClient: one buy and one dividend before the   *)
(* promotion, then two more lots of the same symbol and sells of part of a  *)
(* lot, across lots, of a size that is no board lot, and too early.         *)
EXTENDS RollingClient

MCSymbols == {"A", "B"}
MCCalendar == {1, 2, 3, 4}
MCKind == [s \in MCSymbols |-> "stock"]
MCTransfer == {[from |-> 1, rate |-> 1]}
MCCommissionRate == [kind \in {"stock", "etf"} |-> IF kind = "stock" THEN 25 ELSE 30]
MCCommissionMin == [kind \in {"stock", "etf"} |-> 500]
MCStamp == {[from |-> 1, rate |-> 50]}
MCDates == {1, 2, 3}
MCPayOrder == <<"d1">>

MCLot(id, s, day, size) ==
    [id |-> id, symbol |-> s, acquired |-> day, available |-> day + 1,
     remaining |-> size, cost |-> 1000]

MCPostings == { [event |-> <<"fill", 1>>, lot |-> MCLot("l1", "A", 1, 200), fees |-> 500] }
MCRegistrations ==
    { <<"d1", [symbol |-> "A", registered |-> 1, payable |-> 2, actual |-> 2,
               amount |-> 700, paid |-> NoDate]>> }

\* The last reuses the id of the promoted lot, and works without one.
MCRollingPostings ==
    { [event |-> <<"fill", 2>>, lot |-> MCLot("l2", "A", day, 200), fees |-> 500] :
        day \in {1, 2} }
    \cup { [event |-> <<"fill", 3>>, lot |-> MCLot("l1", "B", 2, 100), fees |-> 500] }

MCSell(n, s, day, size) ==
    [event |-> <<"sell", n>>, date |-> day, symbol |-> s, size |-> size,
     price |-> 1000, fees |-> 500]
MCSells ==
    { MCSell(1, "A", 2, 100), MCSell(2, "A", 3, 200), MCSell(3, "A", 3, 150),
      MCSell(3, "A", 1, 100), MCSell(4, "B", 3, 100) }

=============================================================================
