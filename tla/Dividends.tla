------------------------------ MODULE Dividends -----------------------------
(***************************************************************************)
(* What data/corporate_actions.py makes of the tables of its two sources.  *)
(* An event is the cash one share earns: its record, ex- and payable date  *)
(* and amount.  Dates are integers (days), amounts integers in the         *)
(* smallest unit of the source, so that the exact Decimal arithmetic of    *)
(* the code is exact here.  A table the code refuses as a whole yields     *)
(* Refused; parsing of cells and HTML is left out.                         *)
(***************************************************************************)
EXTENDS Integers, FiniteSets, FiniteSetsExt

CONSTANT Refused      \* no events: the table is refused

BetweenHalfOpen(lo, x, hi) == lo <= x /\ x < hi   \* mutation: the last day is out
Between(lo, x, hi) == lo <= x /\ x <= hi

\* ETFs: a table of what a unit has paid so far, a set of [date, total], and a
\* table of single payments, a set of [record, pay, cash].
EarlierTotal(totals, row) ==
    LET before == {r \in totals : r.date < row.date}
    IN  IF before = {} THEN 0
        ELSE (CHOOSE r \in before : \A q \in before : q.date <= r.date).total

Increase(totals, row) == row.total - EarlierTotal(totals, row)

\* A payment belongs to an increase seen within ten days of its record date.
Payments(details, row) ==
    {d \in details : Between(0, row.date - d.record, 10) /\ d.pay >= row.date}

EtfEvents(totals, details, start, end) ==
    LET Rises == {r \in totals : Increase(totals, r) > 0 /\ Between(start, r.date, end)}
        Paid(r) == CHOOSE d \in details : d \in Payments(details, r)
    IN  IF \/ \E r, q \in totals : r # q /\ r.date = q.date
           \/ \E r \in totals : Increase(totals, r) < 0
           \/ \E r \in Rises : Cardinality(Payments(details, r)) # 1
           \/ \E r \in Rises : Paid(r).cash # Increase(totals, r)
        THEN Refused
        ELSE {[record |-> Paid(r).record, ex |-> r.date, pay |-> Paid(r).pay,
               cash |-> Increase(totals, r)] : r \in Rises}

\* Stocks: rows [ex, record, pay, cash, shares, id], a date 0 where the cell is
\* empty, the id telling equal rows apart.  The rows of one ex-date are one
\* event and agree on the other dates; shares instead of cash are refused within
\* the coverage and not looked at outside it.
Stale(row, start) ==
    row.ex = 0 /\ row.record > 0 /\ row.pay > 0 /\ row.record < start /\ row.pay < start

StockEvents(rows, start, end) ==
    LET Covered == {r \in rows : r.ex # 0 /\ Between(start, r.ex, end)}
        SameDay(x) == {r \in Covered : r.ex = x}
    IN  IF \/ \E r \in rows : r.ex = 0 /\ ~Stale(r, start)
           \/ \E r \in Covered : r.shares # 0 \/ r.cash < 0 \/ r.record = 0 \/ r.pay < r.ex
           \/ \E r, q \in Covered : r.ex = q.ex /\ <<r.record, r.pay>> # <<q.record, q.pay>>
        THEN Refused
        ELSE {[record |-> (CHOOSE r \in SameDay(x) : TRUE).record, ex |-> x,
               pay |-> (CHOOSE r \in SameDay(x) : TRUE).pay,
               cash |-> MapThenSumSet(LAMBDA r : r.cash, SameDay(x))]
                : x \in {r.ex : r \in Covered}}

-----------------------------------------------------------------------------
(* Properties *)

\* What a unit has paid by the end of a day.
TotalBy(totals, day) ==
    LET known == {r \in totals : r.date <= day}
    IN  IF known = {} THEN 0 ELSE Max({r.total : r \in known})

CashOf(events) == MapThenSumSet(LAMBDA e : e.cash, events)

\* Accepted events are what the two sources agree on: their cash is what the
\* totals grew by within the coverage, and each of them is one reported payment.
EtfEventsAddUp(totals, details, start, end) ==
    LET events == EtfEvents(totals, details, start, end)
    IN  events # Refused =>
          /\ CashOf(events) = TotalBy(totals, end) - TotalBy(totals, start - 1)
          /\ \A e \in events :
                [record |-> e.record, pay |-> e.pay, cash |-> e.cash] \in details

\* Ingesting a time in two parts gives the events of the whole: an event is not
\* lost, counted twice or changed by where a coverage begins or ends.
EtfCoverageSplits(totals, details, start, end) ==
    LET events == EtfEvents(totals, details, start, end)
    IN  events # Refused =>
          \A day \in start .. end - 1 :
             events = EtfEvents(totals, details, start, day)
                        \cup EtfEvents(totals, details, day + 1, end)
StockCoverageSplits(rows, start, end) ==
    LET events == StockEvents(rows, start, end)
    IN  events # Refused =>
          \A day \in start .. end - 1 :
             events = StockEvents(rows, start, day) \cup StockEvents(rows, day + 1, end)

=============================================================================
