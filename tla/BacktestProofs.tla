---------------------------- MODULE BacktestProofs ----------------------------
(***************************************************************************)
(* Proofs about a run of the backtest, for any calendar, bars, frames,     *)
(* dividends, cash and fees the assumptions allow: what becomes of its     *)
(* orders (OrdersWellDecided) and that every row of its daily ledgers      *)
(* follows from its executions and dividends (LedgersFollow).              *)
(*                                                                         *)
(* Both are read off finished records, so they rest on what a run is in    *)
(* the middle of, the invariant BookInv:                                   *)
(*    RunType     which parts of the day are over for the records there    *)
(*                are: a fill's session has opened, a row's has closed;    *)
(*    HoldingInv  the shares are one whole lot, that of the last fill, or  *)
(*                none: an order sells all that is held and is only placed *)
(*                for a buy when nothing is, so the walk over the lots     *)
(*                always comes out even;                                   *)
(*    PendingInv  the session of the live order has not opened yet, so an  *)
(*                order is executed at most once and on the right date;    *)
(*    DecidedInv  every other order was decided well, for good;            *)
(*    MarginInv   one the broker did not execute costs the cash of its day *)
(*                to the fen: the rules allowed it on the rounded cash,    *)
(*                which is at most a fraction above what the broker has;   *)
(*    CashInv     the receivables are the dividends between ex-date and    *)
(*                payment, for the shares of the day before the ex-date,   *)
(*                and the cash has the others and the executions;          *)
(*    RowsInv     every row follows from the records of its date, and no   *)
(*                later record has an earlier date.                        *)
(***************************************************************************)
EXTENDS Backtest, RuleProofs

-----------------------------------------------------------------------------
(* The records of a run *)

OrderType == [signal : Nat, side : {"buy", "sell"}, size : Nat,
              status : {"accepted", "rejected", "completed", "margin"}, reason : Reasons \cup {"none"}]
FillType == [order : Nat, date : Nat, side : {"buy", "sell"}, size : Nat,
             value : Nat, fees : Nat]
LotType == [remaining : Nat, acquired : Nat, available : Nat]
DayType == [date : Nat, size : Nat, available : Int, cash : Int, receivable : Int]
EventType == [ex : Nat, payable : Nat, perUnit : Nat]

\* The sums of the ledgers, over given records.
ProceedsOf(s, K) == SumFunction([k \in {x \in K : s[x].side = "sell"} |-> s[k].value])
SpentOf(s, K) == SumFunction([k \in {x \in K : s[x].side = "buy"} |-> s[k].value])
FeesOf(s, K) == SumFunction([k \in K |-> s[k].fees])
BoughtOf(s, K) == SumFunction([k \in K |-> s[k].size])
HeldIn(days, date) ==
    LET earlier == {i \in DOMAIN days : days[i].date < date}
    IN  IF earlier = {} THEN 0 ELSE days[Max(earlier)].size
Dividend(days, e) == NotionalFen(e.perUnit, HeldIn(days, e.ex))
EarnedOn(days, events) == SumFunction([e \in events |-> Dividend(days, e)])
Receipts(days, events) ==
    {[event |-> e, amount |-> Dividend(days, e)] :
        e \in {x \in events : x.perUnit > 0 /\ HeldIn(days, x.ex) # 0}}

\* One more execution on record.
LEMMA FillGrows ==
    ASSUME NEW s \in Seq(FillType), NEW e \in FillType
    PROVE  LET t == Append(s, e) IN
           /\ ProceedsOf(t, DOMAIN t) =
                 ProceedsOf(s, DOMAIN s) + (IF e.side = "sell" THEN e.value ELSE 0)
           /\ SpentOf(t, DOMAIN t) =
                 SpentOf(s, DOMAIN s) + (IF e.side = "buy" THEN e.value ELSE 0)
           /\ FeesOf(t, DOMAIN t) = FeesOf(s, DOMAIN s) + e.fees
           /\ ProceedsOf(s, DOMAIN s) \in Nat
           /\ SpentOf(s, DOMAIN s) \in Nat /\ FeesOf(s, DOMAIN s) \in Nat
<1> DEFINE t == Append(s, e)
           n == Len(s) + 1
           Side(r, side) == {x \in DOMAIN r : r[x].side = side}
           Value(r, side) == [k \in Side(r, side) |-> r[k].value]
           Fees(r) == [k \in DOMAIN r |-> r[k].fees]
<1>1. /\ DOMAIN s = 1 .. Len(s) /\ DOMAIN t = DOMAIN s \cup {n} /\ n \notin DOMAIN s
      /\ \A k \in DOMAIN s : t[k] = s[k] /\ s[k] \in FillType
      /\ t[n] = e
      /\ IsFiniteSet(DOMAIN s) /\ IsFiniteSet(DOMAIN t)
  <2>1. DOMAIN s = 1 .. Len(s) /\ Len(s) \in Nat /\ DOMAIN t = 1 .. Len(s) + 1
    OBVIOUS
  <2>2. IsFiniteSet(1 .. Len(s)) /\ IsFiniteSet(1 .. Len(s) + 1)
    BY <2>1, PrefixFinite
  <2> QED BY <2>1, <2>2
<1>2. /\ e.value \in Nat /\ e.fees \in Nat /\ e.side \in {"buy", "sell"}
      /\ \A k \in DOMAIN s : s[k].value \in Nat /\ s[k].fees \in Nat
  BY <1>1 DEF FillType
<1>3. \A k \in DOMAIN t : t[k].value \in Nat /\ t[k].fees \in Nat
  BY <1>1, <1>2
<1>4. /\ ProceedsOf(s, DOMAIN s) = SumFunction(Value(s, "sell"))
      /\ ProceedsOf(t, DOMAIN t) = SumFunction(Value(t, "sell"))
      /\ SpentOf(s, DOMAIN s) = SumFunction(Value(s, "buy"))
      /\ SpentOf(t, DOMAIN t) = SumFunction(Value(t, "buy"))
      /\ FeesOf(s, DOMAIN s) = SumFunction(Fees(s))
      /\ FeesOf(t, DOMAIN t) = SumFunction(Fees(t))
  BY DEF ProceedsOf, SpentOf, FeesOf
<1> HIDE DEF t
<1>5. ASSUME NEW side \in {"buy", "sell"}
      PROVE  /\ SumFunction(Value(t, side)) =
                   SumFunction(Value(s, side)) + (IF e.side = side THEN e.value ELSE 0)
             /\ SumFunction(Value(s, side)) \in Nat
  <2>1. Side(s, side) \in SUBSET DOMAIN s /\ Side(t, side) \in SUBSET DOMAIN t
    OBVIOUS
  <2>2. Counts(Value(s, side)) /\ Counts(Value(t, side))
    BY <1>1, <1>2, <1>3, <2>1, FS_Subset DEF Counts
  <2>3. SumFunction(Value(s, side)) \in Nat
    BY <2>2, SumIsNat
  <2>4. CASE e.side = side
    <3>1. /\ n \in DOMAIN Value(t, side)
          /\ DOMAIN Value(s, side) = DOMAIN Value(t, side) \ {n}
          /\ \A k \in DOMAIN Value(s, side) : Value(s, side)[k] = Value(t, side)[k]
          /\ Value(t, side)[n] = e.value
      BY <1>1, <2>4
    <3> DEFINE f == Value(t, side)
               g == Value(s, side)
    <3> HIDE DEF Value
    <3>2. /\ Counts(f) /\ n \in DOMAIN f /\ DOMAIN g = DOMAIN f \ {n}
          /\ \A k \in DOMAIN g : g[k] = f[k]
      BY <2>2, <3>1
    <3> HIDE DEF f, g
    <3>3. SumFunction(f) = f[n] + SumFunction(g)
      BY <3>2, SumOfMore
    <3> QED BY <1>2, <2>3, <2>4, <3>1, <3>3 DEF f, g
  <2>5. CASE e.side # side
    <3>1. /\ DOMAIN Value(t, side) = DOMAIN Value(s, side)
          /\ \A k \in DOMAIN Value(s, side) : Value(t, side)[k] = Value(s, side)[k]
      BY <1>1, <2>5
    <3> HIDE DEF Value
    <3>2. SumFunction(Value(t, side)) = SumFunction(Value(s, side))
      BY <2>2, <3>1, SumOfSame
    <3> QED BY <2>3, <2>5, <3>2
  <2> QED BY <2>4, <2>5
<1>6. /\ SumFunction(Fees(t)) = SumFunction(Fees(s)) + e.fees
      /\ SumFunction(Fees(s)) \in Nat
  <2>1. Counts(Fees(s)) /\ Counts(Fees(t))
    BY <1>1, <1>2, <1>3 DEF Counts
  <2>2. SumFunction(Fees(s)) \in Nat
    BY <2>1, SumIsNat
  <2>3. /\ n \in DOMAIN Fees(t) /\ DOMAIN Fees(s) = DOMAIN Fees(t) \ {n}
        /\ \A k \in DOMAIN Fees(s) : Fees(s)[k] = Fees(t)[k]
        /\ Fees(t)[n] = e.fees
    <3> HIDE DEF n
    <3>1. n \in DOMAIN t /\ DOMAIN s = DOMAIN t \ {n}
      BY <1>1
    <3>2. \A k \in DOMAIN s : k \in DOMAIN t /\ s[k].fees = t[k].fees
      BY <1>1
    <3> QED BY <1>1, <3>1, <3>2
  <2> HIDE DEF Fees
  <2>4. SumFunction(Fees(t)) = e.fees + SumFunction(Fees(s))
    BY <2>1, <2>3, SumOfMore, ZenonT(60)
  <2> QED BY <1>2, <2>2, <2>4
<1>7. /\ SumFunction(Value(t, "sell")) =
            SumFunction(Value(s, "sell")) + (IF e.side = "sell" THEN e.value ELSE 0)
      /\ SumFunction(Value(s, "sell")) \in Nat
      /\ SumFunction(Value(t, "buy")) =
            SumFunction(Value(s, "buy")) + (IF e.side = "buy" THEN e.value ELSE 0)
      /\ SumFunction(Value(s, "buy")) \in Nat
  BY <1>5
<1> HIDE DEF Value, Fees
<1>8. QED
  <2>1. /\ ProceedsOf(t, DOMAIN t) =
              ProceedsOf(s, DOMAIN s) + (IF e.side = "sell" THEN e.value ELSE 0)
        /\ SpentOf(t, DOMAIN t) =
              SpentOf(s, DOMAIN s) + (IF e.side = "buy" THEN e.value ELSE 0)
        /\ FeesOf(t, DOMAIN t) = FeesOf(s, DOMAIN s) + e.fees
        /\ ProceedsOf(s, DOMAIN s) \in Nat
        /\ SpentOf(s, DOMAIN s) \in Nat /\ FeesOf(s, DOMAIN s) \in Nat
    BY <1>4, <1>6, <1>7
  <2> QED BY <2>1 DEF t

\* What the executions brought in, cost and paid in fees, natural numbers.
LEMMA FillSums ==
    ASSUME NEW s \in Seq(FillType)
    PROVE  /\ ProceedsOf(s, DOMAIN s) \in Nat
           /\ SpentOf(s, DOMAIN s) \in Nat /\ FeesOf(s, DOMAIN s) \in Nat
<1> DEFINE e == [order |-> 0, date |-> 0, side |-> "buy", size |-> 0, value |-> 0, fees |-> 0]
<1>1. e \in FillType
  BY DEF FillType
<1> HIDE DEF e
<1> QED BY <1>1, FillGrows

\* What was held before a date is untouched by a row for that date or a later one.
LEMMA HeldStays ==
    ASSUME NEW s \in Seq(DayType), NEW row \in DayType, NEW date \in Nat, date <= row.date
    PROVE  HeldIn(Append(s, row), date) = HeldIn(s, date)
<1> DEFINE t == Append(s, row)
           E(r) == {i \in DOMAIN r : r[i].date < date}
<1>1. DOMAIN s = 1 .. Len(s) /\ DOMAIN t = DOMAIN s \cup {Len(s) + 1} /\ Len(s) \in Nat
  OBVIOUS
<1>2. \A i \in DOMAIN s : t[i] = s[i]
  BY <1>1
<1>3. t[Len(s) + 1] = row /\ ~(row.date < date)
  BY DEF DayType
<1>4. E(t) = E(s)
  BY <1>1, <1>2, <1>3
<1>5. CASE E(s) = {}
  BY <1>4, <1>5 DEF HeldIn
<1>6. CASE E(s) # {}
  <2>1. E(s) \subseteq Nat /\ IsFiniteSet(E(s)) /\ E(s) \subseteq DOMAIN s
    BY <1>1, PrefixFinite, FS_Subset
  <2>2. Max(E(s)) \in DOMAIN s
    <3> HIDE DEF E
    <3> QED BY <1>6, <2>1, FiniteMax
  <2>3. t[Max(E(s))] = s[Max(E(s))]
    BY <1>2, <2>2
  <2>4. HeldIn(t, date) = t[Max(E(t))].size /\ HeldIn(s, date) = s[Max(E(s))].size
    BY <1>4, <1>6 DEF HeldIn
  <2> HIDE DEF E, t
  <2>5. HeldIn(t, date) = HeldIn(s, date)
    BY <1>4, <2>3, <2>4
  <2> QED BY <2>5 DEF t
<1> QED BY <1>5, <1>6

\* Before a date after all rows, what the last row says is held.
LEMMA HeldNow ==
    ASSUME NEW s \in Seq(DayType), NEW date \in Nat, \A i \in DOMAIN s : s[i].date < date
    PROVE  HeldIn(s, date) = IF s = <<>> THEN 0 ELSE s[Len(s)].size
<1> DEFINE E == {i \in DOMAIN s : s[i].date < date}
<1>1. E = 1 .. Len(s) /\ Len(s) \in Nat
  OBVIOUS
<1>2. CASE s = <<>>
  BY <1>2 DEF HeldIn
<1>3. CASE s # <<>>
  <2>1. Len(s) >= 1
    BY <1>1, <1>3
  <2>2. E # {} /\ E \subseteq Nat /\ IsFiniteSet(E)
    <3> HIDE DEF E
    <3> QED BY <1>1, <2>1, PrefixFinite
  <2>3. HeldIn(s, date) = s[Max(E)].size
    BY <2>2 DEF HeldIn
  <2>4. Max(E) = Len(s)
    <3>1. Max(E) \in E /\ \A k \in E : k <= Max(E)
      <4> HIDE DEF E
      <4> QED BY <2>2, FiniteMax
    <3>2. Len(s) \in E
      BY <1>1, <2>1
    <3> HIDE DEF E
    <3> QED BY <1>1, <3>1, <3>2
  <2> QED BY <1>3, <2>3, <2>4
<1> QED BY <1>2, <1>3

\* Holdings and dividends are natural numbers.
LEMMA HeldIsNat ==
    ASSUME NEW s \in Seq(DayType), NEW date \in Nat
    PROVE  HeldIn(s, date) \in Nat
<1> DEFINE E == {i \in DOMAIN s : s[i].date < date}
<1>1. DOMAIN s = 1 .. Len(s) /\ Len(s) \in Nat /\ \A i \in DOMAIN s : s[i] \in DayType
  OBVIOUS
<1>2. E \subseteq Nat /\ IsFiniteSet(E) /\ E \subseteq DOMAIN s
  BY <1>1, PrefixFinite, FS_Subset
<1>3. CASE E = {}
  BY <1>3 DEF HeldIn
<1>4. CASE E # {}
  <2>1. HeldIn(s, date) = s[Max(E)].size
    BY <1>4 DEF HeldIn
  <2>2. Max(E) \in DOMAIN s
    <3> HIDE DEF E
    <3> QED BY <1>2, <1>4, FiniteMax
  <2> QED BY <1>1, <2>1, <2>2 DEF DayType
<1> QED BY <1>3, <1>4

LEMMA DividendIsNat ==
    ASSUME NEW s \in Seq(DayType), NEW e \in EventType
    PROVE  Dividend(s, e) \in Nat
<1>1. e.ex \in Nat /\ e.perUnit \in Nat
  BY DEF EventType
<1>2. HeldIn(s, e.ex) \in Nat
  BY <1>1, HeldIsNat
<1> QED BY <1>1, <1>2, NotionalIsNat DEF Dividend

\* The dividends of some events, a natural number.
LEMMA EarnedCounts ==
    ASSUME NEW s \in Seq(DayType), NEW es, es \subseteq EventType, IsFiniteSet(es)
    PROVE  /\ Counts([e \in es |-> Dividend(s, e)])
           /\ EarnedOn(s, es) \in Nat
           /\ EarnedOn(s, es) = SumFunction([e \in es |-> Dividend(s, e)])
<1>1. \A e \in es : Dividend(s, e) \in Nat
  BY DividendIsNat
<1>2. Counts([e \in es |-> Dividend(s, e)])
  BY <1>1 DEF Counts
<1> QED BY <1>2, SumIsNat DEF EarnedOn

\* The receipts of some events carry all their dividends.
LEMMA ReceiptsAddUp ==
    ASSUME NEW s \in Seq(DayType), NEW es, es \subseteq EventType, IsFiniteSet(es)
    PROVE  Amounts(Receipts(s, es)) = EarnedOn(s, es) /\ EarnedOn(s, es) \in Nat
<1> DEFINE D == {x \in es : x.perUnit > 0 /\ HeldIn(s, x.ex) # 0}
           f == [e \in es |-> Dividend(s, e)]
           g == [e \in D |-> f[e]]
           R == Receipts(s, es)
           h == [r \in R |-> r.amount]
           b == [e \in D |-> [event |-> e, amount |-> Dividend(s, e)]]
<1>1. Counts(f) /\ EarnedOn(s, es) = SumFunction(f) /\ EarnedOn(s, es) \in Nat
  BY EarnedCounts
<1>2. \A e \in es \ D : f[e] = 0
  <2> TAKE e \in es \ D
  <2>1. e.perUnit \in Nat /\ e.ex \in Nat
    BY DEF EventType
  <2>2. HeldIn(s, e.ex) \in Nat
    BY <2>1, HeldIsNat
  <2>3. e.perUnit = 0 \/ HeldIn(s, e.ex) = 0
    BY <2>1
  <2>4. e.perUnit * HeldIn(s, e.ex) = 0
    <3> DEFINE p == e.perUnit
               q == HeldIn(s, e.ex)
    <3>1. p \in Nat /\ q \in Nat /\ (p = 0 \/ q = 0)
      BY <2>1, <2>2, <2>3
    <3> HIDE DEF p, q
    <3>2. p * q = 0
      BY <3>1
    <3> QED BY <3>2 DEF p, q
  <2>5. Dividend(s, e) = HalfUp(0, 10)
    BY <2>4 DEF Dividend, NotionalFen
  <2>6. HalfUp(0, 10) = 0
    BY DEF HalfUp
  <2> QED BY <2>5, <2>6
<1>3. SumFunction(f) = SumFunction(g)
  <2>1. DOMAIN f = es /\ D \in SUBSET es
    OBVIOUS
  <2> HIDE DEF f, D
  <2> QED BY <1>1, <1>2, <2>1, SumSkipsZeros
<1>4. Counts(g) /\ DOMAIN g = D
  <2>1. D \in SUBSET DOMAIN f
    OBVIOUS
  <2> HIDE DEF f, D
  <2> QED BY <1>1, <2>1, SumOfPart
<1>5. R = {b[e] : e \in D}
  BY DEF Receipts
<1>6. DOMAIN h = R /\ DOMAIN b = D /\ \A e \in D : b[e] \in R /\ b[e].event = e
  BY <1>5
<1>7. \A e \in D : h[b[e]] = g[e]
  <2> TAKE e \in D
  <2>1. b[e].amount = Dividend(s, e) /\ b[e] \in R /\ g[e] = Dividend(s, e)
    BY <1>6
  <2> QED BY <2>1
<1>8. \A r \in R : \E e \in D : b[e] = r
  BY <1>5
<1>9. IsFiniteSet(D)
  BY FS_Subset
<1> HIDE DEF D, f, b
<1>10. IsFiniteSet(R)
  <2>1. b \in Surjection(D, R)
    <3> HIDE DEF R
    <3>1. b = [e \in D |-> b[e]]
      BY DEF b
    <3>2. b \in [D -> R]
      BY <1>6, <3>1
    <3> QED BY <1>8, <3>2 DEF Surjection
  <2> HIDE DEF R
  <2> QED BY <1>9, <2>1, FS_Surjection
<1>11. \A r \in R : h[r] \in Nat
  <2> TAKE r \in R
  <2>1. PICK e \in D : b[e] = r
    BY <1>8
  <2>2. g[e] \in Nat
    BY <1>4, <2>1 DEF Counts
  <2> HIDE DEF g, h, R
  <2> QED BY <1>7, <2>1, <2>2
<1>12. Counts(h)
  BY <1>6, <1>10, <1>11 DEF Counts
<1>13. b \in [D -> R]
  <2>1. b = [e \in D |-> b[e]]
    BY DEF b
  <2> QED BY <1>6, <2>1
<1>14. \A x, y \in D : b[x] = b[y] => x = y
  BY <1>6
<1> DEFINE R0 == R
<1> HIDE DEF R, g, h
<1>15. SumFunction(g) = SumFunction(h)
  BY <1>4, <1>6, <1>7, <1>8, <1>12, <1>13, <1>14, SumOfRenamed
<1>16. Amounts(R) = SumFunction(h)
  BY DEF Amounts, h
<1> QED BY <1>1, <1>3, <1>15, <1>16 DEF R

\* A row of the ledgers follows from the executions, the rows and the dividends.
Past(events, row) == {e \in events : e.ex <= row.date}
PaidBy(events, row) == {e \in Past(events, row) : e.payable <= row.date}
DoneBy(s, row) == {k \in DOMAIN s : s[k].date <= row.date}
NewOn(s, row) ==
    {k \in DOMAIN s : /\ s[k].side = "buy" /\ s[k].date <= row.date
                      /\ NextSession(s[k].date) > row.date}
RowFollows(initial, s, days, events, row) ==
    /\ row.cash = initial + ProceedsOf(s, DoneBy(s, row))
                  - (SpentOf(s, DoneBy(s, row)) + FeesOf(s, DoneBy(s, row)))
                  + EarnedOn(days, PaidBy(events, row))
    /\ row.receivable = EarnedOn(days, Past(events, row) \ PaidBy(events, row))
    /\ row.size - row.available = BoughtOf(s, NewOn(s, row))

\* A row follows still when there are later executions and later rows.
LEMMA RowStays ==
    ASSUME NEW initial, NEW s, NEW t, NEW days, NEW more, NEW events, NEW row,
           RowFollows(initial, s, days, events, row),
           DOMAIN s \subseteq DOMAIN t, \A k \in DOMAIN s : t[k] = s[k],
           \A k \in DOMAIN t \ DOMAIN s : ~(t[k].date <= row.date),
           \A e \in events : e.ex <= row.date => HeldIn(more, e.ex) = HeldIn(days, e.ex)
    PROVE  RowFollows(initial, t, more, events, row)
<1> DEFINE K == DoneBy(s, row)
           L == NewOn(s, row)
           P == Past(events, row)
           Q == PaidBy(events, row)
<1>1. DoneBy(t, row) = K /\ NewOn(t, row) = L
  BY DEF DoneBy, NewOn
<1>2. K \subseteq DOMAIN s /\ L \subseteq DOMAIN s /\ Q \subseteq P /\ P \ Q \subseteq P
  BY DEF DoneBy, NewOn, PaidBy
<1>3. \A e \in P : Dividend(more, e) = Dividend(days, e)
  BY DEF Past, Dividend
<1> HIDE DEF K, L, P, Q
<1>4. /\ \A k \in K : t[k] = s[k]
      /\ \A k \in L : t[k] = s[k]
  BY <1>2
<1>5. ProceedsOf(t, K) = ProceedsOf(s, K)
  <2> DEFINE S(r) == {x \in K : r[x].side = "sell"}
  <2>1. S(t) = S(s) /\ S(s) \subseteq K
    BY <1>4
  <2>2. [k \in S(t) |-> t[k].value] = [k \in S(s) |-> s[k].value]
    BY <1>4, <2>1
  <2>3. /\ ProceedsOf(t, K) = SumFunction([k \in S(t) |-> t[k].value])
        /\ ProceedsOf(s, K) = SumFunction([k \in S(s) |-> s[k].value])
    BY DEF ProceedsOf
  <2> HIDE DEF S
  <2> QED BY <2>2, <2>3
<1>6. SpentOf(t, K) = SpentOf(s, K)
  <2> DEFINE S(r) == {x \in K : r[x].side = "buy"}
  <2>1. S(t) = S(s) /\ S(s) \subseteq K
    BY <1>4
  <2>2. [k \in S(t) |-> t[k].value] = [k \in S(s) |-> s[k].value]
    BY <1>4, <2>1
  <2>3. /\ SpentOf(t, K) = SumFunction([k \in S(t) |-> t[k].value])
        /\ SpentOf(s, K) = SumFunction([k \in S(s) |-> s[k].value])
    BY DEF SpentOf
  <2> HIDE DEF S
  <2> QED BY <2>2, <2>3
<1>7. FeesOf(t, K) = FeesOf(s, K)
  <2>1. [k \in K |-> t[k].fees] = [k \in K |-> s[k].fees]
    BY <1>4
  <2> QED BY <2>1 DEF FeesOf
<1>8. BoughtOf(t, L) = BoughtOf(s, L)
  <2>1. [k \in L |-> t[k].size] = [k \in L |-> s[k].size]
    BY <1>4
  <2> QED BY <2>1 DEF BoughtOf
<1>9. EarnedOn(more, Q) = EarnedOn(days, Q)
  <2>1. [e \in Q |-> Dividend(more, e)] = [e \in Q |-> Dividend(days, e)]
    BY <1>2, <1>3
  <2> QED BY <2>1 DEF EarnedOn
<1>10. EarnedOn(more, P \ Q) = EarnedOn(days, P \ Q)
  <2>1. [e \in P \ Q |-> Dividend(more, e)] = [e \in P \ Q |-> Dividend(days, e)]
    BY <1>2, <1>3
  <2> QED BY <2>1 DEF EarnedOn
<1>11. /\ row.cash = initial + ProceedsOf(s, K)
                     - (SpentOf(s, K) + FeesOf(s, K)) + EarnedOn(days, Q)
       /\ row.receivable = EarnedOn(days, P \ Q)
       /\ row.size - row.available = BoughtOf(s, L)
  BY DEF RowFollows, K, L, P, Q
<1>12. /\ row.cash = initial + ProceedsOf(t, K)
                     - (SpentOf(t, K) + FeesOf(t, K)) + EarnedOn(more, Q)
       /\ row.receivable = EarnedOn(more, P \ Q)
       /\ row.size - row.available = BoughtOf(t, L)
  BY <1>5, <1>6, <1>7, <1>8, <1>9, <1>10, <1>11
<1>13. DoneBy(t, row) = K /\ NewOn(t, row) = L /\ Past(events, row) = P /\ PaidBy(events, row) = Q
  BY <1>1 DEF P, Q
<1> QED BY <1>12, <1>13 DEF RowFollows

-----------------------------------------------------------------------------
(* The invariant of a run *)

\* The day's part of the run is over: for a date, its corporate actions; its
\* open; its close.
ActionsDone(date) == date < day \/ (date = day /\ phase # "actions")
OpenDone(date) == date < day \/ (date = day /\ phase \notin {"actions", "execute"})
CloseDone(date) == date < day \/ (date = day /\ phase \notin {"actions", "execute", "signal"})

\* What is where, and what a phase says of it.
RunType ==
    /\ frame \in Frames /\ actions \in ActionSets /\ DatesHaveBars(frame, actions)
    /\ balance \in InitialBalances
    /\ phase \in {"bar", "actions", "execute", "signal", "done"}
    /\ day \in frame \cup {NoDate} /\ (phase # "bar" => day # NoDate)
    /\ phase \in {"actions", "execute", "signal"} => bar \in Bars
    /\ cash \in Int /\ position \in Nat /\ lots \in Seq(LotType)
    /\ orders \in Seq(OrderType) /\ pending \in 0 .. Len(orders)
    /\ fills \in Seq(FillType) /\ daily \in Seq(DayType)
    /\ \A i \in DOMAIN fills : fills[i].order \in DOMAIN orders /\ OpenDone(fills[i].date)
    /\ \A i \in DOMAIN daily : CloseDone(daily[i].date)
    /\ daily = <<>> => orders = <<>> /\ position = 0

\* The shares are one whole lot, that of the last fill, or none; every other buy
\* can have been sold.
HoldingInv ==
    /\ position = 0 => \A i \in DOMAIN lots : lots[i].remaining = 0
    /\ position > 0 =>
          /\ fills # <<>> /\ lots # <<>>
          /\ \A i \in DOMAIN lots \ {Len(lots)} : lots[i].remaining = 0
          /\ fills[Len(fills)].side = "buy" /\ fills[Len(fills)].size = position
          /\ lots[Len(lots)].remaining = position
          /\ lots[Len(lots)].available = NextSession(fills[Len(fills)].date)
    /\ \A k \in DOMAIN fills : fills[k].side = "buy" =>
          NextSession(fills[k].date) <= day \/ (k = Len(fills) /\ position > 0)
    /\ phase \in {"bar", "actions", "done"} /\ daily # <<>> =>
          daily[Len(daily)].size = position

\* What has become of an order o of number i, executions s and bar dates given.
Executions(s, i) == {k \in DOMAIN s : s[k].order = i}
DecidedWell(o, i, s, dates) ==
    /\ <<o.status, o.reason = "none">> \in
           {<<"completed", TRUE>>, <<"rejected", FALSE>>, <<"margin", TRUE>>}
    /\ o.status = "completed" =>
          \E k \in Executions(s, i) :
              /\ Executions(s, i) = {k}
              /\ s[k].date = NextSession(o.signal) /\ NextSession(o.signal) \in dates
              /\ s[k].size = o.size /\ o.size > 0
    /\ o.status # "completed" => Executions(s, i) = {}
    /\ o.status = "margin" =>
          o.side = "buy" /\ NextSession(o.signal) \in dates /\ o.size > 0
    /\ o.reason = "suspended_no_bar" <=>
          NextSession(o.signal) # NoDate /\ NextSession(o.signal) \notin dates
    /\ o.reason = "no_next_session_in_range" =>
          \/ NextSession(o.signal) = NoDate
          \/ o.side = "buy" /\ NextSession(NextSession(o.signal)) = NoDate
    /\ o.side = "sell" =>
          o.reason \notin {"insufficient_sellable_position", "invalid_lot_size"}

\* The live order: its session has not opened yet, it is for all that is held, and
\* that was bought by then.
PendingInv ==
    pending # 0 =>
        /\ Order.status = "accepted" /\ Order.reason = "none"
        /\ Executions(fills, pending) = {}
        /\ \A d \in frame : Order.signal < d /\ OpenDone(d) => Target # NoDate /\ d < Target
        /\ Order.side = "buy" => position = 0
        /\ Order.side = "sell" => Order.size = position /\ position > 0
        /\ \A k \in DOMAIN fills : fills[k].date <= Order.signal

DecidedInv ==
    /\ \A i \in DOMAIN orders : i = pending \/ DecidedWell(orders[i], i, fills, frame)
    /\ phase = "done" => pending = 0

\* An order costs money, or a fen more, on the date that is its session.
CostsAll(o, date, money) ==
    /\ date = NextSession(o.signal)
    /\ \E b \in Bars : Cost(date, b.open, o.size) \in {money, money + 1}

\* On the day of an order not executed its row is still to be written.
CostsItsDay(o, days, unwritten, date, money) ==
    \/ \E i \in DOMAIN days : CostsAll(o, days[i].date, days[i].cash)
    \/ unwritten /\ CostsAll(o, date, money)

MarginInv ==
    \A i \in DOMAIN orders :
        orders[i].status = "margin" =>
            CostsItsDay(orders[i], daily, phase = "signal", day, cash)

\* The dividends between their ex-date and their payment are owed, the others paid.
Events == Covered(frame, actions)
Owed == {e \in Events : ActionsDone(e.ex) /\ ~ActionsDone(e.payable)}
PaidEvents == {e \in Events : ActionsDone(e.payable)}

CashInv ==
    /\ receivables = Receipts(daily, Owed)
    /\ cash = InitialCash + ProceedsOf(fills, DOMAIN fills)
              - (SpentOf(fills, DOMAIN fills) + FeesOf(fills, DOMAIN fills))
              + EarnedOn(daily, PaidEvents)

RowsInv == \A i \in DOMAIN daily : RowFollows(InitialCash, fills, daily, Events, daily[i])

BookInv ==
    /\ RunType /\ HoldingInv /\ PendingInv /\ DecidedInv /\ MarginInv
    /\ CashInv /\ RowsInv

\* The dividends a run may be given: a finite set, of events of the ledger.
LEMMA EventsAre ==
    ASSUME RunType
    PROVE  /\ IsFiniteSet(Events) /\ Events \subseteq EventType
           /\ IsFiniteSet(frame) /\ frame \subseteq Nat \ {0} /\ frame # {}
           /\ LastDate(frame) \in frame /\ \A d \in frame : d <= LastDate(frame)
           /\ \A e \in Events : /\ e.ex \in frame /\ e.ex <= e.payable
                                /\ e.payable <= LastDate(frame) => e.payable \in frame
<1>1. frame \in Frames /\ actions \in ActionSets /\ DatesHaveBars(frame, actions)
  BY DEF RunType
<1>2. frame # {} /\ frame \subseteq Nat \ {0} /\ IsFiniteSet(frame)
  BY <1>1, BacktestAssumption
<1>3. /\ IsFiniteSet(actions) /\ actions \subseteq EventType
      /\ \A e \in actions : e.ex <= e.payable
  BY <1>1, BacktestAssumption DEF EventType
<1>4. LastDate(frame) \in frame /\ \A d \in frame : d <= LastDate(frame)
  BY <1>2, FiniteMax DEF LastDate
<1>5. Events \subseteq actions
  BY DEF Events, Covered
<1>6. IsFiniteSet(Events)
  BY <1>3, <1>5, FS_Subset
<1>7. \A e \in Events : e.ex \in frame /\ (e.payable <= LastDate(frame) => e.payable \in frame)
  BY <1>1 DEF DatesHaveBars, Events
<1> QED BY <1>2, <1>3, <1>4, <1>5, <1>6, <1>7

\* The invariant gives both properties.
LEMMA RowsFollow ==
    ASSUME RowsInv
    PROVE  LedgersFollowFromTheRecords
<1>1. \A i \in DOMAIN daily : RowFollows(InitialCash, fills, daily, Events, daily[i])
  BY DEF RowsInv
<1>2. ASSUME NEW i \in DOMAIN daily
      PROVE  LET row  == daily[i]
                 past == {e \in Covered(frame, actions) : e.ex <= row.date}
                 paid == {e \in past : e.payable <= row.date}
                 new  == {k \in DOMAIN fills :
                             /\ fills[k].side = "buy" /\ fills[k].date <= row.date
                             /\ NextSession(fills[k].date) > row.date}
                 done == FilledBy(row.date)
             IN  /\ row.cash = InitialCash + Proceeds(done) - Costs(done) + Earned(paid)
                 /\ row.receivable = Earned(past \ paid)
                 /\ row.size - row.available = SumFunction([k \in new |-> fills[k].size])
  <2>1. RowFollows(InitialCash, fills, daily, Events, daily[i])
    BY <1>1
  <2>2. /\ \A K : Proceeds(K) = ProceedsOf(fills, K)
        /\ \A K : Costs(K) = SpentOf(fills, K) + FeesOf(fills, K)
        /\ \A K : SumFunction([k \in K |-> fills[k].size]) = BoughtOf(fills, K)
        /\ \A es : Earned(es) = EarnedOn(daily, es)
    BY DEF Proceeds, Costs, ProceedsOf, SpentOf, FeesOf, BoughtOf, Earned, EarnedOn,
           Dividend, HeldBefore, HeldIn
  <2> DEFINE row  == daily[i]
             past == {e \in Covered(frame, actions) : e.ex <= row.date}
             paid == {e \in past : e.payable <= row.date}
             new  == {k \in DOMAIN fills :
                         /\ fills[k].side = "buy" /\ fills[k].date <= row.date
                         /\ NextSession(fills[k].date) > row.date}
             done == FilledBy(row.date)
  <2>3. /\ past = Past(Events, row) /\ paid = PaidBy(Events, row)
        /\ new = NewOn(fills, row) /\ done = DoneBy(fills, row)
    BY DEF Past, PaidBy, NewOn, DoneBy, FilledBy, Events
  <2> HIDE DEF row, past, paid, new, done
  <2>4. RowFollows(InitialCash, fills, daily, Events, row)
    BY <2>1 DEF row
  <2>5. /\ row.cash = InitialCash + Proceeds(done) - Costs(done) + Earned(paid)
        /\ row.receivable = Earned(past \ paid)
        /\ row.size - row.available = SumFunction([k \in new |-> fills[k].size])
    BY <2>2, <2>3, <2>4 DEF RowFollows
  <2> QED BY <2>5 DEF row, past, paid, new, done
<1> QED BY <1>2 DEF LedgersFollowFromTheRecords

\* The initial cash is whole fen, and its rest less than a fen either way.
LEMMA BalanceIs ==
    ASSUME balance \in InitialBalances
    PROVE  InitialCash \in Nat /\ Fraction \in -4 .. 5
<1>1. balance \in Nat \ {0}
  BY BacktestAssumption
<1>2. (balance + 4) \div 10 \in Nat /\ balance - 10 * ((balance + 4) \div 10) \in -4 .. 5
  BY <1>1, SMTT(60)
<1> QED BY <1>2 DEF InitialCash, Fraction

LEMMA InitialCashIs ==
    ASSUME RunType
    PROVE  InitialCash \in Nat /\ Fraction \in -4 .. 5
BY BalanceIs DEF RunType

\* What was not executed for want of cash stays so.
LEMMA MarginStays ==
    ASSUME MarginInv,
           \A i \in DOMAIN orders' : orders'[i].status = "margin" =>
               \/ i \in DOMAIN orders /\ orders'[i] = orders[i]
               \/ CostsItsDay(orders'[i], daily', phase' = "signal", day', cash'),
           \A k \in DOMAIN daily : k \in DOMAIN daily' /\ daily'[k] = daily[k],
           phase = "signal" =>
               \/ phase' = "signal" /\ UNCHANGED <<day, cash>>
               \/ \E k \in DOMAIN daily' : daily'[k].date = day /\ daily'[k].cash = cash
    PROVE  MarginInv'
<1> SUFFICES ASSUME NEW i \in DOMAIN orders', orders'[i].status = "margin",
                    i \in DOMAIN orders, orders'[i] = orders[i]
             PROVE  CostsItsDay(orders'[i], daily', phase' = "signal", day', cash')
  BY DEF MarginInv
<1>1. CASE \E k \in DOMAIN daily : CostsAll(orders[i], daily[k].date, daily[k].cash)
  <2>1. PICK k \in DOMAIN daily : CostsAll(orders[i], daily[k].date, daily[k].cash)
    BY <1>1
  <2>2. k \in DOMAIN daily' /\ CostsAll(orders'[i], daily'[k].date, daily'[k].cash)
    BY <2>1
  <2> QED BY <2>2 DEF CostsItsDay
<1>2. CASE phase = "signal" /\ CostsAll(orders[i], day, cash)
  <2>1. CASE phase' = "signal" /\ UNCHANGED <<day, cash>>
    BY <1>2, <2>1 DEF CostsItsDay
  <2>2. CASE \E k \in DOMAIN daily' : daily'[k].date = day /\ daily'[k].cash = cash
    <3>1. PICK k \in DOMAIN daily' : daily'[k].date = day /\ daily'[k].cash = cash
      BY <2>2
    <3>2. CostsAll(orders'[i], daily'[k].date, daily'[k].cash)
      BY <1>2, <3>1
    <3> QED BY <3>2 DEF CostsItsDay
  <2> QED BY <1>2, <2>1, <2>2
<1> QED BY <1>1, <1>2 DEF MarginInv, CostsItsDay

LEMMA DecisionsStand ==
    ASSUME RunType, DecidedInv, MarginInv
    PROVE  OrdersAreDecidedOnTheNextSession
<1>1. phase # "failed"
  BY DEF RunType
<1>2. ASSUME phase = "done", NEW i \in DOMAIN orders
      PROVE  DecidedWell(orders[i], i, fills, frame)
  BY <1>2 DEF DecidedInv, RunType
<1>3. \A i : FillsOf(i) = Executions(fills, i)
  BY DEF FillsOf, Executions
<1>4. ASSUME phase = "done", NEW i \in DOMAIN orders, orders[i].status = "margin"
      PROVE  SpendsAllCash(orders[i])
  BY <1>4 DEF MarginInv, CostsItsDay, CostsAll, SpendsAllCash
<1> QED BY <1>1, <1>2, <1>3, <1>4 DEF OrdersAreDecidedOnTheNextSession, DecidedWell

\* The fields of the records.
LEMMA RecordsAre ==
    ASSUME RunType
    PROVE  /\ \A i \in DOMAIN fills : /\ fills[i] \in FillType /\ fills[i].date \in Nat
                                       /\ fills[i].side \in {"buy", "sell"}
                                       /\ fills[i].size \in Nat /\ fills[i].order \in Nat
           /\ \A i \in DOMAIN daily : daily[i] \in DayType /\ daily[i].date \in Nat
           /\ \A i \in DOMAIN orders :
                 /\ orders[i] \in OrderType /\ orders[i].signal \in Nat
                 /\ orders[i].side \in {"buy", "sell"} /\ orders[i].size \in Nat
           /\ \A i \in DOMAIN lots : /\ lots[i] \in LotType /\ lots[i].remaining \in Nat
                                      /\ lots[i].available \in Nat
<1>1. /\ fills \in Seq(FillType) /\ daily \in Seq(DayType)
      /\ orders \in Seq(OrderType) /\ lots \in Seq(LotType)
  BY DEF RunType
<1>2. /\ \A i \in DOMAIN fills : fills[i] \in FillType
      /\ \A i \in DOMAIN daily : daily[i] \in DayType
      /\ \A i \in DOMAIN orders : orders[i] \in OrderType
      /\ \A i \in DOMAIN lots : lots[i] \in LotType
  BY <1>1
<1>3. /\ \A x \in FillType : /\ x.date \in Nat /\ x.side \in {"buy", "sell"}
                             /\ x.size \in Nat /\ x.order \in Nat
      /\ \A x \in DayType : x.date \in Nat
      /\ \A x \in OrderType : x.signal \in Nat /\ x.side \in {"buy", "sell"} /\ x.size \in Nat
      /\ \A x \in LotType : x.remaining \in Nat /\ x.available \in Nat
  BY DEF FillType, DayType, OrderType, LotType
<1> QED BY <1>2, <1>3

LEMMA NextSessionNat ==
    ASSUME NEW d \in Nat
    PROVE  NextSession(d) \in Nat
<1>1. CASE NextSession(d) = NoDate
  BY <1>1 DEF NoDate
<1>2. CASE NextSession(d) # NoDate
  BY <1>2, NextSessionIs, CalendarAssumption
<1> QED BY <1>1, <1>2

-----------------------------------------------------------------------------
(* A run starts *)

LEMMA RunStarts ==
    ASSUME BacktestInit
    PROVE  BookInv
<1>1. /\ frame \in Frames /\ actions \in ActionSets /\ DatesHaveBars(frame, actions)
      /\ balance \in InitialBalances
      /\ phase = "bar" /\ day = NoDate /\ cash = InitialCash /\ position = 0 /\ lots = <<>>
      /\ receivables = {} /\ pending = 0 /\ orders = <<>> /\ fills = <<>> /\ daily = <<>>
  BY DEF BacktestInit
<1>2. /\ DOMAIN lots = {} /\ DOMAIN orders = {} /\ DOMAIN fills = {} /\ DOMAIN daily = {}
      /\ lots \in Seq(LotType) /\ orders \in Seq(OrderType) /\ fills \in Seq(FillType)
      /\ daily \in Seq(DayType) /\ Len(orders) = 0
  BY <1>1
<1>3. RunType
  <2>1. cash \in Int
    BY <1>1, BalanceIs
  <2> QED BY <1>1, <1>2, <2>1 DEF RunType
<1>4. HoldingInv /\ PendingInv /\ DecidedInv /\ MarginInv /\ RowsInv
  BY <1>1, <1>2 DEF HoldingInv, PendingInv, DecidedInv, MarginInv, RowsInv
<1>5. Owed = {} /\ PaidEvents = {}
  <2>1. \A d \in frame : ~ActionsDone(d)
    BY <1>1, <1>3, EventsAre DEF ActionsDone, NoDate
  <2>2. \A e \in Events : e.ex \in frame /\ e.ex <= e.payable /\ e.payable \in Nat /\ e.ex \in Nat \ {0}
    BY <1>3, EventsAre DEF EventType
  <2>3. \A e \in Events : ~ActionsDone(e.ex) /\ ~ActionsDone(e.payable)
    BY <1>1, <2>1, <2>2 DEF ActionsDone, NoDate
  <2> QED BY <2>3 DEF Owed, PaidEvents
<1>6. CashInv
  <2>1. Receipts(daily, {}) = {}
    BY DEF Receipts
  <2>2. IsFiniteSet({})
    BY FS_EmptySet
  <2>3. EarnedOn(daily, {}) = 0
    <3>1. IsFiniteSet(DOMAIN [e \in {} |-> Dividend(daily, e)])
      BY <2>2
    <3> QED BY <3>1, SumOfZeros DEF EarnedOn
  <2>4. ProceedsOf(fills, {}) = 0 /\ SpentOf(fills, {}) = 0 /\ FeesOf(fills, {}) = 0
    <3>1. {x \in {} : fills[x].side = "sell"} = {} /\ {x \in {} : fills[x].side = "buy"} = {}
      OBVIOUS
    <3>2. /\ IsFiniteSet(DOMAIN [k \in {} |-> fills[k].value])
          /\ IsFiniteSet(DOMAIN [k \in {} |-> fills[k].fees])
      BY <2>2
    <3>3. /\ SumFunction([k \in {} |-> fills[k].value]) = 0
          /\ SumFunction([k \in {} |-> fills[k].fees]) = 0
      BY <3>2, SumOfZeros
    <3> QED BY <3>1, <3>3 DEF ProceedsOf, SpentOf, FeesOf
  <2>5. InitialCash \in Nat
    BY <1>3, InitialCashIs
  <2> QED BY <1>1, <1>2, <1>5, <2>1, <2>3, <2>4, <2>5 DEF CashInv
<1> QED BY <1>3, <1>4, <1>6 DEF BookInv

-----------------------------------------------------------------------------
(* The next bar *)

LEMMA NextBarKeepsBook ==
    ASSUME BookInv, NextBar
    PROVE  BookInv'
<1>1. /\ phase = "bar" /\ phase' = "actions" /\ bar' \in Bars
      /\ {d \in frame : d > day} # {} /\ day' = Min({d \in frame : d > day})
      /\ UNCHANGED <<frame, actions, balance, cash, position, lots, receivables, pending,
                     orders, fills, daily>>
  BY DEF NextBar, Given, book
<1>2. RunType /\ HoldingInv /\ PendingInv /\ DecidedInv /\ MarginInv /\ CashInv /\ RowsInv
  BY DEF BookInv
<1>3. /\ frame \subseteq Nat \ {0} /\ day \in Nat
      /\ \A d \in frame : d <= LastDate(frame)
      /\ Events \subseteq EventType
      /\ \A e \in Events : /\ e.ex \in frame /\ e.ex <= e.payable
                           /\ e.payable <= LastDate(frame) => e.payable \in frame
  <2>1. frame \subseteq Nat \ {0} /\ day \in frame \cup {NoDate}
    BY <1>2, EventsAre DEF RunType
  <2> QED BY <1>2, <2>1, EventsAre DEF NoDate
<1>4. day' \in frame /\ day' \in Nat /\ day < day' /\ \A d \in frame : d < day' => d <= day
  <2> DEFINE S == {d \in frame : d > day}
  <2>1. S \subseteq Nat /\ S # {} /\ S \subseteq frame
    BY <1>1, <1>3
  <2>2. Min(S) \in S /\ \A k \in S : Min(S) <= k
    <3> HIDE DEF S
    <3> QED BY <2>1, MinIs
  <2>3. day' = Min(S)
    BY <1>1
  <2>4. \A d \in frame : d \in S <=> day < d
    BY <1>3
  <2> HIDE DEF S
  <2>5. day' \in S /\ day' \in frame /\ day' \in Nat /\ \A d \in S : day' <= d
    BY <2>1, <2>2, <2>3
  <2>6. day < day'
    BY <2>4, <2>5
  <2>7. \A d \in frame : d < day' => d <= day
    BY <1>3, <2>4, <2>5
  <2> QED BY <2>5, <2>6, <2>7
<1>5. /\ \A d \in Nat : ActionsDone(d) <=> d <= day
      /\ \A d \in Nat : OpenDone(d) <=> d <= day
      /\ \A d \in Nat : CloseDone(d) <=> d <= day
      /\ \A d \in Nat : ActionsDone(d)' <=> d < day'
      /\ \A d \in Nat : OpenDone(d)' <=> d < day'
      /\ \A d \in Nat : CloseDone(d)' <=> d < day'
  BY <1>1, <1>3, <1>4 DEF ActionsDone, OpenDone, CloseDone
<1>6. /\ \A i \in DOMAIN fills : fills[i].date \in Nat /\ OpenDone(fills[i].date)
      /\ \A i \in DOMAIN daily : daily[i].date \in Nat /\ CloseDone(daily[i].date)
  BY <1>2, RecordsAre DEF RunType
<1>7. RunType'
  <2>1. /\ \A i \in DOMAIN fills : fills[i].date < day'
        /\ \A i \in DOMAIN daily : daily[i].date < day'
    <3>1. /\ \A i \in DOMAIN fills : fills[i].date \in Nat /\ fills[i].date <= day
          /\ \A i \in DOMAIN daily : daily[i].date \in Nat /\ daily[i].date <= day
      BY <1>5, <1>6
    <3> QED BY <1>3, <1>4, <3>1
  <2> QED BY <1>1, <1>2, <1>4, <2>1, <1>3 DEF RunType, NoDate, OpenDone, CloseDone
<1>8. HoldingInv'
  <2>1. \A k \in DOMAIN fills : fills[k].side = "buy" =>
            NextSession(fills[k].date) <= day' \/ (k = Len(fills) /\ position > 0)
    <3>1. \A k \in DOMAIN fills : NextSession(fills[k].date) \in Nat
      BY <1>6, NextSessionNat
    <3>2. \A k \in DOMAIN fills : fills[k].side = "buy" =>
              NextSession(fills[k].date) <= day \/ (k = Len(fills) /\ position > 0)
      BY <1>2 DEF HoldingInv
    <3> QED BY <1>3, <1>4, <3>1, <3>2
  <2> QED BY <1>1, <1>2, <2>1 DEF HoldingInv
<1>9. PendingInv'
  <2>1. \A d \in frame : OpenDone(d)' => OpenDone(d)
    BY <1>3, <1>4, <1>5
  <2> QED BY <1>1, <1>2, <2>1 DEF PendingInv, Order, Target
<1>10. DecidedInv'
  BY <1>1, <1>2 DEF DecidedInv
<1>11. Events' = Events /\ Owed' = Owed /\ PaidEvents' = PaidEvents
  <2>1. Events' = Events
    BY <1>1 DEF Events
  <2>2. \A e \in Events : e.ex \in Nat /\ e.payable \in Nat
    BY <1>3 DEF EventType
  <2>3. \A e \in Events : ActionsDone(e.ex)' <=> ActionsDone(e.ex)
    BY <1>3, <1>4, <1>5, <2>2
  <2>4. \A e \in Events : ActionsDone(e.payable)' <=> ActionsDone(e.payable)
    <3> TAKE e \in Events
    <3>1. LastDate(frame) \in Nat /\ day' <= LastDate(frame) /\ e.payable \in Nat
      BY <1>2, <1>3, <1>4, <2>2, EventsAre
    <3>2. e.payable < day' <=> e.payable <= day
      BY <1>3, <1>4, <3>1
    <3> QED BY <1>5, <3>1, <3>2
  <2> QED BY <2>1, <2>3, <2>4 DEF Owed, PaidEvents
<1>12. CashInv' /\ RowsInv'
  BY <1>1, <1>2, <1>11 DEF CashInv, RowsInv, InitialCash
<1>13. MarginInv'
  BY <1>1, <1>2, MarginStays
<1> QED BY <1>7, <1>8, <1>9, <1>10, <1>12, <1>13 DEF BookInv

-----------------------------------------------------------------------------
(* The corporate actions of a day *)

\* What the day registers and pays, in terms of the events.
LEMMA DayOfDividends ==
    ASSUME BookInv, phase = "actions"
    PROVE  LET held == receivables \cup Registered
               open == {e \in Events : e.ex <= day /\ day < e.payable}
               now  == {e \in Events : e.ex <= day /\ e.payable = day}
           IN  /\ Due(held) = Receipts(daily, now)
               /\ held \ Due(held) = Receipts(daily, open)
<1> DEFINE held == receivables \cup Registered
           open == {e \in Events : e.ex <= day /\ day < e.payable}
           now  == {e \in Events : e.ex <= day /\ e.payable = day}
           both == {e \in Events : e.ex <= day /\ ~(e.payable < day)}
<1>1. RunType /\ HoldingInv /\ CashInv
  BY DEF BookInv
<1>2. /\ day \in frame /\ day \in Nat
      /\ \A e \in Events : e.ex \in Nat /\ e.payable \in Nat /\ e.ex <= e.payable
      /\ \A e \in Events : e.perUnit \in Nat
  <2>1. frame \subseteq Nat \ {0} /\ day \in frame
    BY <1>1, EventsAre DEF RunType
  <2>2. \A e \in EventType : e.ex \in Nat /\ e.payable \in Nat /\ e.perUnit \in Nat
    BY DEF EventType
  <2> QED BY <1>1, <2>1, <2>2, EventsAre
<1>3. \A d \in Nat : (ActionsDone(d) <=> d < day) /\ (CloseDone(d) <=> d < day)
  BY <1>2 DEF ActionsDone, CloseDone
<1>4. HeldIn(daily, day) = position
  <2>1. \A i \in DOMAIN daily : daily[i].date < day
    BY <1>1, <1>3, RecordsAre DEF RunType
  <2>2. HeldIn(daily, day) = IF daily = <<>> THEN 0 ELSE daily[Len(daily)].size
    BY <1>1, <1>2, <2>1, HeldNow DEF RunType
  <2>3. daily = <<>> => position = 0
    BY <1>1 DEF RunType
  <2>4. daily # <<>> => daily[Len(daily)].size = position
    BY <1>1 DEF HoldingInv
  <2> QED BY <2>2, <2>3, <2>4
<1>5. Owed = {e \in Events : e.ex < day /\ ~(e.payable < day)}
  BY <1>2, <1>3 DEF Owed
<1>6. Registered = Receipts(daily, {e \in Events : e.ex = day})
  <2>1. {x \in actions : x.ex = day} = {e \in Events : e.ex = day}
    <3>1. \A e \in actions : e.ex = day => e \in Events
      <4>1. day \in FirstDate(frame) .. LastDate(frame)
        <5>1. frame # {} /\ frame \subseteq Nat \ {0} /\ LastDate(frame) \in frame /\ day <= LastDate(frame)
          BY <1>1, <1>2, EventsAre
        <5>2. FirstDate(frame) \in frame /\ FirstDate(frame) <= day
          BY <1>2, <5>1, MinIs DEF FirstDate
        <5> QED BY <1>2, <5>1, <5>2
      <4> QED BY <4>1 DEF Events, Covered
    <3> QED BY <3>1 DEF Events, Covered
  <2>2. \A e : e.ex = day => (Dividend(daily, e) = NotionalFen(e.perUnit, position)
                              /\ HeldIn(daily, e.ex) = position)
    BY <1>4 DEF Dividend
  <2>3. CASE position = 0
    BY <2>2, <2>3 DEF Registered, Receipts
  <2>4. CASE position # 0
    <3>1. Registered = {[event |-> e, amount |-> NotionalFen(e.perUnit, position)] :
                           e \in {x \in actions : x.ex = day /\ x.perUnit > 0}}
      BY <2>4 DEF Registered
    <3>2. {x \in actions : x.ex = day /\ x.perUnit > 0}
            = {x \in {e \in Events : e.ex = day} : x.perUnit > 0 /\ HeldIn(daily, x.ex) # 0}
      BY <2>1, <2>2, <2>4
    <3> QED BY <2>2, <3>1, <3>2 DEF Receipts
  <2> QED BY <2>3, <2>4
<1>7. held = Receipts(daily, both)
  <2>1. receivables = Receipts(daily, Owed)
    BY <1>1 DEF CashInv
  <2>2. both = Owed \cup {e \in Events : e.ex = day}
    BY <1>2, <1>5
  <2>3. \A S, T : Receipts(daily, S \cup T) = Receipts(daily, S) \cup Receipts(daily, T)
    BY DEF Receipts
  <2> HIDE DEF both
  <2> QED BY <1>6, <2>1, <2>2, <2>3
<1>8. \A r \in held : /\ r.event \in both
                      /\ r \in Receipts(daily, now) <=> r.event.payable = day
                      /\ r \in Receipts(daily, open) <=> r.event.payable # day
  <2> TAKE r \in held
  <2>1. PICK e \in both : /\ e.perUnit > 0 /\ HeldIn(daily, e.ex) # 0
                          /\ r = [event |-> e, amount |-> Dividend(daily, e)]
    BY <1>7 DEF Receipts
  <2>2. e.payable = day <=> e \in now
    BY <2>1
  <2>3. e.payable # day <=> e \in open
    BY <1>2, <2>1
  <2>4. \A S : r \in Receipts(daily, S) <=> e \in S
    BY <2>1 DEF Receipts
  <2>5. r.event = e
    BY <2>1
  <2> QED BY <2>1, <2>2, <2>3, <2>4, <2>5
<1>9. Receipts(daily, now) \subseteq held /\ Receipts(daily, open) \subseteq held
  <2>1. now \subseteq both /\ open \subseteq both
    BY <1>2
  <2> QED BY <1>7, <2>1 DEF Receipts
<1>10. Due(held) = {r \in held : r.event.payable = day}
  BY DEF Due
<1> HIDE DEF held, open, now, both
<1>11. /\ Due(held) = Receipts(daily, now)
       /\ held \ Due(held) = Receipts(daily, open)
  BY <1>8, <1>9, <1>10
<1> QED BY <1>11 DEF held, open, now

LEMMA CorporateActionsKeepBook ==
    ASSUME BookInv, CorporateActions
    PROVE  BookInv'
<1> DEFINE held == receivables \cup Registered
           open == {e \in Events : e.ex <= day /\ day < e.payable}
           now  == {e \in Events : e.ex <= day /\ e.payable = day}
<1>1. /\ phase = "actions" /\ phase' = "execute"
      /\ cash' = cash + Amounts(Due(held)) /\ receivables' = held \ Due(held)
      /\ UNCHANGED <<frame, actions, balance, day, bar, position, lots, pending, orders, fills, daily>>
  BY DEF CorporateActions, RegisterAndPay, Given
<1>2. RunType /\ HoldingInv /\ PendingInv /\ DecidedInv /\ MarginInv /\ CashInv /\ RowsInv
  BY DEF BookInv
<1>3. /\ day \in Nat /\ Events \subseteq EventType /\ IsFiniteSet(Events)
      /\ daily \in Seq(DayType) /\ cash \in Int
      /\ \A e \in Events : e.ex \in Nat /\ e.payable \in Nat /\ e.ex <= e.payable
  <2>1. frame \subseteq Nat \ {0} /\ day \in frame
    BY <1>1, <1>2, EventsAre DEF RunType
  <2>2. \A e \in EventType : e.ex \in Nat /\ e.payable \in Nat
    BY DEF EventType
  <2>3. daily \in Seq(DayType) /\ cash \in Int
    BY <1>2 DEF RunType
  <2> QED BY <1>2, <2>1, <2>2, <2>3, EventsAre
<1>4. Due(held) = Receipts(daily, now) /\ receivables' = Receipts(daily, open)
  BY <1>1, DayOfDividends
<1>5. /\ \A d \in Nat : ActionsDone(d) <=> d < day
      /\ \A d \in Nat : ActionsDone(d)' <=> d <= day
      /\ \A d \in Nat : OpenDone(d)' <=> OpenDone(d)
  BY <1>1, <1>3 DEF ActionsDone, OpenDone
<1>6. /\ now \subseteq EventType /\ IsFiniteSet(now)
      /\ PaidEvents \subseteq EventType /\ IsFiniteSet(PaidEvents)
      /\ PaidEvents \cap now = {} /\ PaidEvents' = PaidEvents \cup now
      /\ Owed' = open /\ Events' = Events
  <2>1. Events' = Events
    BY <1>1 DEF Events
  <2>2. now \subseteq Events /\ PaidEvents \subseteq Events
    BY DEF PaidEvents
  <2>3. PaidEvents = {e \in Events : e.payable < day}
    BY <1>3, <1>5 DEF PaidEvents
  <2>4. PaidEvents' = {e \in Events : e.payable <= day}
    BY <1>3, <1>5, <2>1 DEF PaidEvents
  <2>5. Owed' = {e \in Events : e.ex <= day /\ ~(e.payable <= day)}
    BY <1>3, <1>5, <2>1 DEF Owed
  <2>6. Owed' = open
    BY <1>3, <2>5
  <2>7. IsFiniteSet(now) /\ IsFiniteSet(PaidEvents)
    <3> HIDE DEF now
    <3> QED BY <1>3, <2>2, FS_Subset
  <2>8. PaidEvents \cap now = {} /\ PaidEvents' = PaidEvents \cup now
    BY <1>3, <2>3, <2>4
  <2> HIDE DEF now, open
  <2> QED BY <1>3, <2>1, <2>2, <2>6, <2>7, <2>8
<1> HIDE DEF held, open, now
<1>7. Amounts(Due(held)) = EarnedOn(daily, now) /\ EarnedOn(daily, now) \in Nat
  BY <1>3, <1>4, <1>6, ReceiptsAddUp
<1>8. EarnedOn(daily, PaidEvents') = EarnedOn(daily, PaidEvents) + EarnedOn(daily, now)
  <2> DEFINE S == PaidEvents'
             f == [e \in S |-> Dividend(daily, e)]
  <2>1. S = PaidEvents \cup now /\ S \subseteq EventType /\ IsFiniteSet(S)
    BY <1>6, FS_Union
  <2> HIDE DEF S
  <2>2. Counts(f) /\ EarnedOn(daily, S) = SumFunction(f)
    BY <1>3, <2>1, EarnedCounts
  <2>3. DOMAIN f = PaidEvents \cup now
    BY <2>1
  <2>4. SumFunction(f) = SumFunction([e \in PaidEvents |-> f[e]]) + SumFunction([e \in now |-> f[e]])
    <3> HIDE DEF f
    <3> QED BY <1>6, <2>2, <2>3, SumSplits
  <2>5. /\ [e \in PaidEvents |-> f[e]] = [e \in PaidEvents |-> Dividend(daily, e)]
        /\ [e \in now |-> f[e]] = [e \in now |-> Dividend(daily, e)]
    BY <2>1
  <2> HIDE DEF f
  <2>6. EarnedOn(daily, S) = EarnedOn(daily, PaidEvents) + EarnedOn(daily, now)
    BY <2>2, <2>4, <2>5 DEF EarnedOn
  <2> QED BY <2>6 DEF S
<1>9. RunType'
  <2>1. cash' \in Int
    BY <1>1, <1>3, <1>7
  <2> QED BY <1>1, <1>2, <2>1 DEF RunType, OpenDone, CloseDone
<1>10. HoldingInv'
  BY <1>1, <1>2 DEF HoldingInv
<1>11. PendingInv'
  <2>1. \A d \in frame : OpenDone(d)' => OpenDone(d)
    BY <1>2, <1>5, EventsAre
  <2> QED BY <1>1, <1>2, <2>1 DEF PendingInv, Order, Target
<1>12. DecidedInv'
  BY <1>1, <1>2 DEF DecidedInv
<1>13. CashInv'
  <2> DEFINE p == ProceedsOf(fills, DOMAIN fills)
             c == SpentOf(fills, DOMAIN fills) + FeesOf(fills, DOMAIN fills)
  <2>1. cash = InitialCash + p - c + EarnedOn(daily, PaidEvents)
    BY <1>2 DEF CashInv
  <2>2. EarnedOn(daily, PaidEvents) \in Nat
    BY <1>3, <1>6, EarnedCounts
  <2>3. p \in Nat /\ c \in Nat
    <3>1. fills \in Seq(FillType)
      BY <1>2 DEF RunType
    <3>2. /\ ProceedsOf(fills, DOMAIN fills) \in Nat
          /\ SpentOf(fills, DOMAIN fills) \in Nat /\ FeesOf(fills, DOMAIN fills) \in Nat
      BY <3>1, FillSums
    <3> QED BY <3>2
  <2>4. InitialCash \in Nat /\ InitialCash' = InitialCash
    BY <1>1, <1>2, InitialCashIs DEF InitialCash
  <2> HIDE DEF p, c
  <2>5. cash' = InitialCash + p - c + EarnedOn(daily, PaidEvents')
    BY <1>1, <1>7, <1>8, <2>1, <2>2, <2>3, <2>4
  <2> QED BY <1>1, <1>4, <1>6, <2>4, <2>5 DEF CashInv, p, c
<1>14. RowsInv'
  BY <1>1, <1>2, <1>6 DEF RowsInv, InitialCash
<1>15. MarginInv'
  BY <1>1, <1>2, MarginStays
<1> QED BY <1>9, <1>10, <1>11, <1>12, <1>13, <1>14, <1>15 DEF BookInv

-----------------------------------------------------------------------------
(* After the last bar *)

LEMMA FinalizeKeepsBook ==
    ASSUME BookInv, Finalize
    PROVE  BookInv'
<1>1. /\ phase = "bar" /\ day = LastDate(frame) /\ phase' = "done" /\ pending' = 0
      /\ orders' = IF pending = 0 THEN orders
                   ELSE [orders EXCEPT ![pending].status = "rejected",
                                       ![pending].reason =
                                           IF Target = NoDate THEN "no_next_session_in_range"
                                           ELSE "suspended_no_bar"]
      /\ UNCHANGED <<frame, actions, balance, day, bar, cash, position, lots, receivables, fills, daily>>
  BY DEF Finalize, Given, book
<1>2. RunType /\ HoldingInv /\ PendingInv /\ DecidedInv /\ MarginInv /\ CashInv /\ RowsInv
  BY DEF BookInv
<1>3. day \in frame /\ day \in Nat \ {0} /\ \A d \in frame : d \in Nat /\ d <= day
  BY <1>1, <1>2, EventsAre
<1>4. /\ \A d \in Nat : ActionsDone(d)' <=> ActionsDone(d)
      /\ \A d \in Nat : OpenDone(d) <=> d <= day
  BY <1>1, <1>3 DEF ActionsDone, OpenDone
<1>5. orders \in Seq(OrderType) /\ pending \in 0 .. Len(orders)
  BY <1>2 DEF RunType
<1>6. /\ orders' \in Seq(OrderType) /\ DOMAIN orders' = DOMAIN orders
      /\ \A i \in DOMAIN orders : i # pending => orders'[i] = orders[i]
      /\ pending # 0 =>
            /\ orders'[pending] =
                  [orders[pending] EXCEPT
                      !.status = "rejected",
                      !.reason = IF Target = NoDate THEN "no_next_session_in_range"
                                 ELSE "suspended_no_bar"]
            /\ pending \in DOMAIN orders
  <2>1. CASE pending = 0
    BY <1>1, <1>5, <2>1
  <2>2. CASE pending # 0
    <3> DEFINE o == [orders[pending] EXCEPT
                        !.status = "rejected",
                        !.reason = IF Target = NoDate THEN "no_next_session_in_range"
                                   ELSE "suspended_no_bar"]
    <3>1. pending \in DOMAIN orders /\ orders[pending] \in OrderType
      BY <1>5, <2>2
    <3>2. orders' = [orders EXCEPT ![pending] = o]
      BY <1>1, <2>2
    <3>3. o \in OrderType
      BY <3>1 DEF OrderType, Reasons
    <3> HIDE DEF o
    <3>4. /\ orders' \in Seq(OrderType) /\ DOMAIN orders' = DOMAIN orders
          /\ \A i \in DOMAIN orders : i # pending => orders'[i] = orders[i]
          /\ orders'[pending] = o
      BY <1>5, <3>1, <3>2, <3>3
    <3> QED BY <3>1, <3>4 DEF o
  <2> QED BY <2>1, <2>2
<1>7. RunType'
  BY <1>1, <1>2, <1>3, <1>5, <1>6 DEF RunType, OpenDone, CloseDone, NoDate
<1>8. HoldingInv' /\ PendingInv'
  BY <1>1, <1>2 DEF HoldingInv, PendingInv
<1>9. DecidedInv'
  <2>1. ASSUME NEW i \in DOMAIN orders
        PROVE  DecidedWell(orders'[i], i, fills, frame)
    <3>1. CASE i # pending
      <4>1. orders'[i] = orders[i] /\ DecidedWell(orders[i], i, fills, frame)
        BY <1>2, <1>6, <3>1 DEF DecidedInv
      <4> QED BY <4>1
    <3>2. CASE i = pending
      <4>1. pending # 0 /\ i \in Nat
        BY <1>5, <3>2
      <4>2. /\ Order = orders[i] /\ Order.status = "accepted" /\ Order.reason = "none"
            /\ Executions(fills, i) = {}
            /\ \A d \in frame : Order.signal < d /\ OpenDone(d) => Target # NoDate /\ d < Target
        BY <1>2, <3>2, <4>1 DEF PendingInv, Order
      <4>3. Order.signal \in Nat /\ Target = NextSession(Order.signal)
        BY <1>2, <4>2, RecordsAre DEF Target
      <4>4. Target # NoDate => Target \notin frame
        <5> SUFFICES ASSUME Target # NoDate, Target \in frame PROVE FALSE
          OBVIOUS
        <5>1. Order.signal < Target /\ Target \in Nat
          BY <4>3, NextSessionIs, <1>3
        <5>2. OpenDone(Target)
          BY <1>3, <1>4
        <5>3. Target < Target
          BY <4>2, <5>1, <5>2
        <5> QED BY <5>1, <5>3
      <4> DEFINE o == orders'[i]
      <4>5. /\ o.status = "rejected" /\ o.signal = Order.signal /\ o.side = Order.side
            /\ o.reason = IF Target = NoDate THEN "no_next_session_in_range"
                          ELSE "suspended_no_bar"
        <5>1. orders[i] \in OrderType
          BY <1>5
        <5> QED BY <1>6, <3>2, <4>1, <4>2, <5>1 DEF OrderType
      <4> HIDE DEF o
      <4>6. DecidedWell(o, i, fills, frame)
        BY <4>2, <4>3, <4>4, <4>5 DEF DecidedWell
      <4> QED BY <4>6 DEF o
    <3> QED BY <3>1, <3>2
  <2>2. \A i \in DOMAIN orders' : DecidedWell(orders'[i], i, fills, frame)
    BY <1>6, <2>1
  <2> QED BY <1>1, <2>2 DEF DecidedInv
<1>10. Events' = Events /\ Owed' = Owed /\ PaidEvents' = PaidEvents
  <2>1. Events' = Events
    BY <1>1 DEF Events
  <2>2. \A e \in Events : e.ex \in Nat /\ e.payable \in Nat
    <3>1. \A e \in EventType : e.ex \in Nat /\ e.payable \in Nat
      BY DEF EventType
    <3> QED BY <1>2, <3>1, EventsAre
  <2> QED BY <1>4, <2>1, <2>2 DEF Owed, PaidEvents
<1>11. CashInv' /\ RowsInv'
  BY <1>1, <1>2, <1>10 DEF CashInv, RowsInv, InitialCash
<1>12. MarginInv'
  <2>1. \A i \in DOMAIN orders' : orders'[i].status = "margin" =>
            i \in DOMAIN orders /\ orders'[i] = orders[i]
    <3>1. pending # 0 => orders'[pending].status = "rejected"
      <4> DEFINE reason == IF Target = NoDate THEN "no_next_session_in_range"
                           ELSE "suspended_no_bar"
      <4>1. \A x \in OrderType : [x EXCEPT !.status = "rejected", !.reason = reason].status
                                   = "rejected"
        BY DEF OrderType
      <4>2. pending # 0 => orders[pending] \in OrderType
        BY <1>5, <1>6
      <4> QED BY <1>6, <4>1, <4>2
    <3>2. \A i \in DOMAIN orders : i = pending => pending # 0
      BY <1>5
    <3> QED BY <1>6, <3>1, <3>2
  <2> QED BY <1>1, <1>2, <2>1, MarginStays
<1> QED BY <1>7, <1>8, <1>9, <1>11, <1>12 DEF BookInv

-----------------------------------------------------------------------------
(* The open of a day *)

\* The lots hold the position, and all of it or nothing can be sold.
LEMMA HeldShares ==
    ASSUME RunType, HoldingInv, NEW date \in Nat
    PROVE  /\ Sized(lots) /\ DOMAIN lots = 1 .. Len(lots) /\ Len(lots) \in Nat
           /\ SizeOf(lots, DOMAIN lots) = position
           /\ SellableSize(lots, date) =
                 IF position > 0 /\ lots[Len(lots)].available <= date THEN position ELSE 0
<1> DEFINE S == {i \in DOMAIN lots : lots[i].available <= date}
           n == Len(lots)
<1>1. lots \in Seq(LotType) /\ position \in Nat
  BY DEF RunType
<1>2. DOMAIN lots = 1 .. n /\ n \in Nat
  BY <1>1
<1>3. Sized(lots)
  BY <1>1, <1>2, PrefixFinite, RecordsAre DEF Sized
<1>4. SellableSize(lots, date) = SizeOf(lots, S) /\ S \in SUBSET DOMAIN lots
  BY DEF SellableSize
<1>5. CASE position = 0
  <2>1. /\ IsFiniteSet(DOMAIN lots) /\ \A k \in DOMAIN lots : lots[k].remaining = 0
        /\ DOMAIN lots \in SUBSET DOMAIN lots
    BY <1>3, <1>5 DEF Sized, HoldingInv
  <2>2. SizeOf(lots, DOMAIN lots) = 0
    BY <2>1, NoLot
  <2>3. SizeOf(lots, S) = 0
    <3> HIDE DEF S
    <3> QED BY <1>4, <2>1, NoLot
  <2> QED BY <1>2, <1>3, <1>4, <1>5, <2>2, <2>3
<1>6. CASE position # 0
  <2>1. position > 0
    BY <1>1, <1>6
  <2>2. /\ lots # <<>> /\ \A k \in DOMAIN lots \ {n} : lots[k].remaining = 0
        /\ lots[n].remaining = position
    BY <2>1 DEF HoldingInv
  <2>3. n \in DOMAIN lots
    BY <1>1, <1>2, <2>2
  <2>4. SizeOf(lots, DOMAIN lots) = position
    <3>1. SizeOf(lots, DOMAIN lots) = IF n \in DOMAIN lots THEN lots[n].remaining ELSE 0
      <4>1. DOMAIN lots \in SUBSET DOMAIN lots
        OBVIOUS
      <4> HIDE DEF n
      <4> QED BY <1>3, <2>2, <2>3, <4>1, SoleLot
    <3> QED BY <2>2, <2>3, <3>1
  <2>5. SizeOf(lots, S) = IF n \in S THEN position ELSE 0
    <3>1. SizeOf(lots, S) = IF n \in S THEN lots[n].remaining ELSE 0
      <4> HIDE DEF n, S
      <4> QED BY <1>3, <1>4, <2>2, <2>3, SoleLot
    <3> QED BY <2>2, <3>1
  <2>6. n \in S <=> lots[n].available <= date
    BY <2>3
  <2> HIDE DEF S
  <2> QED BY <1>2, <1>3, <1>4, <2>1, <2>4, <2>5, <2>6
<1> QED BY <1>5, <1>6

\* Selling all that is held empties the lots.
LEMMA SellEmpties ==
    ASSUME RunType, HoldingInv, day \in Nat, position > 0, lots[Len(lots)].available <= day
    PROVE  /\ Sold(position) \in Seq(LotType)
           /\ \A i \in DOMAIN Sold(position) : Sold(position)[i].remaining = 0
<1> DEFINE S == {i \in DOMAIN lots : lots[i].available <= day}
           n == Len(lots)
           ahead(k) == SizeOf(lots, {j \in S : j < k})
           taken == ConsumeFifo(lots, S, position)
           next(i) == IF i \in S THEN [lots[i] EXCEPT !.remaining = @ - taken[i]] ELSE lots[i]
<1>1. lots \in Seq(LotType) /\ position \in Nat /\ Sized(lots)
      /\ DOMAIN lots = 1 .. n /\ n \in Nat
  BY HeldShares DEF RunType
<1>2. /\ lots # <<>> /\ \A k \in DOMAIN lots \ {n} : lots[k].remaining = 0
      /\ lots[n].remaining = position
  BY DEF HoldingInv
<1>3. n \in DOMAIN lots /\ n \in S
  BY <1>1, <1>2
<1>4. DOMAIN taken = S /\ \A k \in S : taken[k] = Max({0, Min({lots[k].remaining, position - ahead(k)})})
  BY DEF ConsumeFifo
<1>5. Sold(position) = [i \in DOMAIN lots |-> next(i)]
  BY <1>4 DEF Sold
<1>6. ASSUME NEW k \in S
      PROVE  taken[k] = lots[k].remaining
  <2>1. {j \in S : j < k} \in SUBSET DOMAIN lots /\ n \notin {j \in S : j < k}
    BY <1>1
  <2>2. ahead(k) = 0
    <3> DEFINE T == {j \in S : j < k}
    <3>1. SizeOf(lots, T) = IF n \in T THEN lots[n].remaining ELSE 0
      <4> HIDE DEF T, n
      <4> QED BY <1>1, <1>2, <1>3, <2>1, SoleLot DEF T
    <3> QED BY <2>1, <3>1
  <2>3. lots[k].remaining \in Nat /\ lots[k].remaining <= position
    <3>1. k = n \/ lots[k].remaining = 0
      BY <1>2
    <3> QED BY <1>1, <1>2, <3>1
  <2> DEFINE r == lots[k].remaining
             x == position - ahead(k)
  <2>4. r \in Int /\ x \in Int /\ r >= 0 /\ r <= x
    BY <1>1, <2>2, <2>3
  <2>5. taken[k] = Max({0, Min({r, x})})
    BY <1>4
  <2> HIDE DEF r, x, taken
  <2>6. taken[k] = r
    BY <2>4, <2>5, TakeIs
  <2> QED BY <2>6 DEF r
<1>7. ASSUME NEW i \in DOMAIN lots
      PROVE  next(i) \in LotType /\ next(i).remaining = 0
  <2>1. lots[i] \in LotType /\ lots[i].remaining \in Nat
    BY <1>1, RecordsAre
  <2>2. CASE i \in S
    <3>1. taken[i] = lots[i].remaining
      BY <1>6, <2>2
    <3> HIDE DEF taken, S
    <3>2. next(i) = [lots[i] EXCEPT !.remaining = 0]
      <4>1. lots[i].remaining - taken[i] = 0
        BY <2>1, <3>1
      <4> QED BY <2>2, <4>1
    <3>3. next(i) \in LotType /\ next(i).remaining = 0
      BY <2>1, <3>2 DEF LotType
    <3> QED BY <3>3
  <2>3. CASE i \notin S
    <3>1. next(i) = lots[i] /\ i # n
      BY <1>3, <2>3
    <3> QED BY <1>2, <2>1, <3>1
  <2> QED BY <2>2, <2>3
<1> HIDE DEF next
<1>8. QED
  <2> DEFINE t == [i \in DOMAIN lots |-> next(i)]
  <2>1. t \in Seq(LotType) /\ DOMAIN t = DOMAIN lots /\ \A i \in DOMAIN lots : t[i].remaining = 0
    BY <1>1, <1>7
  <2> QED BY <1>5, <2>1

\* Before its session opens, the live order is what its records say.
LEMMA LiveOrder ==
    ASSUME BookInv, phase = "execute", pending # 0
    PROVE  /\ pending \in DOMAIN orders /\ Order \in OrderType /\ Order = orders[pending]
           /\ Order.signal \in Nat /\ Order.side \in {"buy", "sell"}
           /\ day \in frame /\ day \in Nat \ {0} /\ bar \in Bars
           /\ bar.open \in Nat \ {0} /\ cash \in Int /\ position \in Nat
           /\ Target = NextSession(Order.signal) /\ Target \in Nat
           /\ Target # NoDate => Order.signal < Target
           /\ Target # NoDate /\ Target < day => Target \notin frame
           /\ Order.side = "sell" =>
                 /\ Order.size = position /\ position > 0
                 /\ \A date \in Nat : date = Target /\ Target # NoDate =>
                       /\ lots[Len(lots)].available <= date
                       /\ SellableSize(lots, date) = position
<1>1. RunType /\ HoldingInv /\ PendingInv
  BY DEF BookInv
<1>2. orders \in Seq(OrderType) /\ pending \in 0 .. Len(orders)
  BY <1>1 DEF RunType
<1>3. pending \in DOMAIN orders /\ Order \in OrderType /\ Order = orders[pending]
  BY <1>2 DEF Order
<1>4. Order.signal \in Nat /\ Order.side \in {"buy", "sell"}
  BY <1>3 DEF OrderType
<1>5. /\ day \in frame /\ day \in Nat \ {0} /\ bar \in Bars
      /\ bar.open \in Nat \ {0} /\ cash \in Int /\ position \in Nat
      /\ frame \subseteq Nat \ {0}
  <2>1. day \in frame /\ bar \in Bars /\ cash \in Int /\ position \in Nat
    BY <1>1 DEF RunType
  <2> QED BY <1>1, <2>1, EventsAre, BacktestAssumption
<1>6. /\ Target = NextSession(Order.signal) /\ Target \in Nat
      /\ Target # NoDate => Order.signal < Target
  BY <1>4, NextSessionIs, NextSessionNat DEF Target
<1>7. Target # NoDate /\ Target < day => Target \notin frame
  <2> SUFFICES ASSUME Target # NoDate, Target < day, Target \in frame PROVE FALSE
    OBVIOUS
  <2>1. OpenDone(Target)
    BY DEF OpenDone
  <2>2. Target < Target
    BY <1>1, <1>6, <2>1 DEF PendingInv
  <2> QED BY <1>6, <2>2
<1>8. ASSUME Order.side = "sell", NEW date \in Nat, date = Target, Target # NoDate
      PROVE  lots[Len(lots)].available <= date /\ SellableSize(lots, date) = position
  <2> DEFINE f == fills[Len(fills)]
  <2>1. position > 0 /\ \A k \in DOMAIN fills : fills[k].date <= Order.signal
    BY <1>1, <1>8 DEF PendingInv
  <2>2. fills # <<>> /\ lots[Len(lots)].available = NextSession(f.date)
    BY <1>1, <2>1 DEF HoldingInv
  <2>3. fills \in Seq(FillType)
    BY <1>1 DEF RunType
  <2>4. Len(fills) \in DOMAIN fills
    BY <2>2, <2>3
  <2>5. f.date \in Nat /\ f.date <= Order.signal
    BY <1>1, <2>1, <2>4, RecordsAre
  <2> HIDE DEF f
  <2>6. NextSession(f.date) <= date
    <3>1. CASE NextSession(f.date) = NoDate
      BY <3>1 DEF NoDate
    <3>2. CASE NextSession(f.date) # NoDate
      <4>1. NextSession(f.date) \in Calendar /\ \A s \in Calendar : f.date < s => NextSession(f.date) <= s
        BY <2>5, <3>2, NextSessionIs
      <4>2. Target \in Calendar /\ Order.signal < Target
        BY <1>4, <1>6, <1>8, NextSessionIs
      <4>3. f.date < Target
        BY <1>4, <1>6, <2>5, <4>2
      <4> QED BY <1>8, <4>1, <4>2, <4>3
    <3> QED BY <3>1, <3>2
  <2> QED BY <1>1, <2>1, <2>2, <2>6, HeldShares
<1>9. Order.side = "sell" => Order.size = position /\ position > 0
  BY <1>1 DEF PendingInv
<1> QED BY <1>3, <1>4, <1>5, <1>6, <1>7, <1>8, <1>9

\* The size tried is a number, for a sell all that is held.
LEMMA TriedSizeIs ==
    ASSUME BookInv, phase = "execute", pending # 0
    PROVE  TriedSize \in Nat /\ (Order.side = "sell" => TriedSize = position)
<1>1. /\ bar.open \in Nat \ {0} /\ cash \in Int /\ position \in Nat
      /\ Order.side = "sell" => Order.size = position
  BY LiveOrder
<1>2. CASE Order.side = "sell"
  BY <1>1, <1>2 DEF TriedSize
<1>3. CASE Order.side # "sell"
  <2> DEFINE w == WantedSize \div LotSize
             all == {LotSize * n : n \in 1 .. w}
             enough == {s \in all : Decision(s) # "insufficient_cash"}
  <2>1. WantedSize \in Nat
    <3> DEFINE equity == 10 * (cash + Receivable) + Fraction + position * bar.open
               hair == IF below THEN 1 ELSE 0
               size == (equity * WeightPercent - hair) \div (100 * bar.open)
               x == (size \div LotSize) * LotSize - position
    <3>1. Receivable \in Nat
      <4>1. RunType /\ CashInv
        BY DEF BookInv
      <4>2. daily \in Seq(DayType) /\ Owed \subseteq EventType /\ IsFiniteSet(Owed)
        <5>1. Owed \subseteq Events
          BY DEF Owed
        <5> QED BY <4>1, <5>1, EventsAre, FS_Subset DEF RunType
      <4>3. receivables = Receipts(daily, Owed)
        BY <4>1 DEF CashInv
      <4>4. Amounts(Receipts(daily, Owed)) \in Nat
        BY <4>2, ReceiptsAddUp
      <4> QED BY <4>3, <4>4 DEF Receivable
    <3>2. equity \in Int
      <4> DEFINE p == position * bar.open
      <4>1. p \in Int
        BY <1>1
      <4> HIDE DEF p
      <4>2. Fraction \in Int
        BY InitialCashIs DEF BookInv
      <4>3. 10 * (cash + Receivable) + Fraction + p \in Int
        BY <1>1, <3>1, <4>1, <4>2
      <4> QED BY <4>3 DEF p
    <3>3. WeightPercent \in Nat
      BY BacktestAssumption
    <3> HIDE DEF equity
    <3>4. size \in Int
      <4>1. 100 * bar.open \in Nat \ {0} /\ equity * WeightPercent - hair \in Int
        BY <1>1, <3>2, <3>3
      <4> DEFINE a == equity * WeightPercent - hair
                 b == 100 * bar.open
      <4> HIDE DEF a, b
      <4>2. a \div b \in Int
        BY <4>1 DEF a, b
      <4> QED BY <4>2 DEF a, b
    <3> HIDE DEF size
    <3>5. x \in Int
      BY <1>1, <3>4 DEF LotSize
    <3> HIDE DEF x
    <3>6. Max({x, 0}) \in Nat
      <4>1. CASE x >= 0
        <5>1. \E m \in {x, 0} : \A k \in {x, 0} : m >= k
          BY <3>5, <4>1
        <5>2. Max({x, 0}) \in {x, 0} /\ \A k \in {x, 0} : Max({x, 0}) >= k
          BY <5>1 DEF Max
        <5> QED BY <3>5, <4>1, <5>2
      <4>2. CASE ~(x >= 0)
        <5>1. \E m \in {x, 0} : \A k \in {x, 0} : m >= k
          BY <3>5, <4>2
        <5>2. Max({x, 0}) \in {x, 0} /\ \A k \in {x, 0} : Max({x, 0}) >= k
          BY <5>1 DEF Max
        <5> QED BY <3>5, <4>2, <5>2
      <4> QED BY <4>1, <4>2
    <3> QED BY <3>6 DEF WantedSize, equity, hair, size, x
  <2>2. w \in Nat
    BY <2>1 DEF LotSize
  <2> HIDE DEF w
  <2>3. all \subseteq Nat
    BY <2>2 DEF LotSize
  <2>4. IsFiniteSet(all)
    <3> DEFINE m == LotSize * w
    <3>1. m \in Nat /\ all \subseteq 1 .. m
      <4>1. m \in Nat
        BY <2>2 DEF LotSize
      <4>2. \A n \in 1 .. w : LotSize * n \in 1 .. m
        BY <2>2 DEF LotSize
      <4> QED BY <4>1, <4>2
    <3> HIDE DEF m, all
    <3> QED BY <3>1, PrefixFinite, FS_Subset
  <2>5. TriedSize = IF enough = {} THEN LotSize ELSE Max(enough)
    BY <1>3 DEF TriedSize, w
  <2>6. CASE enough = {}
    BY <1>3, <2>5, <2>6 DEF LotSize
  <2>7. CASE enough # {}
    <3>1. enough \subseteq all
      OBVIOUS
    <3> HIDE DEF enough, all
    <3>2. Max(enough) \in Nat
      BY <2>3, <2>4, <2>7, <3>1, FS_Subset, FiniteMax
    <3> QED BY <1>3, <2>5, <2>7, <3>2
  <2> QED BY <2>6, <2>7
<1> QED BY <1>2, <1>3

\* What the decision on the day of the order can be.
LEMMA DecisionIs ==
    ASSUME BookInv, phase = "execute", pending # 0, Target # NoDate, day = Target,
           NEW size \in Nat, NEW r, Decision(size) = r
    PROVE  /\ r \in Reasons \cup {"allowed"}
           /\ r = "allowed" =>
                 /\ size > 0 /\ ~MissingSchedule(Symbol, Order.side, day)
                 /\ Order.side = "buy" => ~(RoundedCash < Cost(day, bar.open, size))
           /\ r # "suspended_no_bar"
           /\ r = "no_next_session_in_range" =>
                 Order.side = "buy" /\ NextSession(Target) = NoDate
           /\ Order.side = "sell" /\ size = position =>
                 r \notin {"insufficient_sellable_position", "invalid_lot_size"}
<1> DEFINE o == [symbol |-> Symbol, side |-> Order.side, size |-> size,
                 signal |-> Order.signal, hasBar |-> Target \in frame,
                 previousClose |-> reference, open |-> bar.open,
                 cash |-> RoundedCash, lots |-> lots]
<1>1. EvaluateOrder(o) = r
  BY DEF Decision
<1>2. /\ o.symbol = Symbol /\ o.side = Order.side /\ o.size = size
      /\ o.signal = Order.signal /\ o.hasBar = (Target \in frame) /\ o.lots = lots
      /\ o.cash = RoundedCash /\ o.open = bar.open
  OBVIOUS
<1> HIDE DEF o
<1>3. /\ Target = NextSession(Order.signal) /\ day \in frame /\ day \in Nat
      /\ position \in Nat
      /\ Order.side = "sell" => position > 0 /\ SellableSize(lots, day) = position
  BY LiveOrder
<1>4. CASE r = "allowed"
  <2>1. /\ ~(o.size <= 0) /\ ~MissingSchedule(o.symbol, o.side, NextSession(o.signal))
        /\ o.side = "buy" =>
              ~(o.cash < NotionalFen(o.open, o.size)
                         + TotalFees(o.symbol, o.side, NextSession(o.signal), o.open, o.size))
    BY <1>1, <1>4, AllowedOrder
  <2>2. Order.side = "buy" => ~(RoundedCash < Cost(day, bar.open, size))
    BY <1>2, <1>3, <2>1 DEF Cost
  <2> QED BY <1>2, <1>3, <1>4, <2>1, <2>2
<1>5. CASE r # "allowed"
  <2>1. /\ r \in Reasons
        /\ r = "suspended_no_bar" => ~o.hasBar
        /\ r = "no_next_session_in_range" =>
              \/ NextSession(o.signal) = NoDate
              \/ o.side = "buy" /\ NextSession(NextSession(o.signal)) = NoDate
        /\ r = "insufficient_sellable_position" =>
              o.side = "sell" /\ SellableSize(o.lots, NextSession(o.signal)) < o.size
        /\ r = "invalid_lot_size" /\ o.side = "sell" =>
              \/ o.size <= 0
              \/ ~ValidSellSize(SellableSize(o.lots, NextSession(o.signal)), o.size)
    BY <1>1, <1>5, RefusedOrder
  <2>2. r # "suspended_no_bar"
    BY <1>2, <1>3, <2>1
  <2>3. r = "no_next_session_in_range" => Order.side = "buy" /\ NextSession(Target) = NoDate
    BY <1>2, <1>3, <2>1
  <2>4. Order.side = "sell" /\ size = position =>
            r \notin {"insufficient_sellable_position", "invalid_lot_size"}
    <3> SUFFICES ASSUME Order.side = "sell", size = position
                 PROVE  r \notin {"insufficient_sellable_position", "invalid_lot_size"}
      OBVIOUS
    <3>1. SellableSize(o.lots, NextSession(o.signal)) = position /\ position > 0
      BY <1>2, <1>3
    <3>2. ValidSellSize(position, position)
      BY <1>3, <3>1 DEF ValidSellSize
    <3>3. ~(position < position) /\ ~(position <= 0)
      BY <1>3, <3>1
    <3> QED BY <1>2, <2>1, <3>1, <3>2, <3>3
  <2> QED BY <1>5, <2>1, <2>2, <2>3, <2>4
<1> QED BY <1>4, <1>5

\* What the verdict on the live order says.
LEMMA VerdictIs ==
    ASSUME BookInv, phase = "execute", pending # 0
    PROVE  /\ Verdict = "waits" => Target # NoDate /\ day < Target
           /\ Verdict = "allowed" =>
                 /\ Target # NoDate /\ day = Target /\ TriedSize \in Nat /\ TriedSize > 0
                 /\ ~MissingSchedule(Symbol, Order.side, day)
                 /\ Order.side = "buy" => ~(RoundedCash < Cost(day, bar.open, TriedSize))
           /\ Verdict \notin {"waits", "allowed"} =>
                 /\ Verdict \in Reasons
                 /\ Verdict = "suspended_no_bar" <=> Target # NoDate /\ Target \notin frame
                 /\ Verdict = "no_next_session_in_range" =>
                       \/ Target = NoDate
                       \/ Order.side = "buy" /\ NextSession(Target) = NoDate
                 /\ Order.side = "sell" =>
                       Verdict \notin {"insufficient_sellable_position", "invalid_lot_size"}
<1>1. /\ day \in frame /\ day \in Nat \ {0} /\ Target \in Nat
      /\ Target # NoDate /\ Target < day => Target \notin frame
      /\ Order.side \in {"buy", "sell"}
  BY LiveOrder
<1>2. CASE Target = NoDate
  <2>1. Verdict = "no_next_session_in_range"
    BY <1>2 DEF Verdict
  <2> QED BY <1>2, <2>1 DEF Reasons
<1>3. CASE Target # NoDate /\ day < Target
  <2>1. Verdict = "waits"
    BY <1>3 DEF Verdict
  <2> QED BY <1>3, <2>1
<1>4. CASE Target # NoDate /\ Target < day
  <2>1. Verdict = "suspended_no_bar"
    BY <1>1, <1>4 DEF Verdict
  <2> QED BY <1>1, <1>4, <2>1 DEF Reasons
<1>5. CASE Target # NoDate /\ day = Target /\ Order.side = "buy" /\ WantedSize = 0
  <2>1. Verdict = "invalid_lot_size"
    BY <1>1, <1>5 DEF Verdict
  <2> QED BY <1>1, <1>5, <2>1 DEF Reasons
<1>6. CASE Target # NoDate /\ day = Target /\ ~(Order.side = "buy" /\ WantedSize = 0)
  <2>1. Verdict = Decision(TriedSize)
    BY <1>1, <1>6 DEF Verdict
  <2>2. TriedSize \in Nat /\ (Order.side = "sell" => TriedSize = position)
    BY TriedSizeIs
  <2>3. /\ Verdict \in Reasons \cup {"allowed"}
        /\ Verdict = "allowed" =>
              /\ TriedSize > 0 /\ ~MissingSchedule(Symbol, Order.side, day)
              /\ Order.side = "buy" => ~(RoundedCash < Cost(day, bar.open, TriedSize))
        /\ Verdict # "suspended_no_bar"
        /\ Verdict = "no_next_session_in_range" =>
              Order.side = "buy" /\ NextSession(Target) = NoDate
        /\ Order.side = "sell" /\ TriedSize = position =>
              Verdict \notin {"insufficient_sellable_position", "invalid_lot_size"}
    BY <1>6, <2>1, <2>2, DecisionIs
  <2>4. Verdict # "waits"
    BY <2>3 DEF Reasons
  <2> QED BY <1>1, <1>6, <2>2, <2>3, <2>4
<1> QED BY <1>1, <1>2, <1>3, <1>4, <1>5, <1>6

\* What the open of a day leaves alone.
LEMMA OpenOfDay ==
    ASSUME BookInv, phase = "execute", phase' = "signal",
           UNCHANGED <<frame, actions, balance, day, daily>>
    PROVE  /\ Events' = Events /\ Owed' = Owed /\ PaidEvents' = PaidEvents
           /\ day \in frame /\ day \in Nat \ {0} /\ frame \subseteq Nat \ {0}
           /\ \A d \in Nat : OpenDone(d) <=> d < day
           /\ \A d \in Nat : OpenDone(d)' <=> d <= day
           /\ \A k \in DOMAIN fills : fills[k].date < day
           /\ \A i \in DOMAIN daily : daily[i].date < day
<1>1. RunType
  BY DEF BookInv
<1>2. day \in frame /\ day \in Nat \ {0} /\ frame \subseteq Nat \ {0}
  BY <1>1, EventsAre DEF RunType
<1>3. /\ \A d \in Nat : ActionsDone(d)' <=> ActionsDone(d)
      /\ \A d \in Nat : OpenDone(d) <=> d < day
      /\ \A d \in Nat : OpenDone(d)' <=> d <= day
      /\ \A d \in Nat : CloseDone(d) <=> d < day
  BY <1>2 DEF ActionsDone, OpenDone, CloseDone
<1>4. /\ \A k \in DOMAIN fills : fills[k].date < day
      /\ \A i \in DOMAIN daily : daily[i].date < day
  BY <1>1, <1>3, RecordsAre DEF RunType
<1>5. Events' = Events
  BY DEF Events
<1>6. \A e \in Events : e.ex \in Nat /\ e.payable \in Nat
  <2>1. \A e \in EventType : e.ex \in Nat /\ e.payable \in Nat
    BY DEF EventType
  <2> QED BY <1>1, <2>1, EventsAre
<1>7. Owed' = Owed /\ PaidEvents' = PaidEvents
  BY <1>3, <1>5, <1>6 DEF Owed, PaidEvents
<1> QED BY <1>2, <1>3, <1>4, <1>5, <1>7

\* A day on which no order is executed.
LEMMA QuietDayKeepsBook ==
    ASSUME BookInv, phase = "execute", phase' = "signal",
           UNCHANGED <<frame, actions, balance, day, bar, daily, receivables>>,
           UNCHANGED <<cash, position, lots, pending, orders, fills>>,
           pending = 0 \/ Verdict = "waits"
    PROVE  BookInv'
<1>1. RunType /\ HoldingInv /\ PendingInv /\ DecidedInv /\ MarginInv /\ CashInv /\ RowsInv
  BY DEF BookInv
<1>2. /\ Events' = Events /\ Owed' = Owed /\ PaidEvents' = PaidEvents
      /\ day \in frame /\ day \in Nat \ {0} /\ frame \subseteq Nat \ {0}
      /\ \A d \in Nat : OpenDone(d) <=> d < day
      /\ \A d \in Nat : OpenDone(d)' <=> d <= day
  BY OpenOfDay
<1>3. RunType'
  BY <1>1 DEF RunType, OpenDone, CloseDone
<1>4. HoldingInv' /\ DecidedInv'
  BY <1>1 DEF HoldingInv, DecidedInv
<1>5. PendingInv'
  <2>1. CASE pending = 0
    BY <2>1 DEF PendingInv
  <2>2. CASE pending # 0
    <3>1. Target # NoDate /\ day < Target
      BY <2>2, VerdictIs
    <3>2. \A d \in frame : Order.signal < d /\ OpenDone(d)' => Target # NoDate /\ d < Target
      <4>1. ASSUME NEW d \in frame, OpenDone(d)'
            PROVE  d = day \/ OpenDone(d)
        <5>1. d \in Nat /\ day \in Nat
          BY <1>2
        <5>2. d <= day
          BY <1>2, <4>1, <5>1
        <5>3. d = day \/ d < day
          BY <5>1, <5>2
        <5> QED BY <1>2, <5>1, <5>3
      <4>2. \A d \in frame : OpenDone(d)' => d = day \/ OpenDone(d)
        BY <4>1
      <4> QED BY <1>1, <2>2, <3>1, <4>2 DEF PendingInv
    <3> QED BY <1>1, <3>2 DEF PendingInv, Order, Target
  <2> QED BY <2>1, <2>2
<1>6. CashInv' /\ RowsInv'
  BY <1>1, <1>2 DEF CashInv, RowsInv, InitialCash
<1>7. MarginInv'
  BY <1>1, MarginStays
<1> QED BY <1>3, <1>4, <1>5, <1>6, <1>7 DEF BookInv

\* A day on which the order is refused.
LEMMA RejectKeepsBook ==
    ASSUME BookInv, phase = "execute", phase' = "signal", pending # 0, Reject,
           UNCHANGED <<frame, actions, balance, day, bar, daily, receivables>>
    PROVE  BookInv'
<1> DEFINE o == Rejected(orders[pending], Verdict)
<1>1. RunType /\ HoldingInv /\ PendingInv /\ DecidedInv /\ MarginInv /\ CashInv /\ RowsInv
  BY DEF BookInv
<1>2. /\ Events' = Events /\ Owed' = Owed /\ PaidEvents' = PaidEvents
      /\ day \in frame /\ day \in Nat \ {0}
      /\ \A d \in Nat : OpenDone(d) <=> d < day
  BY OpenOfDay
<1>3. /\ Verdict \notin {"waits", "allowed"} /\ pending' = 0
      /\ orders' = [orders EXCEPT ![pending] = o]
      /\ UNCHANGED <<cash, position, lots, fills>>
  BY DEF Reject, book
<1>4. /\ Verdict \in Reasons
      /\ Verdict = "suspended_no_bar" <=> Target # NoDate /\ Target \notin frame
      /\ Verdict = "no_next_session_in_range" =>
            \/ Target = NoDate
            \/ Order.side = "buy" /\ NextSession(Target) = NoDate
      /\ Order.side = "sell" =>
            Verdict \notin {"insufficient_sellable_position", "invalid_lot_size"}
  BY <1>3, VerdictIs
<1>5. /\ pending \in DOMAIN orders /\ Order = orders[pending] /\ Order \in OrderType
      /\ Target = NextSession(Order.signal)
  BY LiveOrder
<1>6. /\ o \in OrderType /\ o.status = "rejected" /\ o.reason = Verdict
      /\ o.signal = Order.signal /\ o.side = Order.side
  <2> DEFINE v == Verdict
             n == IF day = NextSession(Order.signal) THEN 0 ELSE Order.size
  <2>1. o = [Order EXCEPT !.status = "rejected", !.reason = v, !.size = n]
    BY <1>5 DEF Rejected
  <2>2. v \in Reasons /\ n \in Nat
    BY <1>4, <1>5 DEF OrderType
  <2> HIDE DEF o, v, n
  <2>3. /\ o \in OrderType /\ o.status = "rejected" /\ o.reason = v
        /\ o.signal = Order.signal /\ o.side = Order.side
    BY <1>5, <2>1, <2>2 DEF OrderType
  <2> QED BY <2>3 DEF v
<1> HIDE DEF o
<1>7. /\ orders \in Seq(OrderType) /\ orders' \in Seq(OrderType) /\ DOMAIN orders' = DOMAIN orders
      /\ orders'[pending] = o
      /\ \A i \in DOMAIN orders : i # pending => orders'[i] = orders[i]
      /\ orders # <<>>
  <2>1. orders \in Seq(OrderType)
    BY <1>1 DEF RunType
  <2> QED BY <1>3, <1>5, <1>6, <2>1
<1>8. RunType'
  <2>1. pending' \in 0 .. Len(orders')
    BY <1>3, <1>7
  <2> QED BY <1>1, <1>3, <1>7, <2>1 DEF RunType, OpenDone, CloseDone
<1>9. HoldingInv' /\ PendingInv'
  BY <1>1, <1>3 DEF HoldingInv, PendingInv
<1>10. DecidedInv'
  <2>1. Executions(fills, pending) = {} /\ pending # 0
    BY <1>1 DEF PendingInv
  <2>2. DecidedWell(o, pending, fills, frame)
    BY <1>4, <1>5, <1>6, <2>1 DEF DecidedWell, Reasons
  <2>3. \A i \in DOMAIN orders' : DecidedWell(orders'[i], i, fills, frame)
    BY <1>1, <1>7, <2>2 DEF DecidedInv
  <2> QED BY <1>3, <2>3 DEF DecidedInv
<1>11. CashInv' /\ RowsInv'
  BY <1>1, <1>2, <1>3 DEF CashInv, RowsInv, InitialCash
<1>12. MarginInv'
  <2>1. \A i \in DOMAIN orders' : orders'[i].status = "margin" =>
            i \in DOMAIN orders /\ orders'[i] = orders[i]
    BY <1>6, <1>7
  <2> QED BY <1>1, <1>3, <2>1, MarginStays
<1> QED BY <1>8, <1>9, <1>10, <1>11, <1>12 DEF BookInv

\* A day on which the rules allow the order and the broker does not execute it: the
\* rules saw at most the rounded cash, the broker asks for no more than it has.
LEMMA MarginKeepsBook ==
    ASSUME BookInv, phase = "execute", phase' = "signal", pending # 0, Margin,
           UNCHANGED <<frame, actions, balance, day, bar, daily, receivables>>
    PROVE  BookInv'
<1> DEFINE size == TriedSize
           o == [orders[pending] EXCEPT !.status = "margin", !.size = size]
<1>1. RunType /\ HoldingInv /\ PendingInv /\ DecidedInv /\ MarginInv /\ CashInv /\ RowsInv
  BY DEF BookInv
<1>2. /\ Events' = Events /\ Owed' = Owed /\ PaidEvents' = PaidEvents
      /\ day \in frame /\ day \in Nat \ {0}
      /\ \A d \in Nat : OpenDone(d) <=> d < day
  BY OpenOfDay
<1>3. /\ Verdict = "allowed" /\ Order.side = "buy" /\ pending' = 0
      /\ 10 * Cost(day, bar.open, size) >= 10 * cash + Fraction
      /\ orders' = [orders EXCEPT ![pending] = o]
      /\ UNCHANGED <<cash, position, lots, fills>>
  BY DEF Margin, book
<1>4. /\ Target # NoDate /\ day = Target /\ size \in Nat /\ size > 0
      /\ ~MissingSchedule(Symbol, "buy", day)
      /\ ~(RoundedCash < Cost(day, bar.open, size))
  BY <1>3, VerdictIs
<1>5. /\ pending \in DOMAIN orders /\ Order = orders[pending] /\ Order \in OrderType
      /\ Target = NextSession(Order.signal) /\ bar \in Bars /\ bar.open \in Nat /\ cash \in Int
  BY LiveOrder
<1> HIDE DEF size
<1>6. Cost(day, bar.open, size) \in {cash, cash + 1}
  <2> DEFINE c == Cost(day, bar.open, size)
             extra == IF Fraction = 5 /\ ~below THEN 1 ELSE 0
  <2>1. c \in Nat
    <3>1. NotionalFen(bar.open, size) \in Nat
      BY <1>4, <1>5, NotionalIsNat
    <3>2. TotalFees(Symbol, "buy", day, bar.open, size) \in Nat
      BY <1>2, <1>4, <1>5, BuyFees, BacktestAssumption
    <3> QED BY <3>1, <3>2 DEF Cost
  <2>2. Fraction \in -4 .. 5
    BY <1>1, InitialCashIs
  <2>3. RoundedCash = cash + extra
    BY <1>5 DEF RoundedCash
  <2> HIDE DEF c
  <2>4. c <= cash + extra /\ 10 * c >= 10 * cash + Fraction
    <3>1. ~(RoundedCash < c) /\ 10 * c >= 10 * cash + Fraction
      BY <1>3, <1>4 DEF c
    <3> QED BY <1>5, <2>1, <2>3, <3>1
  <2>5. c = cash \/ c = cash + 1
    BY <1>5, <2>1, <2>2, <2>4
  <2> QED BY <2>5 DEF c
<1>7. /\ o \in OrderType /\ o.status = "margin" /\ o.reason = "none" /\ o.size = size
      /\ o.signal = Order.signal /\ o.side = "buy"
  <2>1. Order.reason = "none"
    BY <1>1 DEF PendingInv
  <2> QED BY <1>3, <1>4, <1>5, <2>1 DEF OrderType
<1> HIDE DEF o
<1>8. /\ orders \in Seq(OrderType) /\ orders' \in Seq(OrderType) /\ DOMAIN orders' = DOMAIN orders
      /\ orders'[pending] = o
      /\ \A i \in DOMAIN orders : i # pending => orders'[i] = orders[i]
      /\ orders # <<>>
  <2>1. orders \in Seq(OrderType)
    BY <1>1 DEF RunType
  <2> QED BY <1>3, <1>5, <1>7, <2>1
<1>9. RunType'
  <2>1. pending' \in 0 .. Len(orders')
    BY <1>3, <1>8
  <2> QED BY <1>1, <1>3, <1>8, <2>1 DEF RunType, OpenDone, CloseDone
<1>10. HoldingInv' /\ PendingInv'
  BY <1>1, <1>3 DEF HoldingInv, PendingInv
<1>11. DecidedInv'
  <2>1. Executions(fills, pending) = {} /\ pending # 0
    BY <1>1 DEF PendingInv
  <2>2. DecidedWell(o, pending, fills, frame)
    BY <1>2, <1>4, <1>5, <1>7, <2>1 DEF DecidedWell
  <2>3. \A i \in DOMAIN orders' : DecidedWell(orders'[i], i, fills, frame)
    BY <1>1, <1>8, <2>2 DEF DecidedInv
  <2> QED BY <1>3, <2>3 DEF DecidedInv
<1>12. CashInv' /\ RowsInv'
  BY <1>1, <1>2, <1>3 DEF CashInv, RowsInv, InitialCash
<1>13. MarginInv'
  <2>1. CostsAll(o, day, cash)
    BY <1>4, <1>5, <1>6, <1>7 DEF CostsAll
  <2>2. CostsItsDay(orders'[pending], daily', phase' = "signal", day', cash')
    BY <1>3, <1>8, <2>1 DEF CostsItsDay
  <2>3. \A i \in DOMAIN orders' : orders'[i].status = "margin" =>
            \/ i \in DOMAIN orders /\ orders'[i] = orders[i]
            \/ CostsItsDay(orders'[i], daily', phase' = "signal", day', cash')
    BY <1>8, <2>2
  <2> QED BY <1>1, <1>3, <2>3, MarginStays
<1> QED BY <1>9, <1>10, <1>11, <1>12, <1>13 DEF BookInv

\* A day on which the order is executed: what is recorded, and what is held after.
LEMMA FillIs ==
    ASSUME BookInv, phase = "execute", pending # 0, Fill
    PROVE  \E e \in FillType :
              /\ e.order = pending /\ e.date = day /\ e.size > 0
              /\ e.side = Order.side /\ e.size = TriedSize
              /\ fills' = Append(fills, e)
              /\ orders' = [orders EXCEPT ![pending].status = "completed",
                                          ![pending].size = e.size]
              /\ e.side = "buy" =>
                    /\ cash' = cash - e.value - e.fees /\ position' = position + e.size
                    /\ lots' = Append(lots, [remaining |-> e.size, acquired |-> day,
                                             available |-> NextSession(day)])
              /\ e.side = "sell" =>
                    /\ cash' = cash + e.value - e.fees /\ position' = position - e.size
                    /\ lots' = Sold(e.size) /\ e.size = position
<1> DEFINE size  == TriedSize
           fees  == TotalFees(Symbol, Order.side, day, bar.open, size)
           value == NotionalFen(bar.open, size)
           e == [order |-> pending, date |-> day, side |-> Order.side,
                 size |-> size, value |-> value, fees |-> fees]
<1>1. /\ Verdict = "allowed" /\ fills' = Append(fills, e)
      /\ orders' = [orders EXCEPT ![pending].status = "completed", ![pending].size = size]
      /\ IF Order.side = "buy"
         THEN /\ cash' = cash - value - fees
              /\ position' = position + size
              /\ lots' = Append(lots, [remaining |-> size, acquired |-> day,
                                       available |-> NextSession(day)])
         ELSE /\ cash' = cash + value - fees
              /\ position' = position - size
              /\ lots' = Sold(size)
  BY DEF Fill
<1>2. /\ day = Target /\ size \in Nat /\ size > 0 /\ ~MissingSchedule(Symbol, Order.side, day)
  BY <1>1, VerdictIs
<1>3. /\ Order.side \in {"buy", "sell"} /\ day \in Nat /\ bar.open \in Nat
      /\ pending \in DOMAIN orders
  BY LiveOrder
<1>4. pending \in Nat
  <2>1. orders \in Seq(OrderType)
    BY DEF BookInv, RunType
  <2> QED BY <1>3, <2>1
<1>5. Order.side = "sell" => size = position
  BY TriedSizeIs
<1> HIDE DEF size
<1>6. value \in Nat
  BY <1>2, <1>3, NotionalIsNat
<1>7. fees \in Nat
  <2>1. Symbol \in Symbols
    BY BacktestAssumption
  <2>2. TotalFees(Symbol, Order.side, day, bar.open, size) \in Nat
    BY <1>2, <1>3, <2>1, FeesAreNat
  <2> QED BY <2>2
<1> HIDE DEF value, fees
<1>8. /\ e \in FillType /\ e.order = pending /\ e.date = day /\ e.size = size
      /\ e.side = Order.side /\ e.value = value /\ e.fees = fees
  BY <1>2, <1>3, <1>4, <1>6, <1>7 DEF FillType
<1> HIDE DEF e
<1>9. /\ e.side = "buy" =>
            /\ cash' = cash - e.value - e.fees /\ position' = position + e.size
            /\ lots' = Append(lots, [remaining |-> e.size, acquired |-> day,
                                     available |-> NextSession(day)])
      /\ e.side = "sell" =>
            /\ cash' = cash + e.value - e.fees /\ position' = position - e.size
            /\ lots' = Sold(e.size) /\ e.size = position
  BY <1>1, <1>5, <1>8
<1>10. e.size > 0 /\ e.size = TriedSize
  BY <1>2, <1>8 DEF size
<1>11. orders' = [orders EXCEPT ![pending].status = "completed", ![pending].size = e.size]
  BY <1>1, <1>8
<1> QED BY <1>1, <1>8, <1>9, <1>10, <1>11

LEMMA FillKeepsBook ==
    ASSUME BookInv, phase = "execute", phase' = "signal", pending # 0, Fill,
           UNCHANGED <<frame, actions, balance, day, bar, daily, receivables>>
    PROVE  BookInv'
<1>1. RunType /\ HoldingInv /\ PendingInv /\ DecidedInv /\ MarginInv /\ CashInv /\ RowsInv
  BY DEF BookInv
<1>2. /\ Events' = Events /\ Owed' = Owed /\ PaidEvents' = PaidEvents
      /\ day \in frame /\ day \in Nat \ {0}
      /\ \A d \in Nat : OpenDone(d)' <=> d <= day
      /\ \A k \in DOMAIN fills : fills[k].date < day
      /\ \A i \in DOMAIN daily : daily[i].date < day
  BY OpenOfDay
<1>3. PICK e \in FillType :
         /\ e.order = pending /\ e.date = day /\ e.size > 0
         /\ e.side = Order.side /\ e.size = TriedSize
         /\ fills' = Append(fills, e)
         /\ orders' = [orders EXCEPT ![pending].status = "completed", ![pending].size = e.size]
         /\ e.side = "buy" =>
               /\ cash' = cash - e.value - e.fees /\ position' = position + e.size
               /\ lots' = Append(lots, [remaining |-> e.size, acquired |-> day,
                                        available |-> NextSession(day)])
         /\ e.side = "sell" =>
               /\ cash' = cash + e.value - e.fees /\ position' = position - e.size
               /\ lots' = Sold(e.size) /\ e.size = position
  BY FillIs
<1>4. Verdict = "allowed" /\ pending' = 0
  BY DEF Fill
<1>5. Target # NoDate /\ day = Target
  BY <1>4, VerdictIs
<1>6. /\ pending \in DOMAIN orders /\ Order = orders[pending] /\ Order \in OrderType
      /\ Order.side \in {"buy", "sell"} /\ Order.signal \in Nat
      /\ Target = NextSession(Order.signal) /\ Order.signal < Target
      /\ Order.side = "sell" => position > 0 /\ lots[Len(lots)].available <= day
  BY <1>2, <1>5, LiveOrder
<1>7. /\ Order.reason = "none" /\ Executions(fills, pending) = {}
      /\ Order.side = "buy" => position = 0
      /\ \A k \in DOMAIN fills : fills[k].date <= Order.signal
  BY <1>1 DEF PendingInv
<1>8. /\ e.side \in {"buy", "sell"} /\ e.size \in Nat \ {0} /\ e.value \in Nat /\ e.fees \in Nat
      /\ e.date \in Nat /\ e.order \in Nat
  BY <1>3 DEF FillType
<1>9. /\ fills \in Seq(FillType) /\ orders \in Seq(OrderType) /\ lots \in Seq(LotType)
      /\ cash \in Int /\ position \in Nat
  BY <1>1 DEF RunType
<1> DEFINE n == Len(fills) + 1
<1>10. /\ fills' \in Seq(FillType) /\ Len(fills') = n /\ DOMAIN fills = 1 .. Len(fills)
       /\ Len(fills) \in Nat /\ n \notin DOMAIN fills
       /\ DOMAIN fills' = DOMAIN fills \cup {n} /\ fills'[n] = e
       /\ \A k \in DOMAIN fills : fills'[k] = fills[k]
  BY <1>3, <1>9
<1> DEFINE o == [orders[pending] EXCEPT !.status = "completed", !.size = e.size]
<1>11. o \in OrderType /\ o.status = "completed" /\ o.size = e.size /\ o.reason = "none"
       /\ o.signal = Order.signal /\ o.side = Order.side
  BY <1>6, <1>7, <1>8 DEF OrderType
<1>12. orders' = [orders EXCEPT ![pending] = o]
  BY <1>3
<1> HIDE DEF o, n
<1>13. /\ orders' \in Seq(OrderType) /\ DOMAIN orders' = DOMAIN orders /\ orders'[pending] = o
       /\ \A i \in DOMAIN orders : i # pending => orders'[i] = orders[i]
       /\ orders' # <<>> /\ orders # <<>>
  BY <1>6, <1>9, <1>11, <1>12
<1>14. NextSession(day) \in Nat /\ \A k \in DOMAIN fills : NextSession(fills[k].date) <= day
  <2>1. NextSession(day) \in Nat
    BY <1>2, NextSessionNat
  <2>2. ASSUME NEW k \in DOMAIN fills
        PROVE  NextSession(fills[k].date) <= day
    <3>1. fills[k].date \in Nat /\ fills[k].date <= Order.signal
      BY <1>1, <1>7, RecordsAre
    <3>2. CASE NextSession(fills[k].date) = NoDate
      BY <1>2, <3>2 DEF NoDate
    <3>3. CASE NextSession(fills[k].date) # NoDate
      <4>1. \A s \in Calendar : fills[k].date < s => NextSession(fills[k].date) <= s
        BY <3>1, <3>3, NextSessionIs
      <4>2. day \in Calendar /\ Order.signal < day
        BY <1>5, <1>6, NextSessionIs
      <4>3. fills[k].date < day
        BY <1>2, <1>6, <3>1, <4>2
      <4> QED BY <4>1, <4>2, <4>3
    <3> QED BY <3>2, <3>3
  <2> QED BY <2>1, <2>2
<1>15. /\ e.side = "buy" =>
             /\ position' = e.size /\ lots' \in Seq(LotType) /\ lots' # <<>>
             /\ \A i \in DOMAIN lots' \ {Len(lots')} : lots'[i].remaining = 0
             /\ lots'[Len(lots')].remaining = position'
             /\ lots'[Len(lots')].available = NextSession(day)
       /\ e.side = "sell" =>
             /\ position' = 0 /\ lots' \in Seq(LotType)
             /\ \A i \in DOMAIN lots' : lots'[i].remaining = 0
  <2>1. ASSUME e.side = "buy"
        PROVE  /\ position' = e.size /\ lots' \in Seq(LotType) /\ lots' # <<>>
               /\ \A i \in DOMAIN lots' \ {Len(lots')} : lots'[i].remaining = 0
               /\ lots'[Len(lots')].remaining = position'
               /\ lots'[Len(lots')].available = NextSession(day)
    <3> DEFINE x == [remaining |-> e.size, acquired |-> day, available |-> NextSession(day)]
    <3>1. position = 0 /\ position' = e.size /\ lots' = Append(lots, x)
      BY <1>3, <1>7, <1>8, <2>1
    <3>2. x \in LotType /\ x.remaining = e.size /\ x.available = NextSession(day)
      BY <1>2, <1>8, <1>14 DEF LotType
    <3>3. \A i \in DOMAIN lots : lots[i].remaining = 0
      BY <1>1, <3>1 DEF HoldingInv
    <3> HIDE DEF x
    <3>4. /\ lots' \in Seq(LotType) /\ Len(lots') = Len(lots) + 1 /\ lots' # <<>>
          /\ DOMAIN lots = 1 .. Len(lots) /\ DOMAIN lots' = 1 .. Len(lots) + 1 /\ Len(lots) \in Nat
          /\ lots'[Len(lots) + 1] = x /\ \A i \in DOMAIN lots : lots'[i] = lots[i]
      BY <1>9, <3>1, <3>2
    <3>5. \A i \in DOMAIN lots' \ {Len(lots')} : lots'[i].remaining = 0
      BY <3>3, <3>4
    <3> QED BY <3>1, <3>2, <3>4, <3>5
  <2>2. ASSUME e.side = "sell"
        PROVE  /\ position' = 0 /\ lots' \in Seq(LotType)
               /\ \A i \in DOMAIN lots' : lots'[i].remaining = 0
    <3>1. e.size = position /\ lots' = Sold(position) /\ position' = position - position
      BY <1>3, <2>2
    <3>2. /\ Sold(position) \in Seq(LotType)
          /\ \A i \in DOMAIN Sold(position) : Sold(position)[i].remaining = 0
      BY <1>1, <1>2, <1>3, <1>6, <2>2, SellEmpties
    <3> QED BY <1>9, <3>1, <3>2
  <2> QED BY <2>1, <2>2
<1>16. RunType'
  <2>1. cash' \in Int /\ position' \in Nat /\ lots' \in Seq(LotType)
    <3>1. CASE e.side = "buy"
      <4>1. cash' = cash - e.value - e.fees /\ position' = e.size /\ lots' \in Seq(LotType)
        BY <1>3, <1>15, <3>1
      <4> QED BY <1>8, <1>9, <4>1
    <3>2. CASE e.side = "sell"
      <4>1. cash' = cash + e.value - e.fees /\ position' = 0 /\ lots' \in Seq(LotType)
        BY <1>3, <1>15, <3>2
      <4> QED BY <1>8, <1>9, <4>1
    <3> QED BY <1>8, <3>1, <3>2
  <2>2. pending' \in 0 .. Len(orders')
    BY <1>4, <1>13
  <2>3. \A k \in DOMAIN fills' : fills'[k].order \in DOMAIN orders /\ fills'[k].date <= day
    <3>1. \A k \in DOMAIN fills : fills[k].order \in DOMAIN orders /\ fills[k].date \in Nat
      BY <1>1, RecordsAre DEF RunType
    <3>2. \A k \in DOMAIN fills : fills[k].date <= day
      BY <1>2, <3>1
    <3> QED BY <1>2, <1>3, <1>6, <1>10, <3>1, <3>2
  <2>4. \A k \in DOMAIN fills' : fills'[k].date < day \/ fills'[k].date = day
    <3>1. \A k \in DOMAIN fills' : fills'[k].date \in Nat
      BY <1>1, <1>8, <1>10, RecordsAre
    <3> QED BY <1>2, <2>3, <3>1
  <2>5. daily # <<>>
    BY <1>1, <1>13 DEF RunType
  <2> QED BY <1>1, <1>2, <1>10, <1>13, <2>1, <2>2, <2>3, <2>4, <2>5 DEF RunType, OpenDone, CloseDone
<1>17. HoldingInv'
  <2>1. \A k \in DOMAIN fills' : fills'[k].side = "buy" =>
            \/ NextSession(fills'[k].date) <= day
            \/ k = Len(fills') /\ position' > 0
    BY <1>3, <1>8, <1>10, <1>14, <1>15
  <2>2. position' = 0 => \A i \in DOMAIN lots' : lots'[i].remaining = 0
    BY <1>8, <1>15
  <2>3. position' > 0 =>
           /\ fills' # <<>> /\ lots' # <<>>
           /\ \A i \in DOMAIN lots' \ {Len(lots')} : lots'[i].remaining = 0
           /\ fills'[Len(fills')].side = "buy" /\ fills'[Len(fills')].size = position'
           /\ lots'[Len(lots')].remaining = position'
           /\ lots'[Len(lots')].available = NextSession(fills'[Len(fills')].date)
    <3> SUFFICES ASSUME position' > 0
                 PROVE  /\ fills' # <<>> /\ lots' # <<>>
                        /\ \A i \in DOMAIN lots' \ {Len(lots')} : lots'[i].remaining = 0
                        /\ fills'[Len(fills')].side = "buy" /\ fills'[Len(fills')].size = position'
                        /\ lots'[Len(lots')].remaining = position'
                        /\ lots'[Len(lots')].available = NextSession(fills'[Len(fills')].date)
      OBVIOUS
    <3>1. e.side = "buy"
      BY <1>8, <1>15
    <3>2. fills' # <<>> /\ fills'[Len(fills')] = e
      BY <1>10
    <3> QED BY <1>3, <1>15, <3>1, <3>2
  <2> QED BY <2>1, <2>2, <2>3 DEF HoldingInv
<1>18. PendingInv'
  BY <1>4 DEF PendingInv
<1>19. DecidedInv'
  <2>1. Executions(fills', pending) = {n}
    BY <1>3, <1>7, <1>10 DEF Executions
  <2>2. \A i \in DOMAIN orders : i # pending => Executions(fills', i) = Executions(fills, i)
    BY <1>3, <1>10 DEF Executions
  <2>3. DecidedWell(o, pending, fills', frame)
    <3>1. fills'[n].date = NextSession(o.signal) /\ NextSession(o.signal) \in frame
          /\ fills'[n].size = o.size /\ o.size > 0 /\ NextSession(o.signal) # NoDate
      BY <1>2, <1>3, <1>5, <1>6, <1>10, <1>11
    <3> QED BY <1>11, <2>1, <3>1 DEF DecidedWell
  <2>4. ASSUME NEW i \in DOMAIN orders, i # pending
        PROVE  DecidedWell(orders[i], i, fills', frame)
    <3>1. DecidedWell(orders[i], i, fills, frame)
      BY <1>1, <2>4 DEF DecidedInv
    <3>2. Executions(fills', i) = Executions(fills, i)
      BY <2>2, <2>4
    <3>3. \A k \in Executions(fills, i) : fills'[k] = fills[k]
      BY <1>10 DEF Executions
    <3> QED BY <3>1, <3>2, <3>3 DEF DecidedWell
  <2>5. \A i \in DOMAIN orders' : DecidedWell(orders'[i], i, fills', frame)
    BY <1>13, <2>3, <2>4
  <2> QED BY <2>5 DEF DecidedInv
<1>20. CashInv'
  <2> DEFINE p == ProceedsOf(fills, DOMAIN fills)
             c == SpentOf(fills, DOMAIN fills)
             f == FeesOf(fills, DOMAIN fills)
             q == EarnedOn(daily, PaidEvents)
             t == fills'
  <2>1. /\ ProceedsOf(t, DOMAIN t) = p + (IF e.side = "sell" THEN e.value ELSE 0)
        /\ SpentOf(t, DOMAIN t) = c + (IF e.side = "buy" THEN e.value ELSE 0)
        /\ FeesOf(t, DOMAIN t) = f + e.fees
        /\ p \in Nat /\ c \in Nat /\ f \in Nat
    BY <1>3, <1>9, FillGrows
  <2>2. cash = InitialCash + p - (c + f) + q
    BY <1>1 DEF CashInv
  <2>3. q \in Nat
    <3>1. PaidEvents \subseteq Events
      BY DEF PaidEvents
    <3>2. PaidEvents \subseteq EventType /\ IsFiniteSet(PaidEvents)
      BY <1>1, <3>1, EventsAre, FS_Subset
    <3>3. daily \in Seq(DayType)
      BY <1>1 DEF RunType
    <3> QED BY <3>2, <3>3, EarnedCounts
  <2>4. InitialCash \in Nat /\ InitialCash' = InitialCash
    BY <1>1, InitialCashIs DEF InitialCash
  <2> HIDE DEF p, c, f, q, t
  <2>5. cash' = InitialCash + ProceedsOf(t, DOMAIN t)
                - (SpentOf(t, DOMAIN t) + FeesOf(t, DOMAIN t)) + q
    <3>1. CASE e.side = "buy"
      <4>1. cash' = cash - e.value - e.fees
        BY <1>3, <3>1
      <4>2. ProceedsOf(t, DOMAIN t) = p /\ SpentOf(t, DOMAIN t) = c + e.value
        BY <2>1, <3>1
      <4> QED BY <1>8, <2>1, <2>2, <2>3, <2>4, <4>1, <4>2
    <3>2. CASE e.side = "sell"
      <4>1. cash' = cash + e.value - e.fees
        BY <1>3, <3>2
      <4>2. ProceedsOf(t, DOMAIN t) = p + e.value /\ SpentOf(t, DOMAIN t) = c
        BY <2>1, <3>2
      <4> QED BY <1>8, <2>1, <2>2, <2>3, <2>4, <4>1, <4>2
    <3> QED BY <1>8, <3>1, <3>2
  <2> QED BY <1>1, <1>2, <2>4, <2>5 DEF CashInv, q, t
<1>21. RowsInv'
  <2>1. ASSUME NEW i \in DOMAIN daily
        PROVE  RowFollows(InitialCash, fills', daily, Events, daily[i])
    <3>1. RowFollows(InitialCash, fills, daily, Events, daily[i])
      BY <1>1 DEF RowsInv
    <3>2. daily[i].date < day /\ daily[i].date \in Nat
      BY <1>1, <1>2, RecordsAre
    <3>3. \A k \in DOMAIN fills' \ DOMAIN fills : ~(fills'[k].date <= daily[i].date)
      BY <1>2, <1>3, <1>10, <3>2
    <3> QED BY <1>10, <3>1, <3>3, RowStays
  <2>2. InitialCash' = InitialCash
    BY DEF InitialCash
  <2> QED BY <1>2, <2>1, <2>2 DEF RowsInv
<1>22. MarginInv'
  <2>1. \A i \in DOMAIN orders' : orders'[i].status = "margin" =>
            i \in DOMAIN orders /\ orders'[i] = orders[i]
    BY <1>11, <1>13
  <2> QED BY <1>1, <2>1, MarginStays
<1> QED BY <1>16, <1>17, <1>18, <1>19, <1>20, <1>21, <1>22 DEF BookInv

LEMMA ExecuteKeepsBook ==
    ASSUME BookInv, Execute
    PROVE  BookInv'
<1>1. /\ phase = "execute" /\ phase' = "signal"
      /\ UNCHANGED <<frame, actions, balance, day, bar, daily, receivables>>
  BY DEF Execute, Given
<1>2. CASE /\ pending = 0 \/ Verdict = "waits"
           /\ UNCHANGED <<cash, position, lots, pending, orders, fills>>
  BY <1>1, <1>2, QuietDayKeepsBook
<1>3. CASE pending # 0 /\ Reject
  BY <1>1, <1>3, RejectKeepsBook
<1>4. CASE pending # 0 /\ Fill
  BY <1>1, <1>4, FillKeepsBook
<1>5. CASE pending # 0 /\ Margin
  BY <1>1, <1>5, MarginKeepsBook
<1> QED BY <1>2, <1>3, <1>4, <1>5 DEF Execute, book

-----------------------------------------------------------------------------
(* The close of a day *)

\* The order the strategy submits, if any.
LEMMA SignalIs ==
    ASSUME BookInv, Signal
    PROVE  /\ phase = "signal" /\ phase' = "bar" /\ day \in frame /\ day \in Nat \ {0}
           /\ daily' = Append(daily, [date |-> day, size |-> position,
                                      available |-> SellableSize(lots, day),
                                      cash |-> cash, receivable |-> Receivable])
           /\ UNCHANGED <<frame, actions, balance, day, bar, cash, position, lots, receivables, fills>>
           /\ \/ UNCHANGED <<orders, pending>>
              \/ \E o \in OrderType :
                    /\ pending = 0 /\ orders' = Append(orders, o) /\ pending' = Len(orders) + 1
                    /\ o.signal = day /\ o.status = "accepted" /\ o.reason = "none"
                    /\ o.side = "buy" => position = 0
                    /\ o.side = "sell" => o.size = position /\ position > 0
<1>1. /\ phase = "signal"
      /\ daily' = Append(daily, [date |-> day, size |-> position,
                                 available |-> SellableSize(lots, day),
                                 cash |-> cash, receivable |-> Receivable])
      /\ phase' = IF SizeOf(lots, DOMAIN lots) = position THEN "bar" ELSE "failed"
      /\ UNCHANGED <<frame, actions, balance, day, bar, cash, position, lots, receivables, fills>>
  BY DEF Signal, RecordDay, Given, book
<1>2. RunType /\ HoldingInv /\ PendingInv
  BY DEF BookInv
<1>3. day \in frame /\ day \in Nat \ {0} /\ position \in Nat /\ orders \in Seq(OrderType)
  BY <1>1, <1>2, EventsAre DEF RunType
<1>4. phase' = "bar"
  BY <1>1, <1>2, <1>3, HeldShares
<1>5. CASE UNCHANGED <<orders, pending>>
  BY <1>1, <1>3, <1>4, <1>5
<1>6. ASSUME NEW side \in Signals, side # "none", Submit(side)
      PROVE  \E o \in OrderType :
                /\ pending = 0 /\ orders' = Append(orders, o) /\ pending' = Len(orders) + 1
                /\ o.signal = day /\ o.status = "accepted" /\ o.reason = "none"
                /\ o.side = "buy" => position = 0
                /\ o.side = "sell" => o.size = position /\ position > 0
  <2> DEFINE o == [signal |-> day, side |-> side,
                   size |-> IF side = "sell" THEN position ELSE 0,
                   status |-> "accepted", reason |-> "none"]
  <2>1. orders' = Append(orders, o) /\ pending' = Len(orders')
    BY <1>6 DEF Submit
  <2>2. /\ side = "buy" => position = 0
        /\ side = "sell" => position # 0
        /\ side \in {"buy", "sell"}
        /\ daily = <<>> \/ pending = 0
    BY <1>6 DEF Signals
  <2>3. pending = 0
    <3>1. daily = <<>> => orders = <<>>
      BY <1>2 DEF RunType
    <3>2. pending \in 0 .. Len(orders)
      BY <1>2 DEF RunType
    <3>3. orders = <<>> => pending = 0
      BY <3>2
    <3> QED BY <2>2, <3>1, <3>3
  <2>4. /\ o \in OrderType /\ o.signal = day /\ o.status = "accepted" /\ o.reason = "none"
        /\ o.side = side /\ (side = "sell" => o.size = position)
    BY <1>3, <2>2 DEF OrderType
  <2> HIDE DEF o
  <2>5. pending' = Len(orders) + 1
    BY <1>3, <2>1, <2>4
  <2>6. /\ o.side = "buy" => position = 0
        /\ o.side = "sell" => o.size = position /\ position > 0
    BY <1>3, <2>2, <2>4
  <2> QED BY <2>1, <2>3, <2>4, <2>5, <2>6
<1>7. \/ UNCHANGED <<orders, pending>>
      \/ \E side \in Signals : side # "none" /\ Submit(side)
  BY DEF Signal
<1>8. CASE \E side \in Signals : side # "none" /\ Submit(side)
  <2>1. \E o \in OrderType :
           /\ pending = 0 /\ orders' = Append(orders, o) /\ pending' = Len(orders) + 1
           /\ o.signal = day /\ o.status = "accepted" /\ o.reason = "none"
           /\ o.side = "buy" => position = 0
           /\ o.side = "sell" => o.size = position /\ position > 0
    BY <1>6, <1>8
  <2> QED BY <1>1, <1>3, <1>4, <2>1
<1> QED BY <1>5, <1>7, <1>8

\* The shares that cannot be sold on a day are those bought since the last session.
LEMMA NewShares ==
    ASSUME RunType, HoldingInv, day \in Nat, NEW row, row.date = day,
           \A k \in DOMAIN fills : fills[k].date <= day
    PROVE  position - SellableSize(lots, day) = BoughtOf(fills, NewOn(fills, row))
<1> DEFINE N == NewOn(fills, row)
           f == [k \in N |-> fills[k].size]
           n == Len(fills)
<1>1. N = {k \in DOMAIN fills : fills[k].side = "buy" /\ NextSession(fills[k].date) > day}
  BY DEF NewOn
<1>2. \A k \in DOMAIN fills : NextSession(fills[k].date) \in Nat /\ fills[k].size \in Nat
  BY RecordsAre, NextSessionNat
<1>3. SellableSize(lots, day) =
         IF position > 0 /\ lots[Len(lots)].available <= day THEN position ELSE 0
  BY HeldShares
<1>4. position \in Nat /\ fills \in Seq(FillType)
  BY DEF RunType
<1>5. \A k \in N : k = n /\ position > 0
  BY <1>1, <1>2 DEF HoldingInv
<1>6. BoughtOf(fills, N) = SumFunction(f)
  BY DEF BoughtOf
<1>7. CASE N = {}
  <2>1. SumFunction(f) = 0
    <3>1. IsFiniteSet(DOMAIN f) /\ \A k \in DOMAIN f : f[k] = 0
      BY <1>7, FS_EmptySet
    <3> HIDE DEF f
    <3> QED BY <3>1, SumOfZeros
  <2>2. CASE position = 0
    BY <1>3, <1>6, <2>1, <2>2
  <2>3. CASE position # 0
    <3>1. /\ position > 0 /\ fills # <<>> /\ fills[n].side = "buy"
          /\ lots[Len(lots)].available = NextSession(fills[n].date)
      BY <1>4, <2>3 DEF HoldingInv
    <3>2. n \in DOMAIN fills
      BY <1>4, <3>1
    <3>3. ~(NextSession(fills[n].date) > day)
      BY <1>1, <1>7, <3>1, <3>2
    <3>4. NextSession(fills[n].date) <= day
      BY <1>2, <3>2, <3>3
    <3>5. SellableSize(lots, day) = position
      BY <1>3, <3>1, <3>4
    <3> HIDE DEF f, N
    <3> QED BY <1>4, <1>6, <2>1, <3>5 DEF N
  <2> QED BY <2>2, <2>3
<1>8. CASE N # {}
  <2>1. N = {n} /\ position > 0
    BY <1>5, <1>8
  <2>2. n \in DOMAIN fills /\ NextSession(fills[n].date) > day
    BY <1>1, <2>1
  <2>3. /\ fills[n].size = position
        /\ lots[Len(lots)].available = NextSession(fills[n].date)
    BY <2>1 DEF HoldingInv
  <2>4. SellableSize(lots, day) = 0
    BY <1>2, <1>3, <2>2, <2>3
  <2>5. SumFunction(f) = position
    <3> DEFINE g == [k \in {} |-> 0]
    <3>1. /\ DOMAIN f = {n} /\ f[n] = position /\ DOMAIN g = DOMAIN f \ {n}
          /\ \A k \in DOMAIN g : g[k] = f[k]
      BY <2>1, <2>3
    <3>2. IsFiniteSet({n})
      BY FS_Singleton
    <3> HIDE DEF f, g
    <3>3. Counts(f)
      BY <1>4, <3>1, <3>2 DEF Counts
    <3>4. SumFunction(f) = f[n] + SumFunction(g)
      BY <3>1, <3>3, SumOfMore, ZenonT(60)
    <3>5. SumFunction(g) = 0
      BY SumOfNothing DEF g
    <3> QED BY <1>4, <3>1, <3>4, <3>5
  <2> HIDE DEF f, N
  <2> QED BY <1>4, <1>6, <2>4, <2>5 DEF N
<1> QED BY <1>7, <1>8

LEMMA SignalKeepsBook ==
    ASSUME BookInv, Signal
    PROVE  BookInv'
<1> DEFINE row == [date |-> day, size |-> position,
                   available |-> SellableSize(lots, day),
                   cash |-> cash, receivable |-> Receivable]
           n == Len(daily) + 1
<1>1. /\ phase = "signal" /\ phase' = "bar" /\ day \in frame /\ day \in Nat \ {0}
      /\ daily' = Append(daily, row)
      /\ UNCHANGED <<frame, actions, balance, day, bar, cash, position, lots, receivables, fills>>
  BY SignalIs
<1>2. \/ UNCHANGED <<orders, pending>>
      \/ \E o \in OrderType :
            /\ pending = 0 /\ orders' = Append(orders, o) /\ pending' = Len(orders) + 1
            /\ o.signal = day /\ o.status = "accepted" /\ o.reason = "none"
            /\ o.side = "buy" => position = 0
            /\ o.side = "sell" => o.size = position /\ position > 0
  BY SignalIs
<1>3. RunType /\ HoldingInv /\ PendingInv /\ DecidedInv /\ MarginInv /\ CashInv /\ RowsInv
  BY DEF BookInv
<1>4. /\ fills \in Seq(FillType) /\ orders \in Seq(OrderType) /\ daily \in Seq(DayType)
      /\ cash \in Int /\ position \in Nat /\ pending \in 0 .. Len(orders)
  BY <1>3 DEF RunType
<1>5. /\ \A d \in Nat : ActionsDone(d) <=> d <= day
      /\ \A d \in Nat : ActionsDone(d)' <=> d <= day
      /\ \A d \in Nat : OpenDone(d) <=> d <= day
      /\ \A d \in Nat : OpenDone(d)' <=> d <= day
      /\ \A d \in Nat : CloseDone(d) <=> d < day
      /\ \A d \in Nat : CloseDone(d)' <=> d <= day
  BY <1>1 DEF ActionsDone, OpenDone, CloseDone
<1>6. /\ \A k \in DOMAIN fills : fills[k].date \in Nat /\ fills[k].date <= day
      /\ \A i \in DOMAIN daily : daily[i].date \in Nat /\ daily[i].date < day
  BY <1>3, <1>5, RecordsAre DEF RunType
<1>7. Events' = Events /\ Owed' = Owed /\ PaidEvents' = PaidEvents
      /\ \A e \in Events : e.ex \in Nat /\ e.payable \in Nat /\ e.ex <= e.payable
  <2>1. Events' = Events
    BY <1>1 DEF Events
  <2>2. \A e \in Events : e.ex \in Nat /\ e.payable \in Nat /\ e.ex <= e.payable
    <3>1. \A e \in EventType : e.ex \in Nat /\ e.payable \in Nat
      BY DEF EventType
    <3> QED BY <1>3, <3>1, EventsAre
  <2> QED BY <1>5, <2>1, <2>2 DEF Owed, PaidEvents
<1>8. /\ Owed \subseteq Events /\ PaidEvents \subseteq Events
      /\ Owed \subseteq EventType /\ IsFiniteSet(Owed)
      /\ PaidEvents \subseteq EventType /\ IsFiniteSet(PaidEvents)
  <2>1. Owed \subseteq Events /\ PaidEvents \subseteq Events
    BY DEF Owed, PaidEvents
  <2> QED BY <1>3, <2>1, EventsAre, FS_Subset
<1>9. Receivable = EarnedOn(daily, Owed) /\ Receivable \in Nat
  <2>1. receivables = Receipts(daily, Owed)
    BY <1>3 DEF CashInv
  <2> QED BY <1>4, <1>8, <2>1, ReceiptsAddUp DEF Receivable
<1>10. row \in DayType /\ row.date = day /\ row.size = position
       /\ row.available = SellableSize(lots, day) /\ row.cash = cash
       /\ row.receivable = Receivable
  <2>1. SellableSize(lots, day) \in Int
    <3>1. SellableSize(lots, day) =
             IF position > 0 /\ lots[Len(lots)].available <= day THEN position ELSE 0
      BY <1>1, <1>3, HeldShares
    <3> HIDE DEF row
    <3> QED BY <1>4, <3>1
  <2> QED BY <1>1, <1>4, <1>9, <2>1 DEF DayType
<1> HIDE DEF row, n
<1>11. /\ daily' \in Seq(DayType) /\ DOMAIN daily = 1 .. Len(daily) /\ Len(daily) \in Nat
       /\ n \notin DOMAIN daily /\ DOMAIN daily' = DOMAIN daily \cup {n} /\ daily'[n] = row
       /\ Len(daily') = n /\ daily' # <<>> /\ \A i \in DOMAIN daily : daily'[i] = daily[i]
  BY <1>1, <1>4, <1>10 DEF n
<1>12. \A e \in Events : e.ex <= day => HeldIn(daily', e.ex) = HeldIn(daily, e.ex)
  BY <1>1, <1>4, <1>7, <1>10, HeldStays
<1>13. RunType'
  <2>1. /\ orders' \in Seq(OrderType) /\ pending' \in 0 .. Len(orders')
        /\ DOMAIN orders \subseteq DOMAIN orders'
    <3>1. CASE UNCHANGED <<orders, pending>>
      BY <1>4, <3>1
    <3>2. CASE \E o \in OrderType : orders' = Append(orders, o) /\ pending' = Len(orders) + 1
      BY <1>4, <3>2
    <3> QED BY <1>2, <3>1, <3>2
  <2>2. \A k \in DOMAIN fills : fills[k].order \in DOMAIN orders' /\ (fills[k].date < day \/ fills[k].date = day)
    <3>1. \A k \in DOMAIN fills : fills[k].order \in DOMAIN orders
      BY <1>3 DEF RunType
    <3> QED BY <1>1, <1>6, <2>1, <3>1
  <2>3. \A i \in DOMAIN daily' : daily'[i].date < day \/ daily'[i].date = day
    BY <1>6, <1>10, <1>11
  <2> QED BY <1>1, <1>3, <1>11, <2>1, <2>2, <2>3 DEF RunType, OpenDone, CloseDone
<1>14. HoldingInv'
  <2>1. daily'[Len(daily')].size = position
    BY <1>10, <1>11
  <2> QED BY <1>1, <1>3, <2>1 DEF HoldingInv
<1>15. PendingInv' /\ DecidedInv'
  <2>1. CASE UNCHANGED <<orders, pending>>
    <3>1. \A d \in frame : OpenDone(d)' => OpenDone(d)
      BY <1>3, <1>5, EventsAre
    <3>2. PendingInv'
      BY <1>1, <1>3, <2>1, <3>1 DEF PendingInv, Order, Target
    <3>3. DecidedInv'
      BY <1>1, <1>3, <2>1 DEF DecidedInv
    <3> QED BY <3>2, <3>3
  <2>2. CASE \E o \in OrderType :
                /\ pending = 0 /\ orders' = Append(orders, o) /\ pending' = Len(orders) + 1
                /\ o.signal = day /\ o.status = "accepted" /\ o.reason = "none"
                /\ o.side = "buy" => position = 0
                /\ o.side = "sell" => o.size = position /\ position > 0
    <3>1. PICK o \in OrderType :
             /\ pending = 0 /\ orders' = Append(orders, o) /\ pending' = Len(orders) + 1
             /\ o.signal = day /\ o.status = "accepted" /\ o.reason = "none"
             /\ o.side = "buy" => position = 0
             /\ o.side = "sell" => o.size = position /\ position > 0
      BY <2>2
    <3>2. /\ DOMAIN orders = 1 .. Len(orders) /\ Len(orders) \in Nat
          /\ DOMAIN orders' = DOMAIN orders \cup {pending'} /\ orders'[pending'] = o
          /\ pending' \notin DOMAIN orders
          /\ \A i \in DOMAIN orders : orders'[i] = orders[i]
      BY <1>4, <3>1
    <3>3. PendingInv'
      <4>1. Executions(fills, pending') = {}
        <5>1. \A k \in DOMAIN fills : fills[k].order \in DOMAIN orders
          BY <1>3 DEF RunType
        <5> QED BY <3>2, <5>1 DEF Executions
      <4>2. \A d \in frame : ~(day < d /\ OpenDone(d)')
        BY <1>1, <1>3, <1>5, EventsAre
      <4>3. Order' = o
        BY <3>2 DEF Order
      <4> QED BY <1>1, <1>6, <3>1, <4>1, <4>2, <4>3 DEF PendingInv
    <3>4. DecidedInv'
      <4>1. \A i \in DOMAIN orders : DecidedWell(orders[i], i, fills, frame)
        <5>1. \A i \in DOMAIN orders : i # pending
          BY <3>1, <3>2
        <5> QED BY <1>3, <5>1 DEF DecidedInv
      <4>2. \A i \in DOMAIN orders' : i = pending' \/ DecidedWell(orders'[i], i, fills, frame)
        BY <3>2, <4>1
      <4> QED BY <1>1, <4>2 DEF DecidedInv
    <3> QED BY <3>3, <3>4
  <2> QED BY <1>2, <2>1, <2>2
<1>16. /\ EarnedOn(daily', Owed) = EarnedOn(daily, Owed)
       /\ EarnedOn(daily', PaidEvents) = EarnedOn(daily, PaidEvents)
       /\ Receipts(daily', Owed) = Receipts(daily, Owed)
  <2>1. \A e \in Owed \cup PaidEvents : HeldIn(daily', e.ex) = HeldIn(daily, e.ex)
    <3>1. \A e \in Owed \cup PaidEvents : e \in Events /\ e.ex <= day
      <4>1. \A e \in Owed : e \in Events /\ e.ex <= day
        BY <1>5, <1>7 DEF Owed
      <4>2. \A e \in PaidEvents : e \in Events /\ e.payable <= day
        BY <1>5, <1>7 DEF PaidEvents
      <4>3. \A e \in PaidEvents : e.ex <= day
        BY <1>1, <1>7, <4>2
      <4> QED BY <4>1, <4>2, <4>3
    <3> QED BY <1>12, <3>1
  <2>2. \A e \in Owed \cup PaidEvents : Dividend(daily', e) = Dividend(daily, e)
    BY <2>1 DEF Dividend
  <2>3. /\ [e \in Owed |-> Dividend(daily', e)] = [e \in Owed |-> Dividend(daily, e)]
        /\ [e \in PaidEvents |-> Dividend(daily', e)] = [e \in PaidEvents |-> Dividend(daily, e)]
    BY <2>2
  <2>4. Receipts(daily', Owed) = Receipts(daily, Owed)
    BY <2>1, <2>2 DEF Receipts
  <2> QED BY <2>3, <2>4 DEF EarnedOn
<1>17. CashInv'
  BY <1>1, <1>3, <1>7, <1>16 DEF CashInv, InitialCash
<1>18. RowFollows(InitialCash, fills, daily', Events, row)
  <2>1. DoneBy(fills, row) = DOMAIN fills
    BY <1>6, <1>10 DEF DoneBy
  <2>2. Past(Events, row) = {e \in Events : e.ex <= day}
    BY <1>10 DEF Past
  <2>3. PaidBy(Events, row) = PaidEvents
    <3>1. PaidEvents = {e \in Events : e.payable <= day}
      BY <1>5, <1>7 DEF PaidEvents
    <3>2. \A e \in Events : e.payable <= day => e.ex <= day
      BY <1>1, <1>7
    <3> QED BY <1>10, <2>2, <3>1, <3>2 DEF PaidBy
  <2>4. Past(Events, row) \ PaidBy(Events, row) = Owed
    <3>1. Owed = {e \in Events : e.ex <= day /\ ~(e.payable <= day)}
      BY <1>5, <1>7 DEF Owed
    <3>2. PaidBy(Events, row) = {e \in Past(Events, row) : e.payable <= day}
      BY <1>10 DEF PaidBy
    <3> QED BY <2>2, <3>1, <3>2
  <2>5. position - SellableSize(lots, day) = BoughtOf(fills, NewOn(fills, row))
    BY <1>1, <1>3, <1>6, <1>10, NewShares
  <2>6. cash = InitialCash + ProceedsOf(fills, DOMAIN fills)
               - (SpentOf(fills, DOMAIN fills) + FeesOf(fills, DOMAIN fills))
               + EarnedOn(daily', PaidEvents)
    BY <1>3, <1>16 DEF CashInv
  <2>7. Receivable = EarnedOn(daily', Owed)
    BY <1>9, <1>16
  <2> QED BY <1>10, <2>1, <2>3, <2>4, <2>5, <2>6, <2>7 DEF RowFollows
<1>19. RowsInv'
  <2>1. ASSUME NEW i \in DOMAIN daily
        PROVE  RowFollows(InitialCash, fills, daily', Events, daily[i])
    <3>1. RowFollows(InitialCash, fills, daily, Events, daily[i])
      BY <1>3 DEF RowsInv
    <3>2. \A e \in Events : e.ex <= daily[i].date => HeldIn(daily', e.ex) = HeldIn(daily, e.ex)
      <4>1. daily[i].date \in Nat /\ daily[i].date < day
        BY <1>6
      <4>2. \A e \in Events : e.ex <= daily[i].date => e.ex <= day
        BY <1>1, <1>7, <4>1
      <4> QED BY <1>12, <4>2
    <3> QED BY <3>1, <3>2, RowStays
  <2>2. \A i \in DOMAIN daily' : RowFollows(InitialCash, fills, daily', Events, daily'[i])
    BY <1>11, <1>18, <2>1
  <2>3. InitialCash' = InitialCash
    BY <1>1 DEF InitialCash
  <2> QED BY <1>1, <1>7, <2>2, <2>3 DEF RowsInv
<1>20. MarginInv'
  <2>1. \A i \in DOMAIN orders' : orders'[i].status = "margin" =>
            i \in DOMAIN orders /\ orders'[i] = orders[i]
    <3>1. CASE UNCHANGED <<orders, pending>>
      BY <3>1
    <3>2. CASE \E o \in OrderType : orders' = Append(orders, o) /\ o.status = "accepted"
      BY <1>4, <3>2
    <3> QED BY <1>2, <3>1, <3>2
  <2>2. \E k \in DOMAIN daily' : daily'[k].date = day /\ daily'[k].cash = cash
    BY <1>10, <1>11
  <2> QED BY <1>3, <1>11, <2>1, <2>2, MarginStays
<1> QED BY <1>13, <1>14, <1>15, <1>17, <1>19, <1>20 DEF BookInv

-----------------------------------------------------------------------------
(* Every run *)

LEMMA BookStays ==
    ASSUME BookInv, UNCHANGED backtestVars
    PROVE  BookInv'
<1>1. UNCHANGED <<frame, actions, balance, phase, day, bar, cash, position, lots, receivables,
                  pending, orders, fills, daily>>
  BY DEF backtestVars, book
<1>2. Events' = Events /\ Owed' = Owed /\ PaidEvents' = PaidEvents
  BY <1>1 DEF Events, Owed, PaidEvents, ActionsDone
<1>3. RunType /\ HoldingInv /\ PendingInv /\ DecidedInv /\ MarginInv /\ CashInv /\ RowsInv
  BY DEF BookInv
<1>4. RunType'
  BY <1>1, <1>3 DEF RunType, OpenDone, CloseDone
<1>5. HoldingInv' /\ DecidedInv'
  BY <1>1, <1>3 DEF HoldingInv, DecidedInv
<1>6. PendingInv'
  BY <1>1, <1>3 DEF PendingInv, OpenDone, Order, Target
<1>7. CashInv' /\ RowsInv'
  BY <1>1, <1>2, <1>3 DEF CashInv, RowsInv, InitialCash
<1>8. MarginInv'
  BY <1>1, <1>3 DEF MarginInv
<1> QED BY <1>4, <1>5, <1>6, <1>7, <1>8 DEF BookInv

\* The book of a run agrees with its records in every state: the cash with the
\* executions and the dividends paid, the receivables with those owed, the lots with
\* the position (RuleAwareBackBroker).
THEOREM BooksAgree == BacktestSpec => []BookInv
<1>1. BacktestInit => BookInv
  BY RunStarts
<1>2. BookInv /\ [BacktestNext]_backtestVars => BookInv'
  <2> SUFFICES ASSUME BookInv, [BacktestNext]_backtestVars PROVE BookInv'
    OBVIOUS
  <2>1. CASE NextBar
    BY <2>1, NextBarKeepsBook
  <2>2. CASE CorporateActions
    BY <2>2, CorporateActionsKeepBook
  <2>3. CASE Execute
    BY <2>3, ExecuteKeepsBook
  <2>4. CASE Signal
    BY <2>4, SignalKeepsBook
  <2>5. CASE Finalize
    BY <2>5, FinalizeKeepsBook
  <2>6. CASE UNCHANGED backtestVars
    BY <2>6, BookStays
  <2> QED BY <2>1, <2>2, <2>3, <2>4, <2>5, <2>6 DEF BacktestNext
<1> QED BY <1>1, <1>2, PTL DEF BacktestSpec

\* A finished run has decided every order as the calendar and the frame say, executed
\* it once and on its session, or left it unexecuted in spite of the rules only if it
\* costs the cash of its day to the fen, whatever the initial balance and the float
\* arithmetic; and it never stops on lots that disagree with the position.
THEOREM OrdersWellDecided == BacktestSpec => []OrdersAreDecidedOnTheNextSession
<1>1. BookInv => OrdersAreDecidedOnTheNextSession
  BY DecisionsStand DEF BookInv
<1> QED BY <1>1, BooksAgree, PTL

\* Every row of the daily ledgers follows from the executions and the dividends up to
\* its date, each dividend for the shares held before its ex-date, and once.
THEOREM LedgersFollow == BacktestSpec => []LedgersFollowFromTheRecords
<1>1. BookInv => LedgersFollowFromTheRecords
  BY RowsFollow DEF BookInv
<1> QED BY <1>1, BooksAgree, PTL

=============================================================================
