------------------------------ MODULE Backtest ------------------------------
(***************************************************************************)
(* One single-instrument run of src/aquant/backtest: a strategy that       *)
(* signals at a close, and a broker (RuleAwareBackBroker) that executes at *)
(* the open of the next session under the rules of MarketRules.  Every bar *)
(* of the frame goes through the same phases:                              *)
(*    "actions"  register the dividends of the day, pay those due,         *)
(*    "execute"  try the pending order at the open,                        *)
(*    "signal"   let the strategy submit an order and write the ledgers.   *)
(* After the last bar the pending order is closed and the run is "done";   *)
(* "failed" is the RuntimeError of _record_daily_ledgers.                  *)
(*                                                                         *)
(* Backtrader hands the notification of an order to the strategy before    *)
(* its next(), so the broker's queue and the strategy's _pending_order are *)
(* one variable.  Bars are picked one at a time; the moving average is     *)
(* abstracted to where the close lies.                                     *)
(*                                                                         *)
(* The broker's cash is a float.  The initial balance is any, here of a    *)
(* tenth of a fen; all that is added or taken later is whole fen, so what  *)
(* it has beyond whole fen (Fraction) stays, up to an error of the float   *)
(* arithmetic that may put the cash a hair below its value (below).        *)
(***************************************************************************)
EXTENDS MarketRules

CONSTANTS
    Symbol,           \* the instrument
    InitialBalances,  \* the initial_cash it may be given, tenths of a fen
    WeightPercent,    \* target_weight
    Period,           \* sma_period
    Bars,             \* [open, close] a bar may show
    Frames,           \* the sets of bar dates a run may be given
    ActionSets        \* the sets of dividends [ex, payable, perUnit] it may be given

ASSUME BacktestAssumption ==
    /\ Symbol \in Symbols
    /\ InitialBalances \subseteq Nat \ {0} /\ WeightPercent \in 1 .. 100
    /\ Period \in Nat /\ Period >= 2
    /\ \A frame \in Frames : frame # {} /\ frame \subseteq Nat \ {0} /\ IsFiniteSet(frame)
    /\ \A b \in Bars : b.open \in Nat \ {0} /\ b.close \in Nat \ {0}
    /\ \A actions \in ActionSets :
          /\ IsFiniteSet(actions)
          /\ actions \subseteq [ex : Nat, payable : Nat, perUnit : Nat]
          /\ \A e \in actions : e.ex <= e.payable

VARIABLES
    strategy, frame, actions, balance,   \* what the run was given
    phase,
    day, bar,                   \* the current bar
    reference,                  \* the reference price of its limits
    cash, below, position, lots,   \* the broker's book; cash in whole fen
    receivables,                \* set of [event, amount] still to be paid
    pending,                    \* the number of the live order, or 0
    orders, fills, daily        \* the audit: orders, executions, a row per bar

book == <<cash, below, position, lots>>
backtestVars == <<strategy, frame, actions, balance, phase, day, bar, reference, book,
                  receivables, pending, orders, fills, daily>>

Given == <<strategy, frame, actions, balance>>

\* The nearest fen of the initial balance and what the balance has beyond it, in
\* tenths: -4 .. 5.
InitialCash == (balance + 4) \div 10
Fraction == balance - 10 * InitialCash

-----------------------------------------------------------------------------
(* Starting.  derive_price_streams refuses dividends whose dates have no    *)
(* bar and, as the bars come, any that leave no positive reference price.   *)

FirstDate(dates) == Min(dates)
LastDate(dates) == Max(dates)
Covered(dates, events) == {e \in events : e.ex \in FirstDate(dates) .. LastDate(dates)}

DatesHaveBars(dates, events) ==
    \A e \in Covered(dates, events) :
        /\ e.ex \in dates \ {FirstDate(dates)}
        /\ e.payable <= LastDate(dates) => e.payable \in dates

CashOn(date) == SumFunction([e \in {x \in actions : x.ex = date} |-> e.perUnit])

BacktestInit ==
    /\ strategy \in {"buy_and_hold", "sma"}
    /\ frame \in Frames
    /\ actions \in {a \in ActionSets : DatesHaveBars(frame, a)}
    /\ balance \in InitialBalances
    /\ phase = "bar" /\ day = NoDate
    /\ bar = [open |-> 0, close |-> 0] /\ reference = 0
    /\ cash = InitialCash /\ below = FALSE /\ position = 0 /\ lots = <<>>
    /\ receivables = {} /\ pending = 0
    /\ orders = <<>> /\ fills = <<>> /\ daily = <<>>

NextBar ==
    /\ phase = "bar"
    /\ {d \in frame : d > day} # {}
    /\ day' = Min({d \in frame : d > day})
    /\ bar' \in Bars
    /\ reference' = IF day = NoDate THEN 0 ELSE bar.close - CashOn(day')
    /\ day # NoDate => reference' > 0
    /\ phase' = "actions"
    /\ UNCHANGED <<Given, book, receivables, pending, orders, fills, daily>>

-----------------------------------------------------------------------------
(* Corporate actions, before the open *)

Registered ==
    IF position = 0 THEN {}
    ELSE {[event |-> e, amount |-> NotionalFen(e.perUnit, position)] :
            e \in {x \in actions : x.ex = day /\ x.perUnit > 0}}

Due(held) == {r \in held : r.event.payable = day}
Amounts(held) == SumFunction([r \in held |-> r.amount])

PayFirst ==                                     \* mutation: pays, then registers
    /\ cash' = cash + Amounts(Due(receivables))
    /\ receivables' = (receivables \ Due(receivables)) \cup Registered
RegisterAndPay ==
    LET held == receivables \cup Registered
    IN  /\ cash' = cash + Amounts(Due(held))
        /\ receivables' = held \ Due(held)

\* Float arithmetic on the cash leaves it exact, or a hair below.
Computed == below' \in BOOLEAN /\ (cash' = cash => below' = below)

CorporateActions ==
    /\ phase = "actions"
    /\ RegisterAndPay /\ Computed
    /\ phase' = "execute"
    /\ UNCHANGED <<Given, day, bar, reference, position, lots, pending, orders, fills, daily>>

-----------------------------------------------------------------------------
(* Execution at the open *)

Receivable == Amounts(receivables)

Order == orders[pending]
Target == NextSession(Order.signal)

\* Shares the target weight of the opening equity buys, in board lots.
WantedSize ==
    LET equity == 10 * (cash + Receivable) + Fraction + position * bar.open   \* mills
        size   == (equity * WeightPercent - (IF below THEN 1 ELSE 0)) \div (100 * bar.open)
    IN  Max({(size \div LotSize) * LotSize - position, 0})

\* _fen: half a fen is rounded up, unless the float is a hair below it.
RoundedCash == IF Fraction = 5 /\ ~below THEN cash + 1 ELSE cash

Decision(size) ==
    EvaluateOrder([symbol |-> Symbol, side |-> Order.side, size |-> size,
                   signal |-> Order.signal, hasBar |-> Target \in frame,
                   previousClose |-> reference, open |-> bar.open,
                   cash |-> RoundedCash, lots |-> lots])

\* The size tried last: a buy comes down a lot at a time while cash is short.
TriedSize ==
    IF Order.side = "sell" THEN Order.size
    ELSE LET enough == {s \in {LotSize * n : n \in 1 .. WantedSize \div LotSize} :
                          Decision(s) # "insufficient_cash"}
         IN  IF enough = {} THEN LotSize ELSE Max(enough)

\* What becomes of the pending order on this bar.
NeverWaits ==                                 \* mutation: any bar will do
    IF Target = NoDate THEN "no_next_session_in_range"
    ELSE IF day > Target THEN "suspended_no_bar"
    ELSE IF Order.side = "buy" /\ WantedSize = 0 THEN "invalid_lot_size"
    ELSE Decision(TriedSize)
Verdict ==
    IF Target = NoDate THEN "no_next_session_in_range"
    ELSE IF day < Target THEN "waits"
    ELSE IF day > Target THEN "suspended_no_bar"
    ELSE IF Order.side = "buy" /\ WantedSize = 0 THEN "invalid_lot_size"
    ELSE Decision(TriedSize)

\* _reject: the order ends, its size zero once its target session was tried.
Rejected(order, reason) ==
    [order EXCEPT !.status = "rejected", !.reason = reason,
                  !.size = IF day = NextSession(order.signal) THEN 0 ELSE @]

Reject ==
    /\ Verdict \notin {"waits", "allowed"}
    /\ orders' = [orders EXCEPT ![pending] = Rejected(@, Verdict)]
    /\ pending' = 0
    /\ UNCHANGED <<book, fills>>

\* consume_fifo leaves emptied lots in place.
Sold(size) ==
    LET taken == ConsumeFifo(lots, {i \in DOMAIN lots : lots[i].available <= day}, size)
    IN  [i \in DOMAIN lots |->
            IF i \in DOMAIN taken THEN [lots[i] EXCEPT !.remaining = @ - taken[i]]
            ELSE lots[i]]

\* What a buy takes from the cash, in fen.
Cost(date, open, size) == NotionalFen(open, size) + TotalFees(Symbol, "buy", date, open, size)

\* What the rules allowed on the rounded cash, the broker takes from the float,
\* and executes nothing if that leaves less than zero, which it may seem to if
\* it leaves zero.
Margin ==
    /\ Verdict = "allowed" /\ Order.side = "buy"
    /\ 10 * Cost(day, bar.open, TriedSize) >= 10 * cash + Fraction
    /\ orders' = [orders EXCEPT ![pending].status = "margin", ![pending].size = TriedSize]
    /\ pending' = 0
    /\ UNCHANGED <<book, fills>>

Fill ==
    /\ Verdict = "allowed"
    /\ LET size  == TriedSize
           fees  == TotalFees(Symbol, Order.side, day, bar.open, size)
           value == NotionalFen(bar.open, size)
       IN  /\ Order.side = "buy" => 10 * (value + fees) <= 10 * cash + Fraction
           /\ orders' = [orders EXCEPT ![pending].status = "completed", ![pending].size = size]
           /\ fills' = Append(fills, [order |-> pending, date |-> day, side |-> Order.side,
                                      size |-> size, value |-> value, fees |-> fees])
           /\ IF Order.side = "buy"
              THEN /\ cash' = cash - value - fees
                   /\ position' = position + size
                   /\ lots' = Append(lots, [remaining |-> size, acquired |-> day,
                                            available |-> NextSession(day)])
              ELSE /\ cash' = cash + value - fees
                   /\ position' = position - size
                   /\ lots' = Sold(size)
    /\ Computed
    /\ pending' = 0

Execute ==
    /\ phase = "execute"
    /\ \/ pending = 0 /\ UNCHANGED <<book, pending, orders, fills>>
       \/ pending # 0 /\ Verdict = "waits" /\ UNCHANGED <<book, pending, orders, fills>>
       \/ pending # 0 /\ Reject
       \/ pending # 0 /\ Margin
       \/ pending # 0 /\ Fill
    /\ phase' = "signal"
    /\ UNCHANGED <<Given, day, bar, reference, receivables, daily>>

-----------------------------------------------------------------------------
(* The strategy, after the close *)

\* The sides it may signal now, over the places the close may lie at.
Signals ==
    IF strategy = "buy_and_hold"
    THEN IF daily = <<>> /\ position = 0 THEN {"buy"} ELSE {"none"}
    ELSE IF Len(daily) + 1 < Period \/ pending # 0 THEN {"none"}
    ELSE IF position = 0 THEN {"none", "buy"} ELSE {"none", "sell"}

Submit(side) ==
    /\ orders' = Append(orders, [signal |-> day, side |-> side,
                                 size |-> IF side = "sell" THEN position ELSE 0,
                                 status |-> "accepted", reason |-> "none"])
    /\ pending' = Len(orders')

RecordDay ==
    /\ daily' = Append(daily, [date |-> day, size |-> position,
                               available |-> SellableSize(lots, day),
                               cash |-> cash, receivable |-> Receivable])
    /\ phase' = IF SizeOf(lots, DOMAIN lots) = position THEN "bar" ELSE "failed"

Signal ==
    /\ phase = "signal"
    /\ \E side \in Signals :
          \/ side = "none" /\ UNCHANGED <<orders, pending>>
          \/ side # "none" /\ Submit(side)
    /\ RecordDay
    /\ UNCHANGED <<Given, day, bar, reference, book, receivables, fills>>

\* finalize_pending_orders
Finalize ==
    /\ phase = "bar" /\ day = LastDate(frame)
    /\ phase' = "done"
    /\ orders' = IF pending = 0 THEN orders
                 ELSE [orders EXCEPT ![pending].status = "rejected",
                                     ![pending].reason =
                                         IF Target = NoDate THEN "no_next_session_in_range"
                                         ELSE "suspended_no_bar"]
    /\ pending' = 0
    /\ UNCHANGED <<Given, day, bar, reference, book, receivables, fills, daily>>

BacktestNext == NextBar \/ CorporateActions \/ Execute \/ Signal \/ Finalize

BacktestSpec == BacktestInit /\ [][BacktestNext]_backtestVars /\ WF_backtestVars(BacktestNext)

-----------------------------------------------------------------------------
(* Properties *)

\* The fills of order i.
FillsOf(i) == {k \in DOMAIN fills : fills[k].order = i}

\* On its session the order costs all the cash of that day, or a fen more.
SpendsAllCash(o) ==
    \E i \in DOMAIN daily, b \in Bars :
        /\ daily[i].date = NextSession(o.signal)
        /\ Cost(daily[i].date, b.open, o.size) \in {daily[i].cash, daily[i].cash + 1}

\* A finished run has decided every order, and the decision can be told from the
\* calendar and the frame: an order is executed once, on the session after its
\* signal and on no later one; it is refused for want of a bar if and only if that
\* session has none, and for want of a session only at the end of the calendar.
\* One the rules allowed and the broker still did not execute ("margin") is a buy,
\* on its session, that costs the rounded cash to the fen: nothing but rounding
\* stands between what the rules allow and what is executed.
\* A sell is never refused for its size: the strategies sell what they hold, and
\* hold nothing they cannot sell at the next session.  The run never stops on lots
\* that disagree with the position (RuleAwareBackBroker, _record_daily_ledgers).
OrdersAreDecidedOnTheNextSession ==
    /\ phase # "failed"
    /\ phase = "done" =>
        \A i \in DOMAIN orders :
            LET o == orders[i]
                next == NextSession(o.signal)
            IN  /\ <<o.status, o.reason = "none">> \in
                       {<<"completed", TRUE>>, <<"rejected", FALSE>>, <<"margin", TRUE>>}
                /\ o.status = "completed" =>
                      \E k \in FillsOf(i) :
                          /\ FillsOf(i) = {k}
                          /\ fills[k].date = next /\ next \in frame
                          /\ fills[k].size = o.size /\ o.size > 0
                /\ o.status # "completed" => FillsOf(i) = {}
                /\ o.status = "margin" =>
                      /\ o.side = "buy" /\ next \in frame
                      /\ o.size > 0 /\ SpendsAllCash(o)
                /\ o.reason = "suspended_no_bar" <=> next # NoDate /\ next \notin frame
                /\ o.reason = "no_next_session_in_range" =>
                      next = NoDate \/ (o.side = "buy" /\ NextSession(next) = NoDate)
                /\ o.side = "sell" =>
                      o.reason \notin {"insufficient_sellable_position", "invalid_lot_size"}

\* What the design says of the records, "final_status: submitted | accepted |
\* completed | rejected | canceled": no order ends in any other way.
OrdersEndAsDocumented ==
    \A i \in DOMAIN orders :
        orders[i].status \in {"submitted", "accepted", "completed", "rejected", "canceled"}

\* The position after the bar before date.
HeldBefore(date) ==
    LET earlier == {i \in DOMAIN daily : daily[i].date < date}
    IN  IF earlier = {} THEN 0 ELSE daily[Max(earlier)].size

\* What the fills up to a date brought in and took out.
FilledBy(date) == {k \in DOMAIN fills : fills[k].date <= date}
Proceeds(K) == SumFunction([k \in {x \in K : fills[x].side = "sell"} |-> fills[k].value])
Costs(K) == SumFunction([k \in {x \in K : fills[x].side = "buy"} |-> fills[k].value])
            + SumFunction([k \in K |-> fills[k].fees])

\* The dividends of some events, for the holding before their ex-dates.
Earned(events) ==
    SumFunction([e \in events |-> NotionalFen(e.perUnit, HeldBefore(e.ex))])

\* Every row of the daily ledgers follows from what came before it: the cash is
\* the initial cash, the fills so far and the dividends payable so far, the
\* receivable the dividends of past ex-dates not payable yet, and the shares that
\* are not available those bought since the last session.  A dividend counts for
\* the shares held at the close before its ex-date, sold at that open or not, and
\* once (RuleAwareBackBroker.next, position_sizes).
LedgersFollowFromTheRecords ==
    \A i \in DOMAIN daily :
        LET row  == daily[i]
            past == {e \in Covered(frame, actions) : e.ex <= row.date}
            paid == {e \in past : e.payable <= row.date}
            new  == {k \in DOMAIN fills :
                        /\ fills[k].side = "buy" /\ fills[k].date <= row.date
                        /\ NextSession(fills[k].date) > row.date}
            done == FilledBy(row.date)
        IN  /\ row.cash = InitialCash + Proceeds(done) - Costs(done) + Earned(paid)
            /\ row.receivable = Earned(past \ paid)
            /\ row.size - row.available = SumFunction([k \in new |-> fills[k].size])

=============================================================================
