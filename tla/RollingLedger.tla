---------------------------- MODULE RollingLedger ----------------------------
(***************************************************************************)
(* The rolling ledger of src/aquant/rolling/accounting.py: the sibling of  *)
(* the portfolio ledger that can also sell.  A lot keeps the size it was   *)
(* bought with (original) beside what is left of it (remaining), a sell is *)
(* an event of its own that says what it took of each lot, and every past  *)
(* position is reconstructed from the events.  A lot is named by its place *)
(* in the ledger, which is that of its buy event among the buys.           *)
(*                                                                         *)
(* The variable ledger is PortfolioLedger's.  There is no rolling          *)
(* operation that registers or pays a receivable: those of a promoted      *)
(* ledger stay as they were, and the research loop writes its own.         *)
(***************************************************************************)
EXTENDS PortfolioLedger

-----------------------------------------------------------------------------
(* Positions, reconstructed from the events *)

SellsIn(l, indices) == {i \in indices : l.events[i].kind = "sell"}

\* What the given events sold of a lot.
SoldOf(l, k, indices) ==
    SumFunction([i \in {x \in SellsIn(l, indices) : k \in DOMAIN l.events[x].consumed}
                 |-> l.events[i].consumed[k]])

\* The lots with what is left of them after the given events.
LotsAfter(l, indices) ==
    [k \in DOMAIN l.lots |->
        [l.lots[k] EXCEPT !.remaining = l.lots[k].original - SoldOf(l, k, indices)]]

EventsBy(l, date) == {i \in DOMAIN l.events : l.events[i].date <= date}

\* _position_sizes_at_session: a symbol sold off has no position.
RollingPositionSizes(l, date) ==
    LET sizes == PositionSizes([l EXCEPT !.lots = LotsAfter(l, EventsBy(l, date))], date)
    IN  [y \in {s \in DOMAIN sizes : sizes[s].total > 0} |-> sizes[y]]

-----------------------------------------------------------------------------
(* verify_rolling_ledger *)

RollingLotOK(x) ==
    /\ x.available > x.acquired
    /\ x.original > 0 /\ x.original % LotSize = 0
    /\ x.remaining \in 0 .. x.original
    /\ x.cost > 0

RollingSettled(e) ==
    IF e.kind = "sell" THEN e.before + e.notional - e.fees ELSE Settled(e)

RollingCashReplays(l) ==
    /\ \A i \in DOMAIN l.events :
          /\ l.events[i].before = IF i = 1 THEN l.initial ELSE l.events[i-1].after
          /\ l.events[i].after = RollingSettled(l.events[i])
          /\ l.events[i].after >= 0
    /\ l.cash = IF l.events = <<>> THEN l.initial ELSE l.events[Len(l.events)].after

\* The lots bought by the events before the i-th.
BoughtBefore(l, i) ==
    {k \in DOMAIN l.lots : \E j \in 1 .. i - 1 :
        l.events[j].kind = "fill" /\ l.events[j].ref = l.lots[k].id}

Positive(take) == [k \in {x \in DOMAIN take : take[x] > 0} |-> take[k]]

SellReplays(l, i) ==
    LET e     == l.events[i]
        lots  == LotsAfter(l, 1 .. i - 1)
        own   == {k \in BoughtBefore(l, i) : lots[k].symbol = e.symbol}
        mayGo == {k \in own : lots[k].available <= e.date}
    IN  /\ e.price > 0
        /\ e.size <= SizeOf(lots, mayGo)
        /\ ValidSellSize(SizeOf(lots, own), e.size)
        /\ e.consumed = Positive(ConsumeFifo(lots, mayGo, e.size))
        /\ e.notional = NotionalFen(e.price, e.size)

\* Buys match lots at their original size, in the same order.
AsBought(l) == [l EXCEPT !.lots = LotsAfter(l, {})]
LotsInBuyOrder(l) ==
    \A i, j \in DOMAIN l.events : \A k, m \in DOMAIN l.lots :
        /\ i < j /\ l.events[i].kind = "fill" /\ l.events[j].kind = "fill"
        /\ l.lots[k].id = l.events[i].ref /\ l.lots[m].id = l.events[j].ref
        => k < m

RollingSnapshotAddsUp(l, s) ==             \* mutation: a day only has to add up
    s.equity = s.cash + s.market + s.receivable
RollingSnapshotReconciles(l, s) ==
    /\ ~OverdueBy(l, s.date)
    /\ Sizes(s.valuations) = RollingPositionSizes(l, s.date)
    /\ CashAsOf(l, s.date, s.cash)
    /\ s.market = MarketValue(s.valuations)
    /\ s.receivable = Outstanding(l, s.date)
    /\ s.equity = s.cash + s.market + s.receivable

RollingVerified(l) ==
    /\ \A k \in DOMAIN l.lots : RollingLotOK(l.lots[k])
    /\ \A d \in DOMAIN l.receivables : ReceivableOK(l.receivables[d])
    /\ \A i \in DOMAIN l.events : l.events[i].notional > 0
    /\ RollingCashReplays(l)
    /\ EventsInOrder(l)
    /\ FillsMatchLots(AsBought(l))
    /\ LotsInBuyOrder(l)
    /\ \A i \in SellsIn(l, DOMAIN l.events) : SellReplays(l, i)
    /\ \A k \in DOMAIN l.lots :
          l.lots[k].remaining = l.lots[k].original - SoldOf(l, k, DOMAIN l.events)
    /\ PaymentsMatchReceivables(l)
    /\ \A i, j \in DOMAIN l.snapshots :
          i < j => l.snapshots[i].date < l.snapshots[j].date
    /\ \A i \in DOMAIN l.snapshots : RollingSnapshotReconciles(l, l.snapshots[i])

-----------------------------------------------------------------------------
(* The operations *)

RollingAnswer(updated, date) ==
    /\ asOf' = date
    /\ \E next \in {updated} :
          \/ RollingVerified(next)  /\ ledger' = next /\ reply' = "ok"
          \/ ~RollingVerified(next) /\ UNCHANGED ledger  /\ reply' = "unreconciled"

AsRollingLot(x) ==
    [id |-> x.id, symbol |-> x.symbol, acquired |-> x.acquired, available |-> x.available,
     original |-> x.remaining, remaining |-> x.remaining, cost |-> x.cost]

PromotedPositions(l) ==                    \* mutation: leaves the receivables behind
    [l EXCEPT !.lots = [k \in DOMAIN l.lots |-> AsRollingLot(l.lots[k])],
              !.receivables = <<>>]
\* promote_portfolio_ledger copies a verified portfolio ledger field by field.
Promoted(l) == [l EXCEPT !.lots = [k \in DOMAIN l.lots |-> AsRollingLot(l.lots[k])]]

\* create_rolling_ledger
CreateRollingLedger(cash) == Promoted(CreateLedger(cash))

\* post_rolling_buy: the posting goes through post_buy on an empty ledger with
\* this one's cash, so only the replay sees that an id or a date is taken.
PurseOf(l) == CreateLedger(l.cash)

RollingBought(l, p) ==
    [l EXCEPT !.cash   = BuyEvent(l, p).after,
              !.lots   = Append(@, AsRollingLot(p.lot)),
              !.events = Append(@, BuyEvent(l, p))]

PostRollingBuy(p) ==
    \/ /\ BuyRefused(PurseOf(ledger), p)
       /\ Refuse(p.lot.acquired)
    \/ /\ ~BuyRefused(PurseOf(ledger), p)
       /\ RollingAnswer(RollingBought(ledger, p), p.lot.acquired)

\* post_rolling_sell: q is [event, date, symbol, size, price, fees].
LotsOf(l, symbol) == {k \in DOMAIN l.lots : l.lots[k].symbol = symbol}
HeldLotsOf(l, symbol, date) == LotsOf(l, symbol)    \* mutation: forgets T+1
SellableLots(l, symbol, date) == {k \in LotsOf(l, symbol) : l.lots[k].available <= date}

SellProceeds(l, q) == l.cash + NotionalFen(q.price, q.size) - q.fees

Consumption(l, q) ==
    Positive(ConsumeFifo(l.lots, SellableLots(l, q.symbol, q.date), q.size))

SellRefused(l, q) ==
    \/ q.size <= 0 \/ q.price <= 0
    \/ NotionalFen(q.price, q.size) <= 0
    \/ SellProceeds(l, q) < 0
    \/ q.event \in EventIds(l)
    \/ l.events # <<>> /\ q.date < l.events[Len(l.events)].date
    \/ q.size > SizeOf(l.lots, SellableLots(l, q.symbol, q.date))
    \/ ~ValidSellSize(SizeOf(l.lots, LotsOf(l, q.symbol)), q.size)

SellEvent(l, q) ==
    [id |-> q.event, kind |-> "sell", date |-> q.date, symbol |-> q.symbol,
     size |-> q.size, price |-> q.price, consumed |-> Consumption(l, q),
     notional |-> NotionalFen(q.price, q.size), fees |-> q.fees,
     before |-> l.cash, after |-> SellProceeds(l, q)]

LotsLeft(l, consumed) ==
    [k \in DOMAIN l.lots |->
        IF k \in DOMAIN consumed
        THEN [l.lots[k] EXCEPT !.remaining = @ - consumed[k]] ELSE l.lots[k]]

Sold(l, q) ==
    [l EXCEPT !.cash   = SellProceeds(l, q),
              !.lots   = LotsLeft(l, Consumption(l, q)),
              !.events = Append(@, SellEvent(l, q))]

PostRollingSell(q) ==
    \/ SellRefused(ledger, q)  /\ Refuse(q.date)
    \/ ~SellRefused(ledger, q) /\ RollingAnswer(Sold(ledger, q), q.date)

\* close_rolling_session.  The closing cash is that of the last event by the
\* date; a close dated before an event is refused, so it is the current cash.
RollingCloseRefused(l, date, v) ==
    \/ Closed(l, date)
    \/ l.events # <<>> /\ l.events[Len(l.events)].date > date
    \/ OverdueBy(l, date)
    \/ \E y \in DOMAIN v : v[y].mark <= 0
    \/ Sizes(v) # RollingPositionSizes(l, date)

CloseRollingSession(date, v) ==
    \/ RollingCloseRefused(ledger, date, v)  /\ Refuse(date)
    \/ ~RollingCloseRefused(ledger, date, v) /\ RollingAnswer(ClosedWith(ledger, date, v), date)

=============================================================================
