-------------------------- MODULE PortfolioLedger --------------------------
(***************************************************************************)
(* The buy-and-hold ledger of src/aquant/portfolio/accounting.py: cash,    *)
(* lots, cash events, dividend receivables and daily snapshots, as one     *)
(* immutable value that four operations extend.  Each operation checks its *)
(* request, builds the updated ledger, and then replays the whole updated  *)
(* ledger (verify_portfolio_ledger); only a ledger that replays is handed  *)
(* back.  The variables are                                                *)
(*    ledger   the last ledger handed back,                                *)
(*    reply    what the last call answered: "ok", "refused" by a check of  *)
(*             the request, or "unreconciled" by the replay at the end,    *)
(*    asOf     the date that call was about.                               *)
(*                                                                         *)
(* This module holds the operations; LedgerClient makes arbitrary calls of *)
(* them and Coordinator the calls of a portfolio run.                      *)
(***************************************************************************)
EXTENDS MarketRules

CONSTANTS
    InitialCash,      \* fen
    ReceivableIds,    \* corporate-action event ids
    PayOrder          \* ReceivableIds as a sequence, in (symbol, event id) order

ASSUME InitialCashAssumption == InitialCash \in Nat \ {0}
ASSUME PayOrderAssumption ==
    /\ PayOrder \in Seq(ReceivableIds)
    /\ \A i, j \in DOMAIN PayOrder : PayOrder[i] = PayOrder[j] => i = j
    /\ \A d \in ReceivableIds : \E i \in DOMAIN PayOrder : PayOrder[i] = d

VARIABLES ledger, reply, asOf

ledgerVars == <<ledger, reply, asOf>>

-----------------------------------------------------------------------------
(* The ledger value *)

CreateLedger(cash) ==
    [initial |-> cash, cash |-> cash, lots |-> <<>>, events |-> <<>>,
     receivables |-> <<>>, snapshots |-> <<>>]

EventIds(l) == {l.events[i].id : i \in DOMAIN l.events}
LotIds(l)   == {l.lots[i].id : i \in DOMAIN l.lots}

\* The cash event id of a dividend payment is derived from the receivable's.
CashId(d) == <<"cash", d>>

\* The date lies on or before the last daily close.
Closed(l, date) == l.snapshots # <<>> /\ date <= l.snapshots[Len(l.snapshots)].date

\* A receivable that should have been paid before, or by, the date.
OverdueBefore(l, date) ==
    \E d \in DOMAIN l.receivables :
        l.receivables[d].paid = NoDate /\ l.receivables[d].actual < date
OverdueBy(l, date) ==
    \E d \in DOMAIN l.receivables :
        l.receivables[d].paid = NoDate /\ l.receivables[d].actual <= date

\* Receivables registered by the date and not paid by it.
Outstanding(l, date) ==
    SumFunction([d \in {x \in DOMAIN l.receivables :
                          /\ l.receivables[x].registered <= date
                          /\ \/ l.receivables[x].paid = NoDate
                             \/ l.receivables[x].paid > date}
                 |-> l.receivables[d].amount])

\* Total and sellable size of every symbol held at the close of the date.
HeldLots(l, symbol, date) ==
    {i \in DOMAIN l.lots : l.lots[i].symbol = symbol /\ l.lots[i].acquired <= date}
PositionSizes(l, date) ==
    [y \in {s \in Symbols : HeldLots(l, s, date) # {}} |->
        [total     |-> SizeOf(l.lots, HeldLots(l, y, date)),
         available |-> SizeOf(l.lots, {i \in HeldLots(l, y, date) :
                                          l.lots[i].available <= date})]]

\* Valuations map each held symbol to its sizes and its mark.
Sizes(v) == [y \in DOMAIN v |-> [total |-> v[y].total, available |-> v[y].available]]
MarketValue(v) == SumFunction([y \in DOMAIN v |-> NotionalFen(v[y].mark, v[y].total)])

-----------------------------------------------------------------------------
(* verify_portfolio_ledger: the independent replay *)

LotOK(x) ==
    /\ x.available > x.acquired
    /\ x.remaining > 0 /\ x.remaining % LotSize = 0
    /\ x.cost > 0

ReceivableOK(r) ==
    /\ r.registered <= r.payable /\ r.payable <= r.actual
    /\ r.amount > 0
    /\ r.paid \in {NoDate, r.actual}

EntriesValid(l) ==
    /\ \A k \in DOMAIN l.lots : LotOK(l.lots[k])
    /\ \A d \in DOMAIN l.receivables : ReceivableOK(l.receivables[d])
    /\ \A i \in DOMAIN l.events : l.events[i].notional > 0

\* cash_after_fill: the poster and the replay share it.
CashAfterFreeFill(cash, notional, fees) == cash - notional    \* mutation: no fees
CashAfterFill(cash, notional, fees) == cash - notional - fees

Settled(e) == IF e.kind = "fill" THEN CashAfterFill(e.before, e.notional, e.fees)
                                 ELSE e.before + e.notional

CashReplays(l) ==
    /\ \A i \in DOMAIN l.events :
          /\ l.events[i].before = IF i = 1 THEN l.initial ELSE l.events[i-1].after
          /\ l.events[i].after = Settled(l.events[i])
          /\ l.events[i].after >= 0
    /\ l.cash = IF l.events = <<>> THEN l.initial ELSE l.events[Len(l.events)].after

EventsInOrder(l) ==
    \A i, j \in DOMAIN l.events : i < j =>
        /\ l.events[i].date <= l.events[j].date
        /\ l.events[i].id # l.events[j].id

\* Fills and lots correspond one to one.
LotCost(lot) == NotionalFen(lot.cost, lot.remaining)
FillMatches(e, x) ==
    /\ x.id = e.ref /\ x.symbol = e.symbol /\ x.acquired = e.date
    /\ e.notional = LotCost(x)
FillsMatchLots(l) ==
    /\ \A i, j \in DOMAIN l.lots : l.lots[i].id = l.lots[j].id => i = j
    /\ \A i, j \in DOMAIN l.events :
          /\ l.events[i].kind = "fill" /\ l.events[j].kind = "fill"
          /\ l.events[i].ref = l.events[j].ref
          => i = j
    /\ \A i \in DOMAIN l.events : l.events[i].kind = "fill" =>
          \E k \in DOMAIN l.lots : FillMatches(l.events[i], l.lots[k])
    /\ \A k \in DOMAIN l.lots : \E i \in DOMAIN l.events :
          l.events[i].kind = "fill" /\ l.events[i].ref = l.lots[k].id

\* Dividend payments and paid receivables correspond one to one.
PaymentMatches(e, r) ==
    e.symbol = r.symbol /\ e.date = r.paid /\ e.date = r.actual /\ e.notional = r.amount
PaymentsMatchReceivables(l) ==
    /\ \A i, j \in DOMAIN l.events :
          /\ l.events[i].kind = "dividend" /\ l.events[j].kind = "dividend"
          /\ l.events[i].ref = l.events[j].ref
          => i = j
    /\ \A i \in DOMAIN l.events : l.events[i].kind = "dividend" =>
          /\ l.events[i].ref \in DOMAIN l.receivables
          /\ l.receivables[l.events[i].ref].paid # NoDate
          /\ PaymentMatches(l.events[i], l.receivables[l.events[i].ref])
    /\ \A d \in DOMAIN l.receivables : l.receivables[d].paid # NoDate =>
          \E i \in DOMAIN l.events :
             l.events[i].kind = "dividend" /\ l.events[i].ref = d

\* The closing cash of the date: that of the last event not after it.
CashAsOf(l, date, cash) ==
    \/ /\ \A i \in DOMAIN l.events : l.events[i].date > date
       /\ cash = l.initial
    \/ \E i \in DOMAIN l.events :
          /\ l.events[i].date <= date
          /\ \A j \in DOMAIN l.events : j > i => l.events[j].date > date
          /\ cash = l.events[i].after

SnapshotAddsUp(l, s) ==                    \* mutation: not derived again from the ledger
    /\ ~OverdueBy(l, s.date)
    /\ s.market = MarketValue(s.valuations)
    /\ s.equity = s.cash + s.market + s.receivable
SnapshotReconciles(l, s) ==
    /\ ~OverdueBy(l, s.date)
    /\ Sizes(s.valuations) = PositionSizes(l, s.date)
    /\ CashAsOf(l, s.date, s.cash)
    /\ s.market = MarketValue(s.valuations)
    /\ s.receivable = Outstanding(l, s.date)
    /\ s.equity = s.cash + s.market + s.receivable

SnapshotsReconcile(l) ==
    /\ \A i, j \in DOMAIN l.snapshots :
          i < j => l.snapshots[i].date < l.snapshots[j].date
    /\ \A i \in DOMAIN l.snapshots : SnapshotReconciles(l, l.snapshots[i])

Verified(l) ==
    /\ EntriesValid(l)
    /\ CashReplays(l)
    /\ EventsInOrder(l)
    /\ FillsMatchLots(l)
    /\ PaymentsMatchReceivables(l)
    /\ SnapshotsReconcile(l)

-----------------------------------------------------------------------------
(* The operations.  Each ends by replaying the ledger it built. *)

AnswerWithoutReplay(updated, date) ==      \* mutation: hands back what it built
    asOf' = date /\ ledger' = updated /\ reply' = "ok"
Answer(updated, date) ==
    /\ asOf' = date
    /\ \E next \in {updated} :
          \/ Verified(next)  /\ ledger' = next /\ reply' = "ok"
          \/ ~Verified(next) /\ UNCHANGED ledger  /\ reply' = "unreconciled"

Refuse(date) == asOf' = date /\ reply' = "refused" /\ UNCHANGED ledger

(* post_buy: a posting names its event id, its lot and its fees *)

BuyEvent(l, p) ==
    [id |-> p.event, kind |-> "fill", date |-> p.lot.acquired, symbol |-> p.lot.symbol,
     ref |-> p.lot.id, notional |-> LotCost(p.lot), fees |-> p.fees,
     before |-> l.cash, after |-> CashAfterFill(l.cash, LotCost(p.lot), p.fees)]

BuyRefusedOnCredit(l, p) ==                \* mutation: does not look at the cash
    \/ ~LotOK(p.lot)
    \/ p.event \in EventIds(l)
    \/ p.lot.id \in LotIds(l)
BuyRefused(l, p) ==
    \/ ~LotOK(p.lot)
    \/ p.event \in EventIds(l)
    \/ p.lot.id \in LotIds(l)
    \/ BuyEvent(l, p).after < 0

Bought(l, p) ==
    [l EXCEPT !.cash   = BuyEvent(l, p).after,
              !.lots   = Append(@, p.lot),
              !.events = Append(@, BuyEvent(l, p))]

PostBuy(p) ==
    \/ BuyRefused(ledger, p)  /\ Refuse(p.lot.acquired)
    \/ ~BuyRefused(ledger, p) /\ Answer(Bought(ledger, p), p.lot.acquired)

(* register_receivable *)

RegisterRefused(l, d, r) ==
    \/ ~ReceivableOK(r)
    \/ r.paid # NoDate
    \/ d \in DOMAIN l.receivables
    \/ Closed(l, r.registered)

Registered(l, d, r) ==
    [l EXCEPT !.receivables = [x \in DOMAIN @ \cup {d} |-> IF x = d THEN r ELSE @[x]]]

RegisterReceivable(d, r) ==
    \/ RegisterRefused(ledger, d, r)  /\ Refuse(r.registered)
    \/ ~RegisterRefused(ledger, d, r) /\ Answer(Registered(ledger, d, r), r.registered)

(* pay_receivables: every receivable due on the date, in PayOrder *)

IsDue(l, d, date) ==
    /\ d \in DOMAIN l.receivables
    /\ l.receivables[d].paid = NoDate
    /\ l.receivables[d].actual = date

PayRefused(l, date) ==
    \/ Closed(l, date)
    \/ OverdueBefore(l, date)
    \/ \E d \in ReceivableIds : IsDue(l, d, date) /\ CashId(d) \in EventIds(l)

Payment(l, d, date) ==
    [id |-> CashId(d), kind |-> "dividend", date |-> date,
     symbol |-> l.receivables[d].symbol, ref |-> d,
     notional |-> l.receivables[d].amount, fees |-> 0,
     before |-> l.cash, after |-> l.cash + l.receivables[d].amount]

PayOne(l, d, date) ==
    [l EXCEPT !.cash   = Payment(l, d, date).after,
              !.events = Append(@, Payment(l, d, date)),
              !.receivables[d].paid = date]

PaidUpTo(l, date) ==
    LET run[k \in 0 .. Len(PayOrder)] ==
            IF k = 0 THEN l
            ELSE IF IsDue(run[k-1], PayOrder[k], date)
                 THEN PayOne(run[k-1], PayOrder[k], date)
                 ELSE run[k-1]
    IN  run
Paid(l, date) == PaidUpTo(l, date)[Len(PayOrder)]

PayReceivables(date) ==
    \/ PayRefused(ledger, date)  /\ Refuse(date)
    \/ ~PayRefused(ledger, date) /\ Answer(Paid(ledger, date), date)

(* close_session *)

CloseRefused(l, date, v) ==
    \/ Closed(l, date)
    \/ l.events # <<>> /\ l.events[Len(l.events)].date > date
    \/ OverdueBy(l, date)
    \/ Sizes(v) # PositionSizes(l, date)

Snapshot(l, date, v) ==
    [date |-> date, cash |-> l.cash, valuations |-> v,
     market |-> MarketValue(v), receivable |-> Outstanding(l, date),
     equity |-> l.cash + MarketValue(v) + Outstanding(l, date)]

ClosedWith(l, date, v) == [l EXCEPT !.snapshots = Append(@, Snapshot(l, date, v))]

CloseSession(date, v) ==
    \/ CloseRefused(ledger, date, v)  /\ Refuse(date)
    \/ ~CloseRefused(ledger, date, v) /\ Answer(ClosedWith(ledger, date, v), date)

=============================================================================
