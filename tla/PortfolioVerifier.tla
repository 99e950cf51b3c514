------------------------- MODULE PortfolioVerifier -------------------------
(***************************************************************************)
(* What src/aquant/portfolio/verify.py and src/aquant/gate_e/audit.py make *)
(* of a finished run.  Both read the rows of an exported run and rebuild   *)
(* it without the runtime that produced it; here the rows are the          *)
(* coordinator's final state, and each group of checks is one operator.    *)
(* Text, types, orders of rows and digests are left out.                   *)
(***************************************************************************)
EXTENDS Coordinator, SequencesExt

Numbers == DOMAIN attempts
FilledNumbers == {k \in Numbers : attempts[k].result = "filled"}

FillId(k)    == <<"fill", attempts[k].symbol, attempts[k].number>>
EventsOf(k)  == {i \in DOMAIN ledger.events : ledger.events[i].id = FillId(k)}
EventOf(k)   == ledger.events[CHOOSE i \in EventsOf(k) : TRUE]
LotsOf(k)    == {i \in DOMAIN ledger.lots : ledger.lots[i].id = EventOf(k).ref}
LotOf(k)     == ledger.lots[CHOOSE i \in LotsOf(k) : TRUE]
Sum(f)       == SumFunction(f)

-----------------------------------------------------------------------------
(* One row at a time *)

Reasons == {"missing_calendar_coverage", "no_next_session_in_range", "suspended_no_bar",
            "missing_previous_close", "price_limit_open", "invalid_lot_size",
            "insufficient_cash", "insufficient_sellable_position", "missing_fee_schedule"}

OrdersParse ==
    \A k \in Numbers :
        LET a == attempts[k] IN
        /\ a.initial % LotSize = 0 /\ a.requested % LotSize = 0 /\ a.requested <= a.initial
        /\ \/ a.result \in Reasons /\ a.evidence = <<>>
           \/ /\ a.result = "filled" /\ a.hasBar /\ a.requested > 0
              /\ a.evidence[1] >= a.evidence[3]
              /\ IF a.initial = a.requested
                 THEN a.evidence[2] = a.evidence[3]
                 ELSE a.evidence[2] > a.evidence[3] /\ a.evidence[1] < a.evidence[2]

FillsParse ==
    \A k \in FilledNumbers :
        /\ Cardinality(EventsOf(k)) = 1 /\ Cardinality(LotsOf(k)) = 1
        /\ LET e == EventOf(k) IN
           /\ e.notional > 0 /\ e.before >= 0 /\ e.after >= 0
           /\ e.notional = NotionalFen(LotOf(k).cost, attempts[k].requested)
           /\ e.after = e.before - e.notional - e.fees
           /\ attempts[k].evidence[1] = e.before
           /\ attempts[k].evidence[3] = e.notional + e.fees

PositionsParse ==
    /\ \A n \in DOMAIN Snapshots : \A y \in DOMAIN Snapshots[n].valuations :
          Snapshots[n].valuations[y].mark > 0
    /\ \A n \in DOMAIN Snapshots : Snapshots[n].market = MarketValue(Snapshots[n].valuations)

LotsParse ==
    \A i \in DOMAIN ledger.lots :
        LET lot == ledger.lots[i] IN
        lot.available > lot.acquired /\ lot.remaining > 0 /\ lot.remaining % LotSize = 0

CashParse ==
    \A i \in DOMAIN ledger.events :
        LET e == ledger.events[i] IN
        /\ e.notional > 0 /\ e.before >= 0 /\ e.after >= 0
        /\ \/ e.kind = "fill" /\ e.after = e.before - e.notional - e.fees
           \/ e.kind = "dividend" /\ e.fees = 0 /\ e.after = e.before + e.notional

EquityParse ==
    /\ Snapshots # <<>>
    /\ \A n \in DOMAIN Snapshots :
          /\ Snapshots[n].equity > 0
          /\ Snapshots[n].equity =
                Snapshots[n].cash + Snapshots[n].market + Snapshots[n].receivable

ReceivablesParse ==
    \A d \in DOMAIN ledger.receivables :
        LET r == ledger.receivables[d] IN
        /\ r.amount > 0 /\ r.registered <= r.payable /\ r.payable <= r.actual
        /\ r.paid \in {NoDate, r.actual}

DividendAmount(d) == NotionalFen(actions[d].perUnit, entitled[d])
DividendsParse ==
    \A d \in DOMAIN entitled :
        actions[d].ex <= actions[d].payable
        /\ actions[d].payable <= ActualCashDate(actions[d].payable)

AvailabilityParse ==
    \A n \in DOMAIN availability :
        LET a == availability[n] IN
        /\ a.mark > 0
        /\ a.reason \in {"bar_close", "cash_dividend", "no_bar_carry"}
        /\ a.reason = "bar_close" => a.carried = 0

-----------------------------------------------------------------------------
(* The rows together *)

AllocationHolds == Len(targets) * TargetFen <= GrossTarget /\ GrossTarget <= InitialCash

AttemptsOf(i) == SelectSeq(attempts, LAMBDA a : a.symbol = SymbolOrder[i])

\* The retry chain of every target, and the state it must leave it in.
AttemptsReconcile ==
    \A i \in DOMAIN targets :
        LET mine == AttemptsOf(i)
            last == mine[Len(mine)]
            full == {k \in DOMAIN mine : mine[k].result = "filled"}
        IN  /\ Len(mine) = targets[i].used /\ mine # <<>> /\ Len(mine) <= MaxAttempts
            /\ mine[1].intent = SignalDate
            /\ \A k \in DOMAIN mine :
                  /\ mine[k].number = k
                  /\ mine[k].intent < mine[k].session /\ mine[k].session <= EndDate
                  /\ k > 1 => mine[k].intent = mine[k - 1].session
                  /\ mine[k].hasBar = (mine[k].result # "suspended_no_bar")
            /\ CASE targets[i].status = "filled"  -> full = {Len(mine)}
                 [] targets[i].status = "expired" -> full = {} /\ Len(mine) = MaxAttempts
                 [] OTHER -> /\ full = {} /\ Len(mine) < MaxAttempts
                             /\ last.session = EndDate

\* Orders, fills, cash events and lots are the same fills four times over.
FillsReconcile ==
    /\ \A k \in FilledNumbers :
          LET e == EventOf(k)
              lot == LotOf(k)
              a == attempts[k]
          IN  /\ e.kind = "fill" /\ e.symbol = a.symbol /\ e.date = a.session
              /\ lot.symbol = a.symbol /\ lot.acquired = a.session
              /\ lot.remaining = a.requested
    /\ {ledger.events[i].ref : i \in {x \in DOMAIN ledger.events :
                                        ledger.events[x].kind = "fill"}}
          = {ledger.lots[i].id : i \in DOMAIN ledger.lots}
    /\ Cardinality(FilledNumbers) = Len(ledger.lots)

\* Fees recomputed from the notional and a published rate.
OnNotional(fen, rate) == HalfUp(fen * rate, 100000)
FeesRecomputed ==
    \A k \in FilledNumbers :
        LET y     == attempts[k].symbol
            fen   == EventOf(k).notional
            rated == OnNotional(fen, CommissionRate[Kind[y]])
            commission == IF rated < CommissionMin[Kind[y]] THEN CommissionMin[Kind[y]]
                                                            ELSE rated
        IN  IF Kind[y] = "stock"
            THEN \E r \in TransferFee : EventOf(k).fees = commission + OnNotional(fen, r.rate)
            ELSE EventOf(k).fees = commission

\* The cash chain: of the events left in the earliest session exactly one must
\* start from the running cash.
NextLink(chain, ignored) ==
    LET today == Min({ledger.events[i].date : i \in chain.pending})
        links == {i \in chain.pending : /\ ledger.events[i].date = today
                                        /\ ledger.events[i].before = chain.running}
        link  == CHOOSE i \in links : TRUE
    IN  IF chain.broken \/ Cardinality(links) # 1
        THEN [chain EXCEPT !.broken = TRUE]
        ELSE [pending |-> chain.pending \ {link}, running |-> ledger.events[link].after,
              broken |-> FALSE]
CashChain ==
    FoldLeft(NextLink, [pending |-> DOMAIN ledger.events, running |-> InitialCash,
                        broken |-> FALSE], ledger.events)

ReceivablesReconcile ==
    /\ DOMAIN ledger.receivables = {d \in DOMAIN entitled : DividendAmount(d) > 0}
    /\ \A d \in DOMAIN ledger.receivables :
          LET r == ledger.receivables[d] IN
          /\ r.symbol = actions[d].symbol /\ r.registered = actions[d].ex
          /\ r.payable = actions[d].payable /\ r.actual = ActualCashDate(r.payable)
          /\ r.amount = DividendAmount(d)
    /\ \A d \in DOMAIN ledger.receivables :
          LET r == ledger.receivables[d]
              payments == {i \in DOMAIN ledger.events :
                             ledger.events[i].kind = "dividend" /\ ledger.events[i].ref = d}
          IN  /\ (r.paid # NoDate) = (payments # {})
              /\ \A i \in payments : PaymentMatches(ledger.events[i], r)

\* Every symbol's marks from session to session: without a bar the mark is the
\* one before less the dividends of the session, and counted as carried.
MarksChain ==
    \A y \in Symbols :
        LET mine == SelectSeq(availability, LAMBDA a : a.symbol = y)
            due(date) == Sum([d \in {x \in DOMAIN entitled :
                                actions[x].symbol = y /\ actions[x].ex = date}
                              |-> actions[d].perUnit])
        IN  /\ [n \in DOMAIN mine |-> mine[n].session]
                  = [n \in DOMAIN Snapshots |-> Snapshots[n].date]
            /\ \A n \in DOMAIN mine : mine[n].reason # "bar_close" =>
                  /\ mine[n].carried = (IF n = 1 THEN 0 ELSE mine[n - 1].carried) + 1
                  /\ mine[n].reason = IF due(mine[n].session) > 0 THEN "cash_dividend"
                                                                  ELSE "no_bar_carry"
                  /\ n > 1 => mine[n].mark = mine[n - 1].mark - due(mine[n].session)

\* Cash, positions, marks and receivables of every day, from lots and events.
DailyAccount ==
    \A n \in DOMAIN Snapshots :
        LET s == Snapshots[n]
            before == {i \in DOMAIN ledger.events : ledger.events[i].date <= s.date}
            moved(i) == ledger.events[i].after - ledger.events[i].before
        IN  /\ s.cash = InitialCash + Sum([i \in before |-> moved(i)])
            /\ Sizes(s.valuations) = PositionSizes(ledger, s.date)
            /\ \A y \in DOMAIN s.valuations : \E k \in DOMAIN availability :
                  /\ availability[k].session = s.date /\ availability[k].symbol = y
                  /\ availability[k].mark = s.valuations[y].mark
            /\ s.receivable = Outstanding(ledger, s.date)

Verifies ==
    /\ OrdersParse /\ FillsParse /\ PositionsParse /\ LotsParse /\ CashParse
    /\ EquityParse /\ ReceivablesParse /\ DividendsParse /\ AvailabilityParse
    /\ AllocationHolds /\ AttemptsReconcile /\ FillsReconcile /\ FeesRecomputed
    /\ ~CashChain.broken /\ CashChain.running = Snapshots[Len(Snapshots)].cash
    /\ ReceivablesReconcile /\ MarksChain /\ DailyAccount

-----------------------------------------------------------------------------
(* The accounting audit of a gate's evidence *)

\* Nothing happened after the end date; only plans may lie beyond it.
DateBoundary ==
    /\ \A k \in Numbers : attempts[k].session <= EndDate
    /\ \A i \in DOMAIN ledger.lots : ledger.lots[i].acquired <= EndDate
    /\ \A i \in DOMAIN ledger.events : ledger.events[i].date <= EndDate
    /\ \A n \in DOMAIN availability : availability[n].session <= EndDate
    /\ \A d \in DOMAIN ledger.receivables :
          /\ ledger.receivables[d].registered <= EndDate
          /\ ledger.receivables[d].paid <= EndDate
    /\ Snapshots[Len(Snapshots)].date = EndDate

\* Initial cash less notionals and fees plus dividends is the ending cash, and
\* the ending equity is cash, ending positions and unpaid receivables.
AccountingHolds ==
    LET fills == {i \in DOMAIN ledger.events : ledger.events[i].kind = "fill"}
        paid  == DOMAIN ledger.events \ fills
        end   == Snapshots[Len(Snapshots)]
        owed  == {d \in DOMAIN ledger.receivables : ledger.receivables[d].paid = NoDate}
    IN  /\ end.cash = InitialCash
              - Sum([i \in fills |-> ledger.events[i].notional + ledger.events[i].fees])
              + Sum([i \in paid |-> ledger.events[i].notional])
        /\ end.receivable = Sum([d \in owed |-> ledger.receivables[d].amount])
        /\ end.equity = end.cash + MarketValue(end.valuations) + end.receivable

\* Where the gross target went: invested, or left over for one of five reasons.
CategoriesConserve ==
    LET with(status) == {i \in DOMAIN targets : targets[i].status = status}
        uninvested   == TargetFen * Cardinality(with("pending") \cup with("expired"))
        first        == [k \in FilledNumbers |->
                            NotionalFen(LotOf(k).cost, attempts[k].initial)]
        invested     == [k \in FilledNumbers |-> EventOf(k).notional]
        ordinary     == [k \in FilledNumbers |-> TargetFen - first[k]]
        reduction    == [k \in FilledNumbers |-> first[k] - invested[k]]
    IN  /\ \A k \in FilledNumbers : ordinary[k] >= 0 /\ reduction[k] >= 0
        /\ GrossTarget = Sum(invested) + (GrossTarget - TargetFen * Len(targets))
                         + Sum(ordinary) + Sum(reduction) + uninvested

AuditHolds == DateBoundary /\ AccountingHolds /\ CategoriesConserve

-----------------------------------------------------------------------------
(* The metrics of the runtime's own result (portfolio/metrics.py) read the  *)
(* attempts again, and refuse a fill whose reduction they cannot account    *)
(* for or a day without positive equity.                                    *)

ReductionAccounted(k) ==
    LET a       == attempts[k]
        price   == LotOf(k).cost
        first   == NotionalFen(price, a.initial)
        reduced == first - EventOf(k).notional
    IN  /\ a.evidence[2] >= first
        /\ reduced = IF a.initial = a.requested THEN 0
                     ELSE NotionalFen(price, a.initial - a.requested)
        /\ a.initial # a.requested =>
              a.evidence[1] \in a.evidence[3] .. a.evidence[2] - 1
        /\ TargetFen >= first

AllocationComponents ==
    /\ \A i \in DOMAIN targets :
          targets[i].status = "pending" => targets[i].used > 0
    /\ \A k \in FilledNumbers : ReductionAccounted(k)
    /\ {EventOf(k).id : k \in FilledNumbers}
          = {<<"fill", SymbolOrder[i], targets[i].used>> :
               i \in {x \in DOMAIN targets : targets[x].status = "filled"}}

EquityStaysPositive == \A n \in DOMAIN Snapshots : Snapshots[n].equity > 0

MetricsHold == AllocationComponents /\ EquityStaysPositive

-----------------------------------------------------------------------------
(* Properties *)

\* Two cash events of one session start from the same cash.  It takes a payment
\* that a fill of the session spends to the fen: the chain is then ambiguous and
\* the verifier refuses the run, whatever its rows say.
CashLevelRepeats ==
    \E i, j \in DOMAIN ledger.events :
        /\ i < j /\ ledger.events[i].date = ledger.events[j].date
        /\ ledger.events[i].before = ledger.events[j].before

\* Whatever bars, suspensions, limits, dividends and retries a run went through,
\* a run that finished has metrics, and its artifact passes the independent
\* verification and the accounting audit: no legal run is refused after the
\* fact, unless the order of its cash events cannot be told from their balances.
FinishedRunsVerify ==
    phase = "done" => MetricsHold /\ ((Verifies /\ AuditHolds) \/ CashLevelRepeats)

=============================================================================
