----------------------------- MODULE ResearchLoop -----------------------------
(***************************************************************************)
(* One path of src/aquant/research/loop.py (_simulate_path for one symbol, *)
(* _simulate_a4_3_path for two): every session first rebalances, at the    *)
(* open, to the plan made at the last close, then posts dividends, closes  *)
(* the day, and makes a plan for the next.  The phases of a session are    *)
(*    "open"       read the bars, size the dividends of the ex-date,       *)
(*    "start", "trade"   Rebalance, when a plan is pending,                *)
(*    "register", "pay"  the dividends,                                    *)
(*    "close"      the daily close,                                        *)
(*    "plan"       signal and Planner.                                     *)
(* A signal is any function of the past: what it says is picked when it is *)
(* asked.  The loop registers and pays receivables itself; the rolling     *)
(* ledger has no such operation.                                           *)
(***************************************************************************)
EXTENDS Rebalance

CONSTANTS
    FirstSession, LastSession,      \* the simulated sessions
    LastBar,          \* the last session of the market data
    Bars,             \* set of [open, close] a session may show
    Dividends,        \* event ids -> [symbol, record, ex, payable, perUnit]
    Decisions,        \* what a strategy may say: functions from symbols to weights
    Benchmark         \* what the benchmark says once: such a function

ASSUME LoopAssumption ==
    /\ {FirstSession, LastSession} \subseteq Calendar /\ FirstSession < LastSession
    /\ NextSession(LastSession) # NoDate                  \* the settlement buffer
    /\ \/ LastBar = LastSession
       \/ LastBar = NextSession(LastSession) /\ NextSession(LastBar) = NoDate
    /\ Bars \subseteq [open : Nat \ {0}, close : Nat \ {0}]
    /\ DOMAIN Dividends \subseteq ReceivableIds
    /\ \A d \in DOMAIN Dividends :
          /\ Dividends[d].symbol \in Symbols
          /\ {Dividends[d].record, Dividends[d].ex, Dividends[d].payable,
              Dividends[d].perUnit} \subseteq Nat
          /\ Dividends[d].record < Dividends[d].ex
          /\ Dividends[d].ex <= Dividends[d].payable
          /\ Dividends[d].payable <= LastBar => Dividends[d].payable \in Calendar

VARIABLES
    path,       \* "strategy" or "benchmark"
    marks,      \* the last close of each symbol
    owed,       \* the session's dividends, sized before the open
    pending,    \* the plan is to be executed at the next open
    retry,      \* the last rebalance left a target unmet
    entitled    \* the dividend audit: entitled size by event id

loopVars == <<path, marks, owed, pending, retry, entitled>>
vars == <<ledgerVars, callVars, loopVars>>

None == [s \in {} |-> 0]

Init ==
    /\ ledger = CreateRollingLedger(InitialCash) /\ reply = "ok" /\ asOf = NoDate
    /\ phase = "open" /\ failure = "none"
    /\ plan = NoPlan /\ session = NoDate
    /\ quotes = [y \in Symbols |-> NoBar]
    /\ equity = 0 /\ todo = <<>> /\ attempts = <<>>
    /\ path \in {"strategy", "benchmark"}
    /\ marks = [y \in Symbols |-> 0]
    /\ owed = <<>> /\ pending = FALSE /\ retry = FALSE
    /\ entitled = None

-----------------------------------------------------------------------------
(* Opening a session *)

DividendsOn(y, date) ==
    SumFunction([d \in {x \in DOMAIN Dividends :
                          Dividends[x].symbol = y /\ Dividends[x].ex = date}
                 |-> Dividends[d].perUnit])

\* A bar carries the close before it, less the ex-date's dividends, as its
\* reference price; the first has none.
Quote(y, date, bar) ==
    [reference |-> IF marks[y] = 0 THEN 0 ELSE marks[y] - DividendsOn(y, date),
     open |-> bar.open, close |-> bar.close]

\* derive_price_streams insists on a bar on every ex- and payable date, and on
\* a positive reference price; the simulation starts, and the market data of all
\* symbols end, on a session with bars.
NeedsBar(y, date) ==
    \/ date \in {FirstSession, LastBar}
    \/ \E d \in DOMAIN Dividends :
          Dividends[d].symbol = y /\ date \in {Dividends[d].ex, Dividends[d].payable}
SessionQuotes(date) ==
    {q \in [Symbols -> {NoBar} \cup UNION {{Quote(y, date, b) : b \in Bars} : y \in Symbols}] :
        \A y \in Symbols :
           \/ q[y] = NoBar /\ ~NeedsBar(y, date)
           \/ /\ \E b \in Bars : q[y] = Quote(y, date, b)
              /\ q[y].reference > 0 \/ date = FirstSession}

\* Shares still held of lots bought on or before the record date.
EntitledOnExDate(y, record) ==             \* mutation: forgets the record date
    Realized(ledger, y)
EntitledSize(y, record) ==
    SizeOf(ledger.lots, {k \in LotsOf(ledger, y) : ledger.lots[k].acquired <= record})

ActualCashDate(payable) == IF payable \in Calendar THEN payable ELSE NextSession(payable)

ExToday(date) ==
    Among(PayOrder, {d \in DOMAIN Dividends : Dividends[d].ex = date})

Entitlement(d) == EntitledSize(Dividends[d].symbol, Dividends[d].record)
AmountOf(d) == NotionalFen(Dividends[d].perUnit, Entitlement(d))

ReceivableOf(d, date) ==
    [symbol |-> Dividends[d].symbol, registered |-> date, payable |-> Dividends[d].payable,
     actual |-> ActualCashDate(Dividends[d].payable), amount |-> AmountOf(d), paid |-> NoDate]

OpenSession ==
    /\ phase = "open"
    /\ session' = IF session = NoDate THEN FirstSession ELSE NextSession(session)
    /\ LET today == ExToday(session')
           due   == Among(today, {d \in ToSet(today) : AmountOf(d) > 0})
       IN  /\ quotes' \in SessionQuotes(session')
           /\ marks' = [y \in Symbols |->
                          IF quotes'[y] = NoBar THEN marks[y] ELSE quotes'[y].close]
           /\ \/ /\ \E d \in ToSet(today) : ActualCashDate(Dividends[d].payable) = NoDate
                 /\ Fail("missing_calendar_coverage")
                 /\ UNCHANGED <<owed, entitled>>
              \/ /\ \A d \in ToSet(today) : ActualCashDate(Dividends[d].payable) # NoDate
                 /\ owed' = [i \in DOMAIN due |-> <<due[i], ReceivableOf(due[i], session')>>]
                 /\ entitled' = [d \in DOMAIN entitled \cup ToSet(today) |->
                                   IF d \in ToSet(today) THEN Entitlement(d) ELSE entitled[d]]
                 /\ phase' = IF pending THEN "start" ELSE "register"
                 /\ UNCHANGED failure
    /\ retry' = IF pending THEN retry ELSE FALSE
    /\ UNCHANGED <<ledgerVars, plan, equity, todo, attempts, path, pending>>

-----------------------------------------------------------------------------
(* Rebalancing at the open *)

Start  == phase = "start" /\ StartRebalance /\ UNCHANGED loopVars
Trade  == TryAttempt /\ UNCHANGED loopVars
Finish ==
    /\ FinishRebalance("register")
    /\ retry' = (\E y \in DOMAIN plan.targets : ~Aligned(ledger, y))
    /\ UNCHANGED <<path, marks, owed, pending, entitled>>

-----------------------------------------------------------------------------
(* Dividends, after the open, so that the cash cannot fund it *)

Register ==
    /\ phase = "register"
    /\ \/ /\ owed = <<>>
          /\ phase' = "pay"
          /\ UNCHANGED <<ledgerVars, failure, owed>>
       \/ /\ owed # <<>>
          /\ LET d == Head(owed)[1]
                 r == Head(owed)[2]
             IN  \/ d \in DOMAIN ledger.receivables /\ Refuse(session)
                 \/ /\ d \notin DOMAIN ledger.receivables
                    /\ RollingAnswer(Registered(ledger, d, r), session)
          /\ owed' = Tail(owed)
          /\ ThenGoTo("register")
    /\ UNCHANGED <<plan, session, quotes, equity, todo, attempts,
                   path, marks, pending, retry, entitled>>

Pay ==
    /\ phase = "pay"
    /\ \/ /\ \/ OverdueBefore(ledger, session)
             \/ \E d \in ReceivableIds :
                   IsDue(ledger, d, session) /\ CashId(d) \in EventIds(ledger)
          /\ Refuse(session)
       \/ /\ ~OverdueBefore(ledger, session)
          /\ ~\E d \in ReceivableIds :
                IsDue(ledger, d, session) /\ CashId(d) \in EventIds(ledger)
          /\ RollingAnswer(Paid(ledger, session), session)
    /\ ThenGoTo("close")
    /\ UNCHANGED <<plan, session, quotes, equity, todo, attempts, loopVars>>

-----------------------------------------------------------------------------
(* The close, and the plan for the next open *)

ValuationsAtBars ==                        \* mutation: no price is carried over a suspension
    [y \in Held(ledger) |->
        [total     |-> Realized(ledger, y),
         available |-> SizeOf(ledger.lots, SellableLots(ledger, y, session)),
         mark      |-> quotes[y].close]]
Valuations ==
    [y \in Held(ledger) |->
        [total     |-> Realized(ledger, y),
         available |-> SizeOf(ledger.lots, SellableLots(ledger, y, session)),
         mark      |-> marks[y]]]

CloseWhenHeld ==                           \* mutation: no close without a position
    /\ phase = "close"
    /\ \/ Held(ledger) = {} /\ phase' = "plan" /\ UNCHANGED <<ledgerVars, failure>>
       \/ Held(ledger) # {} /\ CloseRollingSession(session, Valuations) /\ ThenGoTo("plan")
    /\ UNCHANGED <<plan, session, quotes, equity, todo, attempts, loopVars>>
Close ==
    /\ phase = "close"
    /\ CloseRollingSession(session, Valuations)
    /\ ThenGoTo("plan")
    /\ UNCHANGED <<plan, session, quotes, equity, todo, attempts, loopVars>>

DataAvailable == \A y \in Symbols : quotes[y] # NoBar

\* A signal is asked only when every bar is there; the benchmark speaks once.
Outputs ==
    IF path = "benchmark" THEN {IF plan = NoPlan THEN Benchmark ELSE None}
    ELSE IF DataAvailable THEN Decisions ELSE {None}

MakePlan ==
    /\ phase = "plan"
    /\ \E output \in Outputs :
          LET next    == PlanTargets(session, output, plan)
              differs == plan = NoPlan \/ next.targets # plan.targets
              last    == session = LastSession
          IN  \/ /\ PlanRefused(session, output, plan, Symbols)
                 /\ Fail("planner")
                 /\ UNCHANGED <<plan, pending>>
              \/ /\ ~PlanRefused(session, output, plan, Symbols)
                 /\ plan' = next
                 /\ pending' = ((differs \/ retry) /\ ~last)
                 /\ phase' = IF last THEN "done" ELSE "open"
                 /\ UNCHANGED failure
    /\ UNCHANGED <<ledgerVars, session, quotes, equity, todo, attempts,
                   path, marks, owed, retry, entitled>>

Next == OpenSession \/ Start \/ Trade \/ Finish \/ Register \/ Pay \/ Close \/ MakePlan

\* One thread runs the loop to its end.
Spec == Init /\ [][Next]_vars /\ WF_vars(Next)

-----------------------------------------------------------------------------
(* Properties *)

LoopTypeOK ==
    /\ phase \in {"open", "start", "trade", "register", "pay", "close", "plan",
                  "done", "failed"}
    /\ (phase = "failed") = (failure # "none")
    /\ session \in Calendar \cup {NoDate}
    /\ \A i \in DOMAIN todo : todo[i].requested > 0
    /\ marks \in [Symbols -> Nat]

\* Nothing the loop does trips the checks of the layers it calls: the close it
\* takes always precedes the rebalance, no state of the ledger is later than the
\* plan, every lot is available on its official session, every call of the
\* rolling ledger replays, every result matches its ledger, and no merged plan
\* breaks a limit.  Only a calendar or a fee schedule that does not reach the
\* session ends a path early.
LayersNeverObject ==
    /\ LoopTypeOK
    /\ failure \in {"none", "rule_contract_rejected", "missing_calendar_coverage"}
    /\ failure = "rule_contract_rejected" =>
          \E y \in Symbols, side \in {"buy", "sell"} : MissingSchedule(y, side, session)
    /\ failure = "missing_calendar_coverage" =>
          \E d \in ToSet(ExToday(session)) : ActualCashDate(Dividends[d].payable) = NoDate

\* Trading stops short of a target only for the market or for cash.  A sell
\* goes through whole or not at all, since everything held at the close of the
\* plan can be sold at the next open; a buy is cut only to where one more board
\* lot could not be paid, with what the sells before it brought in.
AttemptsGoAsFarAsTheyCan ==
    phase = "trade" => \A i \in DOMAIN attempts :
        LET a     == attempts[i]
            bar   == quotes[a.symbol]
            price == bar.open
            cost(size) == NotionalFen(price, size)
                          + TotalFees(a.symbol, "buy", session, price, size)
            shut  == bar = NoBar \/ LimitOpen(a.symbol, a.side, bar.reference, price)
        IN  /\ shut <=> a.result \in {"suspended_no_bar", "price_limit_open"}
            /\ a.side = "sell" /\ ~shut => a.filled = a.requested
            /\ a.side = "buy" /\ ~shut /\ a.filled < a.requested =>
                  a.cashBefore < cost(a.filled + LotSize)

\* A missed target is not forgotten: when no rebalance is pending, a symbol whose
\* target is zero is no longer held, however often its sells met a suspension
\* or a price limit.
FlatTargetsEndFlat ==
    phase = "open" /\ ~pending =>
        \A y \in DOMAIN plan.targets : plan.targets[y] = 0 => Realized(ledger, y) = 0

\* A dividend is owed on no more than the account held at the close of the
\* record date, and on exactly that when the ex-date is the next session, even
\* when the shares are sold at the open of the ex-date; shares sold between a
\* record date and a later ex-date lose it.
EntitlementFollowsRecordDate ==
    \A d \in DOMAIN entitled :
        LET y    == Dividends[d].symbol
            upTo == {i \in DOMAIN ledger.snapshots :
                        ledger.snapshots[i].date <= Dividends[d].record}
            held == IF upTo = {} \/ y \notin DOMAIN ledger.snapshots[Max(upTo)].valuations
                    THEN 0 ELSE ledger.snapshots[Max(upTo)].valuations[y].total
        IN  /\ entitled[d] <= held
            /\ NextSession(Dividends[d].record) = Dividends[d].ex => entitled[d] = held

\* Every path whose calendar covers its dividends closes every one of its
\* sessions.
PathCompletes ==
    <>(/\ phase = "done"
       /\ {ledger.snapshots[i].date : i \in DOMAIN ledger.snapshots}
             = {s \in Calendar : FirstSession <= s /\ s <= LastSession})

\* docs/research_loop_v1.md:28: after its one initial target the benchmark is
\* never actively rebalanced.
BenchmarkNeverRebalances ==
    path = "benchmark" => \A i, j \in DOMAIN ledger.events :
        /\ ledger.events[i].kind # "sell"
        /\ ledger.events[i].kind = "fill" /\ ledger.events[j].kind = "fill"
        /\ ledger.events[i].symbol = ledger.events[j].symbol
        => i = j

=============================================================================
