------------------------------ MODULE Rebalance ------------------------------
(***************************************************************************)
(* rebalance_to_plan of src/aquant/rolling/orchestration.py: from a plan   *)
(* made at the close of one session to fills at the open of the next.      *)
(*    StartRebalance   checks the ledger and the inputs against the plan   *)
(*                     and sizes the targets on the equity of the close,   *)
(*    TryAttempt       makes the next attempt: first the sells, then the   *)
(*                     buys, each in symbol order,                         *)
(*    FinishRebalance  checks the result against the ledger.               *)
(* The ledger is RollingLedger's.  An exception ends the call and whatever *)
(* called it; nothing is handed back.                                      *)
(***************************************************************************)
EXTENDS RollingLedger, Planner, SequencesExt

CONSTANT SymbolOrder    \* the universe as a sequence, in symbol order

ASSUME SymbolOrderAssumption ==
    /\ SymbolOrder \in Seq(Symbols)
    /\ \A i, j \in DOMAIN SymbolOrder : SymbolOrder[i] = SymbolOrder[j] => i = j
    /\ \A y \in Symbols : \E i \in DOMAIN SymbolOrder : SymbolOrder[i] = y

VARIABLES
    phase,      \* where the call, and its caller, are
    failure,    \* the code of the exception that ended them
    plan,       \* the effective plan, as of the close of the session before
    session,    \* the session whose open executes it
    quotes,     \* by symbol [reference, open, close], or NoBar
    equity,     \* of the account at the close of the plan
    todo,       \* attempts still to make
    attempts    \* attempts made by this call

callVars == <<phase, failure, plan, session, quotes, equity, todo, attempts>>

NoBar == [reference |-> 0, open |-> 0, close |-> 0]

Fail(code) == phase' = "failed" /\ failure' = code
ThenGoTo(next) ==
    \/ reply' = "ok" /\ phase' = next /\ UNCHANGED failure
    \/ reply' # "ok" /\ Fail("ledger")

\* The elements of a sequence that are in the set, in their order (SelectSeq, with
\* a set for its test).
Among(s, S) ==
    LET run[i \in 0 .. Len(s)] ==
            IF i = 0 THEN <<>>
            ELSE IF s[i] \in S THEN Append(run[i-1], s[i]) ELSE run[i-1]
    IN  run[Len(s)]

-----------------------------------------------------------------------------
(* Sizing *)

Realized(l, y) == SizeOf(l.lots, LotsOf(l, y))
Held(l) == {y \in Symbols : Realized(l, y) > 0}

Unknown == -1      \* the target shares of a symbol without an open price

\* The weight's share of equity, exactly, down to whole board lots at the open.
TargetShares(y, fen) ==
    IF plan.targets[y] = 0 THEN 0
    ELSE IF quotes[y] = NoBar THEN Unknown
    ELSE LotSize * ((plan.targets[y] * fen) \div (10 * quotes[y].open * LotSize))

AlignedWhenQuoted(l, y) ==                 \* mutation: nothing to retry without a bar
    quotes[y] = NoBar \/ TargetShares(y, equity) = Realized(l, y)
Aligned(l, y) == TargetShares(y, equity) = Realized(l, y)

\* One attempt for each symbol whose target is known and not met.
Wanting(side, l, fen) ==
    LET delta(y) == TargetShares(y, fen) - Realized(l, y)
        wanted   == {y \in DOMAIN plan.targets :
                        /\ TargetShares(y, fen) # Unknown
                        /\ IF side = "sell" THEN delta(y) < 0 ELSE delta(y) > 0}
        asked(y) == [side |-> side, symbol |-> y, before |-> Realized(l, y),
                     requested |-> IF side = "sell" THEN -delta(y) ELSE delta(y)]
        mine     == Among(SymbolOrder, wanted)
    IN  [i \in DOMAIN mine |-> asked(mine[i])]

Staged(l, fen) == Wanting("sell", l, fen) \o Wanting("buy", l, fen)

-----------------------------------------------------------------------------
(* Preconditions *)

PostPlanState(l, asOfPlan) ==
    \/ \E i \in DOMAIN l.events : l.events[i].date > asOfPlan
    \/ \E k \in DOMAIN l.lots : l.lots[k].acquired > asOfPlan
    \/ \E d \in DOMAIN l.receivables : l.receivables[d].registered > asOfPlan

Pristine(l) == l = CreateRollingLedger(l.initial)

\* _equity_at_plan_close
EquityAtClose(l) ==
    IF l.snapshots = <<>> THEN l.initial ELSE l.snapshots[Len(l.snapshots)].equity

LotsOnCalendar(l) ==
    \A k \in DOMAIN l.lots : l.lots[k].remaining > 0 =>
        /\ l.lots[k].acquired \in Calendar
        /\ l.lots[k].available = NextSession(l.lots[k].acquired)
        /\ l.lots[k].available # NoDate

StartRefusals(l) ==
    << <<plan.asOf \notin Calendar, "missing_calendar_coverage">>,
       <<NextSession(plan.asOf) = NoDate, "no_next_session_in_range">>,
       <<PostPlanState(l, plan.asOf), "post_plan_ledger_state">>,
       <<l.snapshots # <<>> /\ l.snapshots[Len(l.snapshots)].date # plan.asOf,
         "missing_plan_close_snapshot">>,
       <<l.snapshots = <<>> /\ ~Pristine(l), "non_pristine_without_snapshot">>,
       <<~LotsOnCalendar(l), "lot_availability_binding_mismatch">>,
       <<session # NextSession(plan.asOf), "invalid_execution_input">>,
       <<~(Held(l) \subseteq DOMAIN plan.targets), "held_symbol_missing_from_plan">>,
       <<EquityAtClose(l) <= 0, "invalid_equity">>,
       <<Gross(plan.targets) > MaxGross, "max_gross_exceeded">> >>

StartRebalance ==
    LET failing == {i \in DOMAIN StartRefusals(ledger) : StartRefusals(ledger)[i][1]}
    IN  /\ \/ /\ failing = {}
              /\ equity' = EquityAtClose(ledger)
              /\ todo' = Staged(ledger, EquityAtClose(ledger))
              /\ attempts' = <<>>
              /\ phase' = "trade"
              /\ UNCHANGED failure
           \/ /\ failing # {}
              /\ Fail(StartRefusals(ledger)[Min(failing)][2])
              /\ UNCHANGED <<equity, todo, attempts>>
        /\ UNCHANGED <<ledgerVars, plan, session, quotes>>

-----------------------------------------------------------------------------
(* Attempts *)

\* The attempt id names plan, session, side and symbol; the fill and the lot
\* it may lead to carry the same id.
AttemptId(t) == <<t.side, t.symbol, plan.asOf>>

Order(t, size) ==
    [symbol |-> t.symbol, side |-> t.side, signal |-> plan.asOf, size |-> size,
     previousClose |-> quotes[t.symbol].reference, open |-> quotes[t.symbol].open,
     hasBar |-> TRUE, cash |-> ledger.cash,
     lots |-> SelectSeq(ledger.lots, LAMBDA x : x.symbol = t.symbol)]

Decision(t, size) == EvaluateOrder(Order(t, size))

\* The size a sell goes for: what can be sold, if that is a valid part of the
\* position; and a buy: board lot by board lot down to what cash allows.
SellSizeAtSignal(t) ==                     \* mutation: sellable when the plan was made
    LET sellable == SizeOf(ledger.lots, SellableLots(ledger, t.symbol, plan.asOf))
        size     == Min({t.requested, sellable})
    IN  IF ValidSellSize(Realized(ledger, t.symbol), size) THEN size ELSE 0
SellSize(t) ==
    LET sellable == SizeOf(ledger.lots, SellableLots(ledger, t.symbol, session))
        size     == Min({t.requested, sellable})
    IN  IF ValidSellSize(Realized(ledger, t.symbol), size) THEN size ELSE 0
BuySize(t) ==
    LET sizes == {k * LotSize : k \in 1 .. t.requested \div LotSize}
        open  == {size \in sizes : Decision(t, size) # "insufficient_cash"}
    IN  IF open = {} THEN 0 ELSE Max(open)

Attempt(t, feasible, filled, result) ==
    [id |-> AttemptId(t), side |-> t.side, symbol |-> t.symbol, before |-> t.before,
     requested |-> t.requested, feasible |-> feasible, filled |-> filled,
     result |-> result, cashBefore |-> ledger.cash, cashAfter |-> ledger'.cash]

Note(t, feasible, filled, result) ==
    /\ attempts' = Append(attempts, Attempt(t, feasible, filled, result))
    /\ todo' = Tail(todo)

Reject(t, feasible, reason) ==
    /\ UNCHANGED <<ledgerVars, phase, failure>>
    /\ Note(t, feasible, 0, reason)

Fees(t, size) == TotalFees(t.symbol, t.side, session, quotes[t.symbol].open, size)

FillSell(t, size) ==
    /\ PostRollingSell([event |-> AttemptId(t), date |-> session, symbol |-> t.symbol,
                        size |-> size, price |-> quotes[t.symbol].open,
                        fees |-> Fees(t, size)])
    /\ Note(t, size, size, "filled")
    /\ ThenGoTo("trade")

FillBuy(t, size) ==
    /\ PostRollingBuy([event |-> AttemptId(t), fees |-> Fees(t, size),
                       lot |-> [id |-> AttemptId(t), symbol |-> t.symbol,
                                acquired |-> session, available |-> NextSession(session),
                                remaining |-> size, cost |-> quotes[t.symbol].open]])
    /\ Note(t, size, size, "filled")
    /\ ThenGoTo("trade")

\* A rule may only object to the price or the cash; anything else is a breach
\* of the contract between planner and rules.
Objections == {"price_limit_open", "insufficient_cash"}
Decided(t, size, decision) ==
    \/ decision = "allowed" /\ t.side = "sell" /\ FillSell(t, size)
    \/ decision = "allowed" /\ t.side = "buy"  /\ FillBuy(t, size)
    \/ decision \in Objections /\ Reject(t, size, decision)
    \/ /\ decision \notin Objections \cup {"allowed"}
       /\ Fail("rule_contract_rejected")
       /\ UNCHANGED <<ledgerVars, todo, attempts>>

TryAttempt ==
    /\ phase = "trade" /\ todo # <<>>
    /\ LET t == Head(todo) IN
          \/ quotes[t.symbol] = NoBar /\ Reject(t, 0, "suspended_no_bar")
          \/ /\ quotes[t.symbol] # NoBar /\ t.side = "sell"
             /\ \E size \in {SellSize(t)} :
                   \/ size = 0 /\ Reject(t, 0, "insufficient_sellable_position")
                   \/ size > 0 /\ Decided(t, size, Decision(t, size))
          \/ /\ quotes[t.symbol] # NoBar /\ t.side = "buy"
             /\ \E size \in {BuySize(t)} :
                   Decided(t, size, Decision(t, IF size = 0 THEN LotSize ELSE size))
    /\ UNCHANGED <<plan, session, quotes, equity>>

-----------------------------------------------------------------------------
(* The result.  RollingRebalanceResult checks its attempts and its targets *)
(* against the ledger it carries.                                          *)

AttemptHolds(a) ==
    /\ a.requested > 0 /\ a.feasible \in 0 .. a.requested /\ a.filled \in 0 .. a.feasible
    /\ IF a.result = "filled" THEN a.filled = a.feasible /\ a.filled > 0
       ELSE a.filled = 0 /\ a.cashAfter = a.cashBefore

FilledAttempts == {i \in DOMAIN attempts : attempts[i].result = "filled"}
EventsAfterPlan(l) == {i \in DOMAIN l.events : l.events[i].date > plan.asOf}

FillRecorded(l, a) ==
    \E i \in EventsAfterPlan(l) :
        LET e == l.events[i] IN
        /\ e.id = a.id /\ e.symbol = a.symbol
        /\ e.before = a.cashBefore /\ e.after = a.cashAfter
        /\ a.side = "sell" => e.kind = "sell" /\ e.size = a.filled
        /\ a.side = "buy"  => /\ e.kind = "fill"
                              /\ \E k \in DOMAIN l.lots :
                                    /\ l.lots[k].id = e.ref
                                    /\ l.lots[k].acquired = session
                                    /\ l.lots[k].original = a.filled

InPhaseOrder(a, b) ==
    LET place(y) == CHOOSE i \in DOMAIN SymbolOrder : SymbolOrder[i] = y
    IN  \/ a.side = "sell" /\ b.side = "buy"
        \/ a.side = b.side /\ place(a.symbol) < place(b.symbol)

ResultHolds ==
    /\ RollingVerified(ledger)
    /\ Held(ledger) \subseteq DOMAIN plan.targets
    /\ \A i \in DOMAIN attempts :
          /\ AttemptHolds(attempts[i])
          /\ attempts[i].before + (IF attempts[i].side = "buy" THEN 1 ELSE -1)
                * attempts[i].filled = Realized(ledger, attempts[i].symbol)
    /\ \A i, j \in DOMAIN attempts : i < j => InPhaseOrder(attempts[i], attempts[j])
    /\ \A i \in 1 .. Len(attempts) - 1 : attempts[i].cashAfter = attempts[i+1].cashBefore
    /\ attempts # <<>> => attempts[Len(attempts)].cashAfter = ledger.cash
    /\ \A i \in EventsAfterPlan(ledger) : ledger.events[i].date = session
    /\ {ledger.events[i].id : i \in EventsAfterPlan(ledger)}
          = {attempts[i].id : i \in FilledAttempts}
    /\ \A i \in FilledAttempts : FillRecorded(ledger, attempts[i])

FinishRebalance(next) ==
    /\ phase = "trade" /\ todo = <<>>
    /\ \/ ResultHolds  /\ phase' = next /\ UNCHANGED failure
       \/ ~ResultHolds /\ Fail("invalid_rebalance_result")
    /\ UNCHANGED <<ledgerVars, plan, session, quotes, equity, todo, attempts>>

=============================================================================
