---------------------------- MODULE Coordinator ----------------------------
(***************************************************************************)
(* run_portfolio_backtest of src/aquant/portfolio/coordinator.py: one      *)
(* buy-and-hold run over the official sessions after the signal date.      *)
(* Every session goes through the same phases:                             *)
(*    "dividends"  adjust marks, register the entitlements of ex-dates,    *)
(*    "pay"        pay the receivables due,                                *)
(*    "entries"    one attempt for each pending target, in symbol order,   *)
(*    "close"      mark the book and append the daily snapshot.            *)
(* The ledger is PortfolioLedger's; a call it does not answer "ok" raises  *)
(* PortfolioError, which ends the run and hands nothing back.              *)
(*                                                                         *)
(* The bars of a session are picked when the session opens and the         *)
(* corporate actions at the start: the code reads both from verified       *)
(* inputs and never looks ahead.                                           *)
(***************************************************************************)
EXTENDS PortfolioLedger

CONSTANTS
    SymbolOrder,      \* the universe as a sequence, in symbol order
    GrossPercent,     \* gross_target_weight, in percent
    MaxAttempts,      \* max_entry_attempts
    SignalDate, EndDate,
    SignalClose,      \* the close of the signal session
    Bars,             \* Symbols -> set of [open, close] a session may show
    ActionSets        \* the sets of corporate actions a run may be given:
                      \* functions from event ids to dividend records

Price == Nat \ {0}
NoBar == [open |-> 0, close |-> 0]

ASSUME CoordinatorAssumption ==
    /\ SymbolOrder \in Seq(Symbols) /\ SymbolOrder # <<>>
    /\ \A i, j \in DOMAIN SymbolOrder : SymbolOrder[i] = SymbolOrder[j] => i = j
    /\ GrossPercent \in 1 .. 100
    /\ MaxAttempts \in 1 .. 20
    /\ {SignalDate, EndDate} \subseteq Calendar /\ SignalDate < EndDate
    /\ NextSession(EndDate) # NoDate               \* _verify_preflight
    /\ SignalClose \in [Symbols -> Price]
    /\ \A y \in Symbols : Bars[y] \subseteq [open : Price, close : Price]
    /\ \A actions \in ActionSets : \A d \in DOMAIN actions :
          /\ d \in ReceivableIds /\ actions[d].symbol \in Symbols
          /\ {actions[d].perUnit, actions[d].ex, actions[d].payable} \subseteq Nat \ {0}
          /\ actions[d].record \in Nat
          /\ actions[d].record < actions[d].ex     \* _verify_supported_actions
          /\ actions[d].ex <= actions[d].payable
          /\ actions[d].ex \in SignalDate + 1 .. EndDate => actions[d].ex \in Calendar

VARIABLES
    phase,      \* where the loop is; "done" and "aborted" end the run
    failure,    \* the PortfolioError code of an aborted run
    previous,   \* the last session closed (the signal date at first)
    session,    \* the session being processed
    bars,       \* the bars of the session
    queue,      \* dividend events of the session still to register
    adjusted,   \* symbols whose mark this session's dividends reduced
    cursor,     \* the next target to try
    actions,    \* the corporate actions of this run
    marks,      \* trusted mark of each symbol
    carried,    \* sessions each mark has been carried without a bar
    targets,    \* one entry target per symbol
    attempts,   \* every entry attempt made
    entitled,   \* the dividend audit: entitled size by event id
    availability \* the audit of every symbol's mark on every session

runVars == <<phase, failure, previous, session, bars, queue, adjusted, cursor,
             actions, marks, carried, targets, attempts, entitled, availability>>
vars == <<ledgerVars, runVars>>

-----------------------------------------------------------------------------
(* Allocation: equal fixed notionals, remainders stay in cash *)

GrossTarget  == (InitialCash * GrossPercent) \div 100
TargetFen    == GrossTarget \div Len(SymbolOrder)

RunInit ==
    /\ ledger = CreateLedger(InitialCash) /\ reply = "ok" /\ asOf = NoDate
    /\ phase = "open" /\ failure = "none"
    /\ previous = SignalDate /\ session = SignalDate
    /\ bars = [y \in Symbols |-> NoBar]
    /\ queue = {} /\ adjusted = {} /\ cursor = 1
    /\ actions \in ActionSets
    /\ marks = SignalClose
    /\ carried = [y \in Symbols |-> 0]
    /\ targets = [i \in DOMAIN SymbolOrder |-> [status |-> "pending", used |-> 0]]
    /\ attempts = <<>>
    /\ entitled = <<>>
    /\ availability = <<>>

Abort(code) == phase' = "aborted" /\ failure' = code

\* The rest of the step if the ledger took the call, PortfolioError if not.
ThenGoTo(next) ==
    \/ reply' = "ok" /\ phase' = next /\ UNCHANGED failure
    \/ reply' # "ok" /\ Abort("ledger")

-----------------------------------------------------------------------------
(* Opening a session *)

ExToday(date) == {d \in DOMAIN actions : actions[d].ex = date}

SessionBars ==
    {b \in [Symbols -> UNION {Bars[y] : y \in Symbols} \cup {NoBar}] :
        \A y \in Symbols : b[y] \in Bars[y] \cup {NoBar}}

OpenSession ==
    /\ phase = "open"
    /\ LET next == NextSession(previous) IN
          /\ next <= EndDate
          /\ session' = next
          /\ queue' = ExToday(next)
    /\ bars' \in SessionBars
    /\ adjusted' = {} /\ cursor' = 1
    /\ phase' = "dividends"
    /\ UNCHANGED <<ledgerVars, failure, previous, actions, marks, carried,
                   targets, attempts, entitled, availability>>

Finish ==
    /\ phase = "open"
    /\ NextSession(previous) > EndDate
    /\ phase' = "done"
    /\ UNCHANGED <<ledgerVars, failure, previous, session, bars, queue, adjusted, cursor,
                   actions, marks, carried, targets, attempts, entitled, availability>>

-----------------------------------------------------------------------------
(* Dividends *)

\* The first official session not earlier than the payable date.
UnalignedCashDate(payable) == payable     \* mutation: keeps the source date
ActualCashDate(payable) == IF payable \in Calendar THEN payable ELSE NextSession(payable)

\* Shares of lots bought on or before the record date.
HeldSize(symbol, record) ==                \* mutation: forgets the record date
    SizeOf(ledger.lots, {i \in DOMAIN ledger.lots : ledger.lots[i].symbol = symbol})
EntitledSize(symbol, record) ==
    SizeOf(ledger.lots, {i \in DOMAIN ledger.lots :
        ledger.lots[i].symbol = symbol /\ ledger.lots[i].acquired <= record})

\* What the session's ex-dates take off one unit of the symbol.
DividendsOn(symbol, date) ==
    SumFunction([d \in {x \in DOMAIN actions :
                          actions[x].symbol = symbol /\ actions[x].ex = date}
                 |-> actions[d].perUnit])

MarkPerEvent(symbol) ==                    \* mutation: one reduction per event
    marks[symbol] - DividendsOn(symbol, session)
AdjustedMark(symbol) ==
    IF symbol \in adjusted THEN marks[symbol]
                           ELSE marks[symbol] - DividendsOn(symbol, session)

\* The event of the queue that comes first in symbol and event id order.
IsNext(d) ==
    \E k \in DOMAIN PayOrder :
        PayOrder[k] = d /\ \A j \in 1 .. k - 1 : PayOrder[j] \notin queue

\* The next event of the session: its symbol's mark is reduced once, by all of
\* the symbol's dividends; the holders of the record date get a receivable.
RegisterDividend ==
    /\ phase = "dividends"
    /\ \E d \in queue : IsNext(d) /\
       LET event  == actions[d]
           mark   == AdjustedMark(event.symbol)
           paidOn == ActualCashDate(event.payable)
           size   == EntitledSize(event.symbol, event.record)
           amount == NotionalFen(event.perUnit, size)
       IN \/ /\ mark <= 0
             /\ Abort("nonpositive_reference_price")
             /\ UNCHANGED <<ledgerVars, queue, adjusted, marks, entitled>>
          \/ /\ mark > 0 /\ paidOn = NoDate
             /\ Abort("missing_calendar_coverage")
             /\ UNCHANGED <<ledgerVars, queue, adjusted, marks, entitled>>
          \/ /\ mark > 0 /\ paidOn # NoDate
             /\ marks' = [marks EXCEPT ![event.symbol] = mark]
             /\ adjusted' = adjusted \cup {event.symbol}
             /\ entitled' = [x \in DOMAIN entitled \cup {d} |->
                               IF x = d THEN size ELSE entitled[x]]
             /\ queue' = queue \ {d}
             /\ \/ /\ amount = 0
                   /\ UNCHANGED <<ledgerVars, phase, failure>>
                \/ /\ amount > 0
                   /\ RegisterReceivable(d,
                        [symbol |-> event.symbol, registered |-> session,
                         payable |-> event.payable, actual |-> paidOn,
                         amount |-> amount, paid |-> NoDate])
                   /\ ThenGoTo(phase)
    /\ UNCHANGED <<previous, session, bars, cursor, actions, carried, targets, attempts,
                   availability>>

DividendsDone ==
    /\ phase = "dividends" /\ queue = {}
    /\ phase' = "pay"
    /\ UNCHANGED <<ledgerVars, failure, previous, session, bars, queue, adjusted, cursor,
                   actions, marks, carried, targets, attempts, entitled, availability>>

PayDue ==
    /\ phase = "pay"
    /\ PayReceivables(session)
    /\ ThenGoTo("entries")
    /\ UNCHANGED <<previous, session, bars, queue, adjusted, cursor, actions, marks,
                   carried, targets, attempts, entitled, availability>>

-----------------------------------------------------------------------------
(* Entries *)

\* The target the loop over targets comes to next: none of the earlier ones
\* from the cursor on is pending.
NextPending(i) ==
    /\ i \in cursor .. Len(targets)
    /\ targets[i].status = "pending"
    /\ \A j \in cursor .. i - 1 : targets[j].status # "pending"

\* evidence: the cash before a fill, and what the initial and the requested
\* size would cost; a rejected attempt has none.
Attempt(i, initial, requested, result, evidence) ==
    [symbol |-> SymbolOrder[i], intent |-> previous, session |-> session,
     number |-> targets[i].used + 1, initial |-> initial, requested |-> requested,
     result |-> result, hasBar |-> bars[SymbolOrder[i]] # NoBar, evidence |-> evidence]

\* A rejected attempt uses up one try; the last one expires the target.
RecordRejectionLate(target) ==             \* mutation: expires one try late
    [used   |-> target.used + 1,
     status |-> IF target.used = MaxAttempts THEN "expired" ELSE "pending"]
RecordRejection(target) ==
    [used   |-> target.used + 1,
     status |-> IF target.used + 1 = MaxAttempts THEN "expired" ELSE "pending"]

Rejected(i, initial, requested, reason) ==
    /\ attempts' = Append(attempts, Attempt(i, initial, requested, reason, <<>>))
    /\ targets' = [targets EXCEPT ![i] = RecordRejection(@)]
    /\ cursor' = i + 1
    /\ UNCHANGED <<ledgerVars, phase, failure>>

\* Whole board lots that the fixed notional buys at the open.
InitialCandidate(open) == LotSize * (((TargetFen * 10) \div open) \div LotSize)

Order(i, size) ==
    LET y == SymbolOrder[i]
    IN  [symbol |-> y, side |-> "buy", signal |-> previous, size |-> size,
         previousClose |-> marks[y], open |-> bars[y].open, hasBar |-> bars[y] # NoBar,
         cash |-> ledger.cash, lots |-> ledger.lots]

\* The size loop: from the initial candidate down by board lots while cash is
\* the only objection.  0 when even one lot is too much.
Candidate(i, initial) ==
    LET sizes == {k * LotSize : k \in 1 .. initial \div LotSize}
        open  == {size \in sizes : EvaluateOrder(Order(i, size)) # "insufficient_cash"}
    IN  IF open = {} THEN 0 ELSE Max(open)

CashRequired(i, size) ==
    LET y == SymbolOrder[i]
    IN  NotionalFen(bars[y].open, size)
        + TotalFees(y, "buy", session, bars[y].open, size)

\* EntryAttempt's own validation of a filled attempt's evidence.
EvidenceHolds(i, initial, size) ==
    /\ ledger.cash >= CashRequired(i, size)
    /\ size < initial => /\ ledger.cash < CashRequired(i, initial)
                         /\ CashRequired(i, initial) > CashRequired(i, size)

Fill(i, initial, size) ==
    LET y == SymbolOrder[i]
        n == targets[i].used + 1
    IN  /\ PostBuy([event |-> <<"fill", y, n>>,
                    fees  |-> TotalFees(y, "buy", session, bars[y].open, size),
                    lot   |-> [id |-> <<"lot", y, n>>, symbol |-> y,
                               acquired |-> session, available |-> NextSession(session),
                               remaining |-> size, cost |-> bars[y].open]])
        /\ attempts' = Append(attempts, Attempt(i, initial, size, "filled",
              <<ledger.cash, CashRequired(i, initial), CashRequired(i, size)>>))
        /\ targets' = [targets EXCEPT ![i] = [used |-> n, status |-> "filled"]]
        /\ cursor' = i + 1
        /\ \/ EvidenceHolds(i, initial, size)  /\ ThenGoTo("entries")
           \/ ~EvidenceHolds(i, initial, size) /\ Abort("invalid_attempt")

ContractFailures == {"missing_calendar_coverage", "no_next_session_in_range",
                     "missing_fee_schedule"}

TryEntry(i) ==
    /\ phase = "entries" /\ NextPending(i)
    /\ \/ /\ bars[SymbolOrder[i]] = NoBar
          /\ Rejected(i, 0, 0, "suspended_no_bar")
       \/ /\ bars[SymbolOrder[i]] # NoBar
          /\ \E initial \in {InitialCandidate(bars[SymbolOrder[i]].open)} :
             \E size \in {Candidate(i, initial)} :
             \E decision \in {EvaluateOrder(Order(i, IF size = 0 THEN LotSize ELSE size))} :
                \/ initial = 0 /\ Rejected(i, 0, 0, "invalid_lot_size")
                \/ /\ initial > 0 /\ decision = "allowed"
                   /\ Fill(i, initial, size)
                \/ /\ initial > 0 /\ decision \in ContractFailures
                   /\ Abort("rule_contract_failure")
                   /\ UNCHANGED <<ledgerVars, attempts, targets, cursor>>
                \/ /\ initial > 0 /\ decision \notin ContractFailures \cup {"allowed"}
                   /\ Rejected(i, initial, size, decision)
    /\ UNCHANGED <<previous, session, bars, queue, adjusted, actions, marks, carried,
                   entitled, availability>>

EntriesResolved ==                         \* mutation: waits for every target
    /\ phase = "entries" /\ \A i \in DOMAIN targets : targets[i].status # "pending"
    /\ phase' = "close"
    /\ UNCHANGED <<ledgerVars, failure, previous, session, bars, queue, adjusted, cursor,
                   actions, marks, carried, targets, attempts, entitled, availability>>
EntriesDone ==
    /\ phase = "entries" /\ ~\E i \in DOMAIN targets : NextPending(i)
    /\ phase' = "close"
    /\ UNCHANGED <<ledgerVars, failure, previous, session, bars, queue, adjusted, cursor,
                   actions, marks, carried, targets, attempts, entitled, availability>>

-----------------------------------------------------------------------------
(* Close *)

\* The session's close where there is a bar, the (adjusted) mark carried where not.
ClosingMark(y) == IF bars[y] = NoBar THEN marks[y] ELSE bars[y].close

Valuations ==
    LET held(y) == {i \in DOMAIN ledger.lots : ledger.lots[i].symbol = y}
    IN  [y \in {s \in Symbols : held(s) # {}} |->
            [total     |-> SizeOf(ledger.lots, held(y)),
             available |-> SizeOf(ledger.lots, {i \in held(y) :
                                     ledger.lots[i].available <= session}),
             mark      |-> ClosingMark(y)]]

\* Why the symbol's mark of the session is what it is.
AdjustmentReason(y) ==
    IF bars[y] # NoBar THEN "bar_close"
    ELSE IF y \in adjusted THEN "cash_dividend" ELSE "no_bar_carry"

AvailabilityAudit(y) ==
    [session |-> session, symbol |-> y, mark |-> ClosingMark(y),
     carried |-> IF bars[y] = NoBar THEN carried[y] + 1 ELSE 0,
     reason  |-> AdjustmentReason(y)]

CloseDay ==
    /\ phase = "close"
    /\ availability' = availability
          \o [i \in DOMAIN SymbolOrder |-> AvailabilityAudit(SymbolOrder[i])]
    /\ marks' = [y \in Symbols |-> ClosingMark(y)]
    /\ carried' = [y \in Symbols |-> IF bars[y] = NoBar THEN carried[y] + 1 ELSE 0]
    /\ CloseSession(session, Valuations)
    /\ previous' = session
    /\ ThenGoTo("open")
    /\ UNCHANGED <<session, bars, queue, adjusted, cursor, actions, targets, attempts,
                   entitled>>

RunNext ==
    \/ OpenSession \/ Finish
    \/ RegisterDividend \/ DividendsDone \/ PayDue
    \/ \E i \in DOMAIN targets : TryEntry(i)
    \/ EntriesDone \/ CloseDay

\* One thread runs the loop to its end.
RunSpec == RunInit /\ [][RunNext]_vars /\ WF_vars(RunNext)

-----------------------------------------------------------------------------
(* Properties *)

Snapshots == ledger.snapshots

\* A run ends early only for a reason its inputs give: a dividend that eats the
\* whole mark, a payable date the calendar does not reach, or a date before the
\* first fee rate.  No call it makes is ever refused by the ledger or fails the
\* ledger's replay, no due receivable is skipped, and the evidence of every
\* filled attempt passes EntryAttempt's own validation.
OnlyInputsAbort ==
    /\ failure \notin {"ledger", "invalid_attempt"}
    /\ failure = "rule_contract_failure" =>
          \E y \in Symbols : MissingSchedule(y, "buy", session)

\* A dividend is owed on exactly the shares the account held at the close of
\* the record date, as the snapshot taken then says, whatever was bought
\* between the record date and the ex-date.
EntitlementIsRecordDateHolding ==
    \A d \in DOMAIN entitled :
        LET y     == actions[d].symbol
            upTo  == {i \in DOMAIN Snapshots : Snapshots[i].date <= actions[d].record}
            held  == IF upTo = {} \/ y \notin DOMAIN Snapshots[Max(upTo)].valuations THEN 0
                     ELSE Snapshots[Max(upTo)].valuations[y].total
            owed  == NotionalFen(actions[d].perUnit, held)
        IN  /\ entitled[d] = held
            /\ IF d \in DOMAIN ledger.receivables
               THEN ledger.receivables[d].amount = owed ELSE owed = 0

\* The run ends, and ends with every target resolved unless the sessions ran out.
RunEnds ==
    <>( \/ phase = "aborted"
        \/ /\ phase = "done"
           /\ \A i \in DOMAIN targets : targets[i].status = "pending" =>
                 targets[i].used = Cardinality({s \in Calendar : s > SignalDate /\ s <= EndDate}))

=============================================================================
