---------------------------- MODULE MarketRules ----------------------------
(***************************************************************************)
(* The pre-trade rules of src/aquant/rules as operators: the official      *)
(* calendar, half-up rounding to fen, fees with a minimum commission and   *)
(* dated schedules, tick-rounded ten percent price limits, T+1 lots, and   *)
(* the one decision that composes them, evaluate_order.                    *)
(*                                                                         *)
(* Units.  A price is an integer number of mills (0.001 yuan, the finest   *)
(* tick of the supported instruments), cash an integer number of fen (0.01 *)
(* yuan, ten mills), a rate an integer number of 1/100000.  The code       *)
(* computes in exact Decimal and rounds half up where HalfUp stands here.  *)
(***************************************************************************)
EXTENDS Integers, Sequences, FiniteSets, FiniteSetsExt

CONSTANTS
    Symbols,          \* the instruments of the universe
    Calendar,         \* the official sessions, a set of dates (positive integers)
    Kind,             \* Symbols -> {"stock", "etf"}
    CommissionRate,   \* {"stock", "etf"} -> 1/100000 of the notional
    CommissionMin,    \* {"stock", "etf"} -> fen
    TransferFee,      \* set of [from, rate]: effective-dated, stocks only
    StampDuty         \* set of [from, rate]: effective-dated, stock sells only

Schedule == [from : Nat, rate : Nat]

ASSUME CalendarAssumption == Calendar \subseteq Nat \ {0} /\ IsFiniteSet(Calendar)
ASSUME KindAssumption     == Kind \in [Symbols -> {"stock", "etf"}]
ASSUME FeeAssumption      ==
    /\ CommissionRate \in [{"stock", "etf"} -> Nat]
    /\ CommissionMin \in [{"stock", "etf"} -> Nat]
    /\ TransferFee \subseteq Schedule /\ StampDuty \subseteq Schedule

NoDate  == 0      \* Python's None where a date may be missing
LotSize == 100    \* a board lot

-----------------------------------------------------------------------------
(* Integer arithmetic *)

\* n / d rounded to the nearest integer, ties away from zero (n >= 0).
HalfUp(n, d) == (2 * n + d) \div (2 * d)

\* price * size in fen.
NotionalFen(price, size) == HalfUp(price * size, 10)

-----------------------------------------------------------------------------
(* Calendar *)

NextSession(d) ==
    LET later == {s \in Calendar : s > d}
    IN  IF later = {} THEN NoDate ELSE Min(later)

-----------------------------------------------------------------------------
(* Fees *)

Effective(schedule, date) == {r \in schedule : r.from <= date}

\* The rate in force on date: the latest entry not after it.
RateOn(schedule, date) ==
    (CHOOSE r \in Effective(schedule, date) :
        \A q \in Effective(schedule, date) : q.from <= r.from).rate

MissingSchedule(symbol, side, date) ==
    /\ Kind[symbol] = "stock"
    /\ \/ Effective(TransferFee, date) = {}
       \/ side = "sell" /\ Effective(StampDuty, date) = {}

\* A rate applied to price * size (mills) and rounded to fen.
RatedFen(price, size, rate) == HalfUp(price * size * rate, 1000000)

Commission(symbol, price, size) ==
    LET rated == RatedFen(price, size, CommissionRate[Kind[symbol]])
        least == CommissionMin[Kind[symbol]]
    IN  IF rated < least THEN least ELSE rated

Statutory(applies, schedule, date, price, size) ==
    IF applies THEN RatedFen(price, size, RateOn(schedule, date)) ELSE 0

TotalFees(symbol, side, date, price, size) ==
    LET stock == Kind[symbol] = "stock"
    IN  Commission(symbol, price, size)
        + Statutory(stock, TransferFee, date, price, size)
        + Statutory(stock /\ side = "sell", StampDuty, date, price, size)

-----------------------------------------------------------------------------
(* Price limits, rounded half up to the instrument's tick *)

Tick(symbol) == IF Kind[symbol] = "stock" THEN 10 ELSE 1

LowerLimit(symbol, previousClose) ==
    HalfUp(previousClose * 9, 10 * Tick(symbol)) * Tick(symbol)
UpperLimit(symbol, previousClose) ==
    HalfUp(previousClose * 11, 10 * Tick(symbol)) * Tick(symbol)

\* A buy is refused at or above the upper limit, a sell at or below the lower.
LimitOpen(symbol, side, previousClose, open) ==
    \/ side = "buy"  /\ open >= UpperLimit(symbol, previousClose)
    \/ side = "sell" /\ open <= LowerLimit(symbol, previousClose)

-----------------------------------------------------------------------------
(* Lots.  A lot sequence is consumed from its front; a lot can be sold from *)
(* its available date, the session after it was bought (T+1).              *)

SizeOf(lots, indices) == SumFunction([i \in indices |-> lots[i].remaining])

SellableSize(lots, date) ==
    SizeOf(lots, {i \in DOMAIN lots : lots[i].available <= date})

\* A sell is a positive part of the position: board lots, or all of it.
ValidSellSize(position, requested) ==
    /\ position > 0 /\ requested > 0 /\ requested <= position
    /\ requested % LotSize = 0 \/ requested = position

\* consume_fifo: what a sell takes of each of its sellable lots, oldest first.
ConsumeLastFirst(lots, sellable, requested) ==        \* mutation: newest first
    [k \in sellable |->
        LET ahead == SizeOf(lots, {j \in sellable : j > k})
        IN  Max({0, Min({lots[k].remaining, requested - ahead})})]
ConsumeFifo(lots, sellable, requested) ==
    [k \in sellable |->
        LET ahead == SizeOf(lots, {j \in sellable : j < k})
        IN  Max({0, Min({lots[k].remaining, requested - ahead})})]

-----------------------------------------------------------------------------
(* The decision.  An order o names symbol, side and size, the session on    *)
(* which it was signalled (it executes on the next), whether the instrument *)
(* has a bar there, the previous close, the open, the cash on hand and the  *)
(* lots it could sell.  The first refusal that applies is the answer.       *)

Refusals(o) ==
    LET target  == NextSession(o.signal)
        held    == SellableSize(o.lots, target)
        priced  == o.previousClose > 0 /\ o.open > 0
        missing == MissingSchedule(o.symbol, o.side, target)
    IN  << <<o.signal \notin Calendar, "missing_calendar_coverage">>,
           <<target = NoDate, "no_next_session_in_range">>,
           <<~o.hasBar, "suspended_no_bar">>,
           <<o.side = "buy" /\ NextSession(target) = NoDate, "no_next_session_in_range">>,
           <<~priced, "missing_previous_close">>,
           <<o.size <= 0, "invalid_lot_size">>,
           <<o.side = "buy" /\ o.size % LotSize # 0, "invalid_lot_size">>,
           <<o.side = "sell" /\ held < o.size, "insufficient_sellable_position">>,
           <<o.side = "sell" /\ ~ValidSellSize(held, o.size), "invalid_lot_size">>,
           <<LimitOpen(o.symbol, o.side, o.previousClose, o.open), "price_limit_open">>,
           <<missing, "missing_fee_schedule">>,
           <<~missing /\ o.side = "buy" /\
             o.cash < NotionalFen(o.open, o.size)
                      + TotalFees(o.symbol, o.side, target, o.open, o.size),
             "insufficient_cash">> >>

EvaluateOrder(o) ==
    LET failing == {i \in DOMAIN Refusals(o) : Refusals(o)[i][1]}
    IN  IF failing = {} THEN "allowed" ELSE Refusals(o)[Min(failing)][2]

=============================================================================
