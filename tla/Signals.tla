------------------------------ MODULE Signals -------------------------------
(***************************************************************************)
(* The signals of src/aquant/research/signals.py, and the chain of plans   *)
(* the factories of research/loop.py make of them: every session the close *)
(* of each instrument, when it has one, joins its history; the signal      *)
(* decides about all, some or none of the instruments; the planner merges  *)
(* the decision into the targets of the session before.                    *)
(*                                                                         *)
(* Weights are percents.  Closes are small integers and quotients of them  *)
(* are compared by cross-multiplication, where the code divides floats.    *)
(***************************************************************************)
EXTENDS Planner, SequencesExt, TLC

CONSTANTS
    Symbols,           \* integers: their order breaks ties
    Closes,            \* indicator closes, positive
    Horizon,           \* bound: sessions and instruments of a run, together
    ActiveWeight,      \* active_weight
    Period,            \* SmaSignal
    Lookback,          \* lookback_returns, lookback_sessions, lookback
    Annualization, Threshold,    \* volatility: sessions a year, a percent
    MonthEnds,         \* month_end_sessions, ascending
    Near, Far          \* _NUMERATOR_MONTH_OFFSET, _DENOMINATOR_MONTH_OFFSET

VARIABLES
    style,         \* the signal: "sma", "volatility", "momentum", "monthly", "static", "top"
    top,           \* k of the last
    series,        \* the observations of each symbol of the run
    today, plan, reply

vars == <<style, top, series, today, plan, reply>>

Silent  == [s \in {} |-> 0]      \* {}: no decision
Missing == 0                     \* no bar

Universe == DOMAIN series

-----------------------------------------------------------------------------
(* Signal.compute(as_of, data) *)

\* The observations a signal may see.
PastUnfiltered(asOf, s) == series[s]          \* mutation: no filter on as_of
Past(asOf, s) == SelectSeq(series[s], LAMBDA o : o.on <= asOf)

Latest(asOf, s, n) ==
    LET past == Past(asOf, s) IN [i \in 1 .. n |-> past[Len(past) - n + i].close]
HasLatest(asOf, s, n) == Len(Past(asOf, s)) >= n

Sma(asOf, s) ==
    LET window == Latest(asOf, s, Period)
        excess == Period * window[Period] - SumFunction(window)
    IN  IF ~HasLatest(asOf, s, Period) \/ excess = 0 THEN Silent
        ELSE s :> (IF excess > 0 THEN ActiveWeight ELSE 0)

\* sample_standard_deviation, squared, times Lookback * (Lookback - 1) and a
\* common denominator of the returns, squared.
Volatility(asOf, s) ==
    LET closes == Latest(asOf, s, Lookback + 1)
        common == FoldFunction(LAMBDA c, p : c * p, 1, Front(closes))
        return == [i \in 1 .. Lookback |-> (closes[i + 1] - closes[i]) * (common \div closes[i])]
        spread == Lookback * SumFunction([i \in 1 .. Lookback |-> return[i] * return[i]])
                  - SumFunction(return) * SumFunction(return)
        calm   == Annualization * spread * 10000
                  <= Threshold * Threshold * common * common * Lookback * (Lookback - 1)
    IN  IF ~HasLatest(asOf, s, Lookback + 1) THEN Silent
        ELSE s :> (IF calm THEN ActiveWeight ELSE 0)

Momentum(asOf, s) ==
    LET closes == Latest(asOf, s, Lookback + 1)
    IN  IF ~HasLatest(asOf, s, Lookback + 1) THEN Silent
        ELSE s :> (IF closes[Lookback + 1] > closes[1] THEN ActiveWeight ELSE 0)

\* The sort key (-return, symbol) of [symbol, base, now].
Beats(x, y) ==
    \/ x.now * y.base > y.now * x.base
    \/ x.now * y.base = y.now * x.base /\ x.symbol < y.symbol

CloseOn(asOf, s, session) ==
    LET seen == {o \in ToSet(Past(asOf, s)) : o.on = session}
    IN  IF seen = {} THEN Missing ELSE (CHOOSE o \in seen : TRUE).close

Monthly(asOf) ==
    LET month == SelectInSeq(MonthEnds, LAMBDA m : m = asOf)
        entry == [s \in Universe |->
                    [symbol |-> s, base |-> CloseOn(asOf, s, MonthEnds[month - Far]),
                     now |-> CloseOn(asOf, s, MonthEnds[month - Near])]]
    IN  IF month <= Far \/ \E s \in Universe : Missing \in {entry[s].base, entry[s].now}
        THEN Silent
        ELSE [s \in Universe |->
                IF \A r \in Universe \ {s} : Beats(entry[s], entry[r]) THEN ActiveWeight ELSE 0]

\* The instruments with enough history, and of them the top best.
Entries(asOf) ==
    {[symbol |-> s, base |-> Latest(asOf, s, Lookback + 1)[1], now |-> Latest(asOf, s, 1)[1]] :
        s \in {r \in Universe : HasLatest(asOf, r, Lookback + 1)}}
Best(entries) == {x \in entries : Cardinality({y \in entries : Beats(y, x)}) < top}

TopWinnersOnly(asOf) ==      \* mutation: the losers are left out
    LET selected == Best(Entries(asOf))
    IN  [s \in {x.symbol : x \in selected} |-> 100 \div Cardinality(selected)]
TopK(asOf) ==
    LET eligible == Entries(asOf)
        selected == Best(eligible)
    IN  [s \in {x.symbol : x \in eligible} |->
            IF \E x \in selected : x.symbol = s THEN 100 \div Cardinality(selected) ELSE 0]

Compute(asOf) ==
    CASE style = "sma"        -> Sma(asOf, CHOOSE s \in Universe : TRUE)
      [] style = "volatility" -> Volatility(asOf, CHOOSE s \in Universe : TRUE)
      [] style = "momentum"   -> Momentum(asOf, CHOOSE s \in Universe : TRUE)
      [] style = "monthly"    -> Monthly(asOf)
      [] style = "top"        -> TopK(asOf)

\* validate_signal_output
Valid(output) ==
    /\ DOMAIN output \subseteq Universe
    /\ \A s \in DOMAIN output : output[s] \in 0 .. 100
    /\ SumFunction(output) <= 100

-----------------------------------------------------------------------------
(* The plan factories *)

Single == {"sma", "volatility", "momentum"}
Init ==
    /\ style \in Single \cup {"monthly", "static", "top"}
    /\ top \in (IF style = "top" THEN 1 .. Cardinality(Symbols) ELSE {0})
    /\ \E universe \in {{Min(Symbols)}, Symbols} :
          /\ style \in Single => universe = {Min(Symbols)}
          /\ style \in {"monthly", "top"} => universe = Symbols
          /\ series = [s \in universe |-> <<>>]
    /\ today = 0 /\ plan = NoPlan /\ reply = "planned"

Observed(session, closes) ==
    [s \in Universe |-> IF closes[s] = Missing THEN series[s]
                        ELSE Append(series[s], [on |-> session, close |-> closes[s]])]

\* The signals of the loop are asked only when every symbol has its bar.
Asked(session) ==
    style = "top" \/ \A s \in Universe : CloseOn(session, s, session) # Missing

\* The benchmark decides once, at the first session.
Static == [s \in Universe |-> ActiveWeight \div Cardinality(Universe)]

Merged(output) ==
    IF ~Valid(output) \/ PlanRefused(today', output, plan, Universe)
    THEN reply' = "refused" /\ UNCHANGED plan
    ELSE reply' = "planned" /\ plan' = PlanTargets(today', output, plan)

Session ==
    /\ reply = "planned" /\ today + Cardinality(Universe) < Horizon
    /\ \E closes \in [Universe -> Closes \cup {Missing}] : series' = Observed(today + 1, closes)
    /\ today' = today + 1 /\ UNCHANGED <<style, top>>
    /\ IF style = "static"
       THEN IF plan # NoPlan THEN Merged(Silent)
            ELSE IF Asked(today)' THEN Merged(Static)
            ELSE reply' = "benchmark_initial_bar_missing" /\ UNCHANGED plan
       ELSE Merged(IF Asked(today)' THEN Compute(today)' ELSE Silent)

Next == Session
Spec == Init /\ [][Next]_vars

-----------------------------------------------------------------------------
(* Properties *)

\* Whatever bars are missing and however many sessions a signal is silent, the
\* planner refuses no output of it, and the targets in force are exactly what
\* the signal decided at the last session it was asked and decided: the same
\* answer it gives for that session now, with all the later closes in its
\* input.  A loser's explicit zero replaces the weight it had won.
DecidedOn(session) == Asked(session) /\ Compute(session) # Silent
LatestSignalStands ==
    /\ reply \in {"planned", "benchmark_initial_bar_missing"}
    /\ IF style = "static" THEN plan.targets \in {Silent, Static}
       ELSE LET decided == {d \in 1 .. today : DecidedOn(d)}
            IN  plan.targets = IF decided = {} THEN Silent ELSE Compute(Max(decided))

=============================================================================
