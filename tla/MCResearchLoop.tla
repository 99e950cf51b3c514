--------------------------- MODULE MCResearchLoop ---------------------------
(* Two ETFs over four sessions.  Opens at the previous close and at both    *)
(* price limits, suspensions, a dividend of which the shares may be sold on *)
(* the ex-date or before it, paid on a session that opens with a rebalance. *)
EXTENDS ResearchLoop

MCSymbols == {"A", "B"}
MCSymbolOrder == <<"A", "B">>
MCCalendar == {2, 3, 4, 5, 7}
MCKind == [s \in MCSymbols |-> "etf"]
MCTransfer == {[from |-> 1, rate |-> 1]}
MCStamp == {[from |-> 1, rate |-> 50]}
MCCommissionRate == [kind \in {"stock", "etf"} |-> 30]
MCCommissionMin == [kind \in {"stock", "etf"} |-> 500]
MCPayOrder == <<"d1", "d2">>

MCBars == {[open |-> 900, close |-> 1000], [open |-> 1100, close |-> 1100]}

Weigh(a, b) == [s \in MCSymbols |-> IF s = "A" THEN a ELSE b]
MCDecisions == {None, Weigh(95, 0), Weigh(0, 95)}
MCBenchmark == Weigh(47, 47)

MCDividends == [d \in {"d1", "d2"} |->
    [symbol |-> "A", record |-> IF d = "d1" THEN 4 ELSE 3,
     ex |-> 5, payable |-> IF d = "d1" THEN 5 ELSE 6, perUnit |-> 20]]

=============================================================================
