------------------------------ MODULE MCParts -------------------------------
(***************************************************************************)
(* The smaller parts, each a module with its own variables.  A behaviour   *)
(* exercises one part, chosen at the start, and the others stay in their   *)
(* initial states:                                                         *)
(*    "calendars"           CalendarStore                                  *)
(*    "corporate actions"   CorporateActionStore                           *)
(*    "bundles"             BundlePublication                              *)
(*    "plans"               PlannerClient                                  *)
(*    "files"               FilePublication                                *)
(*    "fetches"             Fetch                                          *)
(*    "signals"             Signals                                        *)
(*    "dividends"           Dividends, a table that does not change        *)
(*    "frames"              Acceptance, a table of bars                    *)
(*    "backtests"           Backtest, as instantiated in MCBacktest        *)
(***************************************************************************)
EXTENDS PlannerClient, FilePublication, BundlePublication, CalendarStore, CorporateActionStore,
        Fetch, MCBacktest, SequencesExt, TLC

CONSTANTS w1, w2, w3, b, c, d, Refused

VARIABLES
    part, table,
    signal, top, series, today, signalPlan, signalReply

signalVars == <<signal, top, series, today, signalPlan, signalReply>>

\* Two publishers of one trust manifest, with one content or two, or of the index.
MCPublishers == {w1, w2}

\* Three publishers of one bundle of two files.
MCExporters == {w1, w2, w3}
MCFiles == {b, c}

\* Two writers of one calendar and a writer of another.
MCCalendarWriters == {w1, w2, w3}
MCCalendars == {c, d}
MCCalendarOf == (w1 :> c) @@ (w2 :> c) @@ (w3 :> d)

\* Two writers that publish the events of b up to the same day; then one covers
\* a longer time with the same events, the other with new events c.
Covering(x, until) == [bundle |-> x, until |-> until]
MCActionWriters == {w1, w2}
MCActionBundles == {b, c}
MCRecordOf == (w1 :> <<Covering(b, 1), Covering(b, 2)>>)
           @@ (w2 :> <<Covering(b, 1), Covering(c, 2)>>)

\* Requests of up to two ETFs and two stocks, in any order.
MCInstruments == {w1, w2, b, c}
MCKindOf == (w1 :> "etf") @@ (w2 :> "etf") @@ (b :> "stock") @@ (c :> "stock")

\* Up to five sessions of one ETF, up to four of two, the first three of them
\* month ends; a month's prior return spans two months, not twelve.
SignalRuns == INSTANCE Signals WITH
    MaxSingle <- 100, MaxGross <- 100, MinCash <- 0,
    Symbols <- {510300, 510500}, Closes <- {2, 3}, Horizon <- 6,
    ActiveWeight <- 95, Period <- 3, Lookback <- 2, Annualization <- 1, Threshold <- 30,
    MonthEnds <- <<1, 2, 3>>, Near <- 1, Far <- 2,
    style <- signal, plan <- signalPlan, reply <- signalReply

\* Up to three totals and up to two payments around the ten days that may lie
\* between them; up to two rows of a stock, some without dates.
Tables == INSTANCE Dividends
Totals == {{[date |-> x, total |-> f[x]] : x \in D} : D \in SUBSET {2, 9, 20}, f \in [{2, 9, 20} -> 0 .. 2]}
Details == [record : {1, 8, 10}, pay : {9, 20}, cash : {1, 2}]
EtfTables == [kind : {"etf"}, totals : Totals,
              details : UNION {kSubset(k, Details) : k \in 0 .. 2},
              start : {1, 9, 10}, end : {9, 20}]
Rows(ids) == [id : ids, ex : {0, 2, 3}, record : {0, 1, 2}, pay : {0, 2, 3},
              cash : {0, 1}, shares : {0, 1}]
StockTables == [kind : {"stock"}, rows : {{r, q} : r \in Rows({1}), q \in Rows({1, 2})},
                start : {1, 2}, end : {2, 3}]

\* Up to three rows around trading days 1, 2 and 4, out of order or twice or on
\* another day, some without a date; 200 fits an int64 in shares, not in lots.
FrameRuns == INSTANCE Acceptance WITH Calendar <- {1, 2, 4}, MaxVolume <- 250
FrameBars == [on : 0 .. 4, volume : {200}, bar : {"sound", "unsound", "malformed"}]
        \cup [on : 0 .. 4, volume : {0, -100}, bar : {"sound"}]
FrameTables == [kind : {"frames"}, rows : SeqOf(FrameBars, 3)]

PartsInit ==
    /\ Init
    /\ part \in {"calendars", "corporate actions", "bundles", "plans",
                "files", "fetches", "signals", "dividends", "frames", "backtests"}
    /\ CASE part = "dividends" -> table \in EtfTables \cup StockTables
         [] part = "frames"    -> table \in FrameTables
         [] OTHER              -> table = [kind |-> "none"]
    /\ CalendarInit /\ ActionInit
    /\ IF part = "bundles" THEN TRUE ELSE exporter = "report"
    /\ IF part = "files" THEN TRUE
       ELSE style = "index" /\ wants = (w1 :> "one") @@ (w2 :> "one")
    /\ IF part = "fetches" THEN TRUE ELSE what = "bars" /\ request = <<>>
    /\ IF part = "signals" THEN TRUE ELSE signal = "sma"
    /\ IF part = "backtests" THEN TRUE
       ELSE /\ strategy = "buy_and_hold" /\ frame = {2, 3, 6}
            /\ actions = {} /\ balance = 605010
    /\ BacktestInit
    /\ BundleInit /\ FileInit /\ FetchInit /\ SignalRuns!Init

PartsNext ==
    /\ UNCHANGED <<part, table>>
    /\ \/ part = "calendars" /\ CalendarNext
       \/ part # "calendars" /\ UNCHANGED calendarVars
    /\ \/ part = "corporate actions" /\ ActionNext
       \/ part # "corporate actions" /\ UNCHANGED actionVars
    /\ \/ part = "bundles" /\ BundleNext
       \/ part # "bundles" /\ UNCHANGED bundleVars
    /\ \/ part = "files" /\ FileNext
       \/ part # "files" /\ UNCHANGED fileVars
    /\ \/ part = "fetches" /\ FetchNext
       \/ part # "fetches" /\ UNCHANGED fetchVars
    /\ \/ part = "signals" /\ SignalRuns!Next
       \/ part # "signals" /\ UNCHANGED signalVars
    /\ \/ part = "backtests" /\ BacktestNext
       \/ part # "backtests" /\ UNCHANGED backtestVars
    /\ \/ part = "plans" /\ Next
       \/ part # "plans" /\ UNCHANGED vars

PartsSpec ==
    PartsInit /\ [][PartsNext]_<<vars, part, table, calendarVars, actionVars, bundleVars,
                               fileVars, fetchVars, signalVars, backtestVars>>

-----------------------------------------------------------------------------
(* The properties of the modules that are not extended; the others have theirs.
   Each is explained in the module it comes from. *)

\* The targets in force are the signal's latest decision.
LatestSignalStands == SignalRuns!LatestSignalStands

\* Frames of either provider account for the whole interval, and agree.
AcceptedBarsAgree ==
    table.kind = "frames" =>
        \A start, end \in 1 .. 4 :
            /\ \A columns \in FrameRuns!Providers :
                  FrameRuns!IntervalIsAccountedFor(table.rows, columns, start, end)
            /\ FrameRuns!ProvidersAgree(table.rows, start, end)
            /\ \A early \in 1 .. 4 : FrameRuns!EndsAgree(table.rows, start, early, end)

\* What is made of the tables of dividends adds up, however coverage is cut.
DividendsAddUp ==
    /\ table.kind = "etf" =>
          /\ Tables!EtfEventsAddUp(table.totals, table.details, table.start, table.end)
          /\ Tables!EtfCoverageSplits(table.totals, table.details, table.start, table.end)
    /\ table.kind = "stock" =>
          Tables!StockCoverageSplits(table.rows, table.start, table.end)

=============================================================================
