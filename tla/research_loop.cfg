SPECIFICATION Spec
CONSTANTS
  Symbols <- MCSymbols
  SymbolOrder <- MCSymbolOrder
  Calendar <- MCCalendar
  Kind <- MCKind
  CommissionRate <- MCCommissionRate
  CommissionMin <- MCCommissionMin
  TransferFee <- MCTransfer
  StampDuty <- MCStamp
  MaxSingle = 95
  MaxGross = 95
  MinCash = 5
  ReceivableIds = {"d1", "d2"}
  PayOrder <- MCPayOrder
  InitialCash = 50000
  FirstSession = 2
  LastSession = 5
  LastBar = 5
  Bars <- MCBars
  Dividends <- MCDividends
  Decisions <- MCDecisions
  Benchmark <- MCBenchmark
INVARIANTS
  LayersNeverObject
  AttemptsGoAsFarAsTheyCan
  FlatTargetsEndFlat
  EntitlementFollowsRecordDate
PROPERTY
  PathCompletes
CHECK_DEADLOCK FALSE
