SPECIFICATION BacktestSpec
CONSTANTS
  Symbols = {"A"}
  Calendar <- MCCalendar
  Kind <- MCKind
  CommissionRate <- MCRate
  CommissionMin <- MCMin
  TransferFee <- MCTransfer
  StampDuty <- MCStamp
  Symbol = "A"
  InitialBalances <- MCBalances
  WeightPercent = 100
  Period = 2
  Bars <- MCBars
  Frames <- MCFrames
  ActionSets <- MCActionSets
INVARIANT
  OrdersEndAsDocumented
CHECK_DEADLOCK FALSE
