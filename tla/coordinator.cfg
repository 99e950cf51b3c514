SPECIFICATION RunSpec
CONSTANTS
  Symbols <- MCSymbols
  Calendar <- MCCalendar
  Kind <- MCKind
  CommissionRate <- MCCommissionRate
  CommissionMin <- MCCommissionMin
  TransferFee <- MCTransfer
  StampDuty <- MCStamp
  ReceivableIds = {"d1", "d2", "d3", "d4"}
  PayOrder <- MCPayOrder
  SymbolOrder <- MCOrder
  InitialCash = 40500
  GrossPercent = 100
  MaxAttempts = 2
  SignalDate = 1
  EndDate = 5
  SignalClose <- MCSignalClose
  Bars <- MCBars
  ActionSets <- MCActionSets
INVARIANTS
  OnlyInputsAbort
  EntitlementIsRecordDateHolding
  FinishedRunsVerify
PROPERTY
  RunEnds
CHECK_DEADLOCK FALSE
