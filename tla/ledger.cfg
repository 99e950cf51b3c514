SPECIFICATION Spec
CONSTANTS
  Symbols <- MCSymbols
  Calendar <- MCCalendar
  Kind <- MCKind
  CommissionRate <- MCCommissionRate
  CommissionMin <- MCCommissionMin
  TransferFee <- MCTransfer
  StampDuty <- MCStamp
  ReceivableIds = {"d1", "d2"}
  PayOrder <- MCPayOrder
  InitialCash = 21500
  Dates <- MCDates
  Postings <- MCPostings
  Registrations <- MCRegistrations
  Marks = {1000, 2000}
INVARIANTS
  LedgerInv
  ReplayOnlyCatchesOutOfOrder
  CashConserved
PROPERTY
  ClosedDaysStand
