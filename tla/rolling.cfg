SPECIFICATION RollingSpec
CONSTANTS
  Symbols <- MCSymbols
  Calendar <- MCCalendar
  Kind <- MCKind
  CommissionRate <- MCCommissionRate
  CommissionMin <- MCCommissionMin
  TransferFee <- MCTransfer
  StampDuty <- MCStamp
  ReceivableIds = {"d1"}
  PayOrder <- MCPayOrder
  InitialCash = 51000
  Dates <- MCDates
  Postings <- MCPostings
  Registrations <- MCRegistrations
  Marks = {1000, 2000}
  RollingPostings <- MCRollingPostings
  Sells <- MCSells
INVARIANTS
  RollingReplayOnlyCatchesMisuse
  OldestLotsGoFirst
  SiblingSchemasAgree
PROPERTY
  RollingDaysStand
