SPECIFICATION Spec
CONSTANTS
  en = en
  lo = lo
  Total = Total
  Devices <- MCDevices
  Hidden <- MCHidden
  Active <- MCActive
  Word = 3
  TickWord = 2
INVARIANTS TypeOK NeverNull UsedIsDefined TotalIsSum
PROPERTIES RatesExact RowsOnlyGrow ClassesSample
CHECK_DEADLOCK FALSE
