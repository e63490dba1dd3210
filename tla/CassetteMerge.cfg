SPECIFICATION DirSpec
CONSTANTS
  x1 = x1
  x2 = x2
  x3 = x3
  x4 = x4
  Absent = Absent
  Torn = Torn
  Exchanges <- MCExchanges
  Cuts <- MCErrors
  PruneAnytime = FALSE
INVARIANT
  OnlyFinalLineTorn
