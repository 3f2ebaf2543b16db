SPECIFICATION Spec
CONSTANTS
  HOUR = 2
  YEAR = 3
  CENTURY = 4
  Chips <- TwelveHourChip
INVARIANTS
  TwelveHourClock
