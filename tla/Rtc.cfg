SPECIFICATION Spec
CONSTANTS
  HOUR = 2
  YEAR = 3
  CENTURY = 4
  Chips <- AllChips
INVARIANTS
  TypeOK
  DateIsOnePointInTime
PROPERTIES
  Answers
