SPECIFICATION Spec
CONSTANTS
  KnownDays <- MCKnownDays
  Span = 720
  Offsets <- MCOffsets
  Jumps <- MCJumps
  Clocks <- MCClocks
INVARIANTS
  TypeOK
  CivilDates
  WeekdaysAgree
  OrdersFollowDays
  MonthsReturn
  IsoWeeks
  TimestampsReturn
  OnlyRealTimes
  ExpiryKept
CHECK_DEADLOCK FALSE
