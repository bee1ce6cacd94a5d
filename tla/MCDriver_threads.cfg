SPECIFICATION DriverSpec
CONSTANTS
  Generators = {g1, g2}
  Duration = 1
  Second = 2
  IntMax = 1
  MaxTime = 4
  MaxQueue = 2
  MayThrow = TRUE
INVARIANTS
  TypeOK
  NoUseAfterDestroy
  AfterStopBounded
PROPERTY ExitsUnlessTxnThrew
CHECK_DEADLOCK FALSE
